------------------------------ MODULE MCCompNew ------------------------------
(***************************************************************************)
(* Model-checking instance of CompNew: a host, a volume and a mixer       *)
(* driver, and a second volume driver registered later that shares the   *)
(* host driver's UUID, so that list order decides; a buffer type no       *)
(* driver has.  A descriptor names any type with any UUID.  size_t is    *)
(* scaled to 5 bits, the header to 4 bytes and UUID_SIZE to 2; sizes and  *)
(* extension lengths are those of a 12-byte IPC message.                  *)
(***************************************************************************)
EXTENDS CompNew, TLC

CONSTANTS host, volume, mixer, buf, u1, u2, u3

MC_Types == {host, volume, mixer, buf}
MC_Uids == {u1, u2, u3}
MC_Drivers == << [type |-> host, uid |-> u1], [type |-> volume, uid |-> u2],
                 [type |-> mixer, uid |-> u3], [type |-> volume, uid |-> u1] >>
MC_KindOf == (host :> "host" @@ volume :> "volume" @@ mixer :> "other"
                @@ buf :> "buffer")
MC_MsgSizes == 0..12
MC_ExtLens == 0..12
====
