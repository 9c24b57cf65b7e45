------------------------------ MODULE MCGetDrv ------------------------------
(***************************************************************************)
(* Model-checking instance of GetDrv: three registered drivers, two of    *)
(* which share a type and two a UUID, so that list order decides; a type  *)
(* and a UUID no driver has.  size_t is scaled to 5 bits, the header to 4 *)
(* bytes and UUID_SIZE to 2.                                              *)
(***************************************************************************)
EXTENDS GetDrv

CONSTANTS t1, t2, t3, u1, u2, u3

MC_Types == {t1, t2, t3}
MC_Uids == {u1, u2, u3}
MC_Drivers == << [type |-> t1, uid |-> u1], [type |-> t2, uid |-> u2],
                 [type |-> t1, uid |-> u2] >>
\* Descriptors no longer than the 12-byte IPC message, and an
\* ext_data_length no longer than the message either.
MC_MsgSizes == 0..12
MC_ExtLens == 0..12
\* ext_data_length is a field of the message: the host can put any value in it.
MC_AnyExtLen == 0..31
====
