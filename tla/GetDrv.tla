------------------------------- MODULE GetDrv --------------------------------
(***************************************************************************)
(* get_drv() of src/ipc/ipc3/helper.c: the driver comp_new() instantiates *)
(* for a new-component descriptor sent by the host.                       *)
(*                                                                         *)
(* Without extended data the driver list is searched by type; with it the *)
(* descriptor's total size is checked against sizeof(struct sof_ipc_comp) *)
(* plus the extension length, the extension is located at the end of the *)
(* descriptor, its length is checked against UUID_SIZE and the list is    *)
(* searched by UUID.  The first match in list order wins.                 *)
(*                                                                         *)
(* The size arithmetic is done in the width of size_t, scaled down to     *)
(* Width bits: sizes and lengths are 0..2^Width-1 and sums wrap.          *)
(***************************************************************************)
EXTENDS Integers, Sequences

CONSTANTS
    Drivers,    \* the comp_driver_list in registration order: [type, uid]
    Types,      \* comp->type values
    Uids,       \* UUID values
    Width,      \* bits of size_t
    CompSize,   \* sizeof(struct sof_ipc_comp)
    UuidSize,   \* UUID_SIZE
    MsgSizes,   \* hdr.size values the host sends
    ExtLens,    \* ext_data_length values the host sends
    NULL

Word == 2^Width

ASSUME Drivers \in Seq([type : Types, uid : Uids])
ASSUME MsgSizes \subseteq 0..(Word - 1) /\ ExtLens \subseteq 0..(Word - 1)
ASSUME CompSize + UuidSize < Word

Msgs == [type : Types, size : MsgSizes, ext : ExtLens, uuid : Uids]

VARIABLES
    msg,        \* the descriptor of the last IPC_COMP_NEW
    drv,        \* index in Drivers of the driver get_drv() returned, or 0
    ext_at      \* offset the UUID was read from, NULL if it was not read

vars == <<msg, drv, ext_at>>

\* The first of the matching list positions S, 0 for none (the list_for_item
\* loop that stops at the first match).
FirstMatch(S) == IF S = {} THEN 0 ELSE CHOOSE i \in S : \A j \in S : i <= j

ByType(t) == {i \in 1..Len(Drivers) : Drivers[i].type = t}
ByUuid(u) == {i \in 1..Len(Drivers) : Drivers[i].uid = u}

\* mutant: the UUID length check is missing
GetDrvOfNoUuidCheck(m) ==
    IF m.ext = 0
    THEN <<FirstMatch(ByType(m.type)), NULL>>
    ELSE IF m.size < (CompSize + m.ext) % Word
    THEN <<0, NULL>>
    ELSE <<FirstMatch(ByUuid(m.uuid)), (m.size - m.ext) % Word>>

(***************************************************************************)
(* get_drv(comp): the returned driver and the offset of comp_ext within   *)
(* the descriptor when the UUID was read.                                  *)
(***************************************************************************)
GetDrvOf(m) ==
    IF m.ext = 0
    THEN <<FirstMatch(ByType(m.type)), NULL>>
    ELSE IF m.size < (CompSize + m.ext) % Word
    THEN <<0, NULL>>                                    \* invalid size
    ELSE IF m.ext < UuidSize
    THEN <<0, NULL>>                                    \* UUID is invalid
    ELSE <<FirstMatch(ByUuid(m.uuid)), (m.size - m.ext) % Word>>

Init ==
    /\ msg = NULL
    /\ drv = 0
    /\ ext_at = NULL

\* The host sends a new-component descriptor and comp_new() looks its driver up.
GetDrv(m) ==
    /\ msg' = m
    /\ drv' = GetDrvOf(m)[1]
    /\ ext_at' = GetDrvOf(m)[2]

Next == \E m \in Msgs : GetDrv(m)

Spec == Init /\ [][Next]_vars

-----------------------------------------------------------------------------
TypeOK ==
    /\ msg \in Msgs \cup {NULL}
    /\ drv \in 0..Len(Drivers)
    /\ ext_at \in 0..(Word - 1) \cup {NULL}

(***************************************************************************)
(* get_drv() reads the UUID only from inside the descriptor: the          *)
(* extension starts after the struct sof_ipc_comp header and a whole UUID *)
(* fits before the declared end of the message.                           *)
(***************************************************************************)
ExtensionInMessage ==
    ext_at # NULL => CompSize <= ext_at /\ ext_at + UuidSize <= msg.size
=============================================================================
