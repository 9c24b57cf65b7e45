---------------------------- MODULE VerifyParams ----------------------------
(***************************************************************************)
(* comp_verify_params() and comp_update_params() of                      *)
(* src/ipc/ipc3/helper.c: a component reconciles the PCM parameters it is *)
(* given with the parameters of its buffers, writes the result into the   *)
(* buffers and sets its period from a buffer's rate.                      *)
(*                                                                         *)
(* A buffer's parameters are a record over Fields (frame_fmt, buffer_fmt, *)
(* channels, rate); `flag` is the set of BUFF_PARAMS_* bits, a subset of  *)
(* Fields.  The component's buffer lists are sequences of buffer ids; a   *)
(* component may call the function any number of times (every hw_params  *)
(* of its pipeline) with any flag and parameters.                         *)
(***************************************************************************)
EXTENDS Naturals, Sequences, SequencesExt

CONSTANTS
    Bufs,       \* buffer ids
    Vals,       \* values a parameter field can take
    Layouts,    \* possible <<bsource_list, bsink_list>> of the component
    Args,       \* the stream params callers pass
    NULL

Fields == {"frame_fmt", "buffer_fmt", "channels", "rate"}
Params == [Fields -> Vals]

ASSUME Layouts \subseteq Seq(Bufs) \X Seq(Bufs)
ASSUME Args \subseteq Params

VARIABLES
    bsource,    \* dev->bsource_list
    bsink,      \* dev->bsink_list
    direction,  \* dev->direction
    stream,     \* stream[b]: the parameters of buffer b
    period_rate,\* the rate component_set_period_frames() was last given
    ret,        \* return value of the last call
    fault       \* a call read a buffer out of an empty list

vars == <<bsource, bsink, direction, stream, period_rate, ret, fault>>

\* comp_update_params(): copy the flagged fields of the buffer into params.
UpdateParams(fl, p, bp) == [f \in Fields |-> IF f \in fl THEN bp[f] ELSE p[f]]

(***************************************************************************)
(* The while loop over the downstream (playback) or upstream (capture)    *)
(* list: each buffer updates params, then buffer_set_params() with        *)
(* BUFFER_UPDATE_FORCE overwrites the buffer with params.  Returns the    *)
(* final params and buffers.                                               *)
(***************************************************************************)
\* mutant: the buffer is overwritten before its values are read into params
RECURSIVE LoopSetFirst(_, _, _, _)
LoopSetFirst(list, fl, p, st) ==
    IF list = <<>> THEN <<p, st>>
    ELSE LET b == Head(list)
             q == UpdateParams(fl, p, [st EXCEPT ![b] = p][b])
         IN LoopSetFirst(Tail(list), fl, q, [st EXCEPT ![b] = q])

RECURSIVE Loop(_, _, _, _)
Loop(list, fl, p, st) ==
    IF list = <<>> THEN <<p, st>>
    ELSE LET b == Head(list)
             q == UpdateParams(fl, p, st[b])
         IN Loop(Tail(list), fl, q, [st EXCEPT ![b] = q])

(***************************************************************************)
(* comp_verify_params(dev, fl, p) on the current buffers: the return      *)
(* value, the caller's params after the call (updated in place), the      *)
(* buffers, the rate the period is set from, and whether a buffer was     *)
(* taken out of an empty list.  Without params it returns -EINVAL.  An    *)
(* endpoint (exactly one list empty) uses the first buffer of its only    *)
(* list; otherwise every buffer of the list `direction` selects is        *)
(* updated and the period comes from the first buffer of bsink_list,      *)
(* which for an empty list is the list head itself.                       *)
(***************************************************************************)
CompVerify(fl, p) ==
    IF p = NULL
    THEN [ret |-> "EINVAL", params |-> NULL, stream |-> stream,
          rate |-> period_rate, fault |-> FALSE]
    ELSE IF (bsource = <<>>) # (bsink = <<>>)
    THEN LET b == IF bsource # <<>> THEN Head(bsource) ELSE Head(bsink)
             q == UpdateParams(fl, p, stream[b])
         IN [ret |-> 0, params |-> q, stream |-> [stream EXCEPT ![b] = q],
             rate |-> q["rate"], fault |-> FALSE]
    ELSE LET out == Loop(IF direction = "downstream" THEN bsink ELSE bsource,
                         fl, p, stream)
         IN [ret |-> 0, params |-> out[1], stream |-> out[2],
             rate |-> IF bsink = <<>> THEN period_rate
                      ELSE out[2][Head(bsink)]["rate"],
             fault |-> bsink = <<>>]

Init ==
    /\ \E l \in Layouts : bsource = l[1] /\ bsink = l[2]
    /\ direction \in {"upstream", "downstream"}
    /\ stream \in [Bufs -> Args]
    /\ period_rate = NULL
    /\ ret = 0
    /\ fault = FALSE

\* A call with flag fl and params p (NULL: no params).
CompVerifyParams(fl, p) ==
    LET r == CompVerify(fl, p) IN
    /\ stream' = r.stream
    /\ period_rate' = r.rate
    /\ ret' = r.ret
    /\ fault' = (fault \/ r.fault)
    /\ UNCHANGED <<bsource, bsink, direction>>

Next ==
    \E fl \in SUBSET Fields, p \in Args \cup {NULL} : CompVerifyParams(fl, p)

Spec == Init /\ [][Next]_vars

-----------------------------------------------------------------------------
TypeOK ==
    /\ stream \in [Bufs -> Params]
    /\ period_rate \in Vals \cup {NULL}
    /\ ret \in {0, "EINVAL"}
    /\ fault \in BOOLEAN

(***************************************************************************)
(* The reference: what the comments promise of a call.  Each buffer the   *)
(* call walks keeps its own flagged fields and takes the caller's value   *)
(* for the others; the caller's params end with the flagged fields of the *)
(* last buffer walked; buffers not walked are untouched.                  *)
(***************************************************************************)
Walked(src, snk, dir) ==
    IF (src = <<>>) # (snk = <<>>)
    THEN IF src # <<>> THEN <<Head(src)>> ELSE <<Head(snk)>>
    ELSE IF dir = "downstream" THEN snk ELSE src

RefStream(st, src, snk, dir, fl, p) ==
    [b \in Bufs |-> IF b \in ToSet(Walked(src, snk, dir))
                    THEN [f \in Fields |-> IF f \in fl THEN st[b][f] ELSE p[f]]
                    ELSE st[b]]

RefParams(st, src, snk, dir, fl, p) ==
    LET w == Walked(src, snk, dir) IN
    IF w = <<>> THEN p ELSE UpdateParams(fl, p, st[Last(w)])

(***************************************************************************)
(* From every state the buffers can be in, every call with any flag and  *)
(* params leaves the buffers and the caller's params as the reference     *)
(* says: the params carried from buffer to buffer through the loop never *)
(* leak one buffer's flagged value into another buffer, and the caller    *)
(* learns the values of the last buffer walked.                           *)
(***************************************************************************)
MatchesReference ==
    \A fl \in SUBSET Fields, p \in Args :
        LET r == CompVerify(fl, p) IN
        /\ r.stream = RefStream(stream, bsource, bsink, direction, fl, p)
        /\ r.params = RefParams(stream, bsource, bsink, direction, fl, p)

(***************************************************************************)
(* No call reads a buffer out of an empty list: a component with neither *)
(* source nor sink buffers takes list_first_item() of its empty           *)
(* bsink_list, i.e. the list head inside the comp_dev, as a buffer.       *)
(***************************************************************************)
NoEmptyListRead == ~fault
=============================================================================
