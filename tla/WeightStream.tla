---------------------------- MODULE WeightStream ----------------------------
(***************************************************************************)
(* The refit of a colocated engine: a policy worker streams its parameters *)
(* to the engine worker on the same GPU through two shared buffers         *)
(* (nemo_rl/models/policy/utils.py and                                     *)
(* nemo_rl/models/generation/vllm/vllm_backend.py), and                    *)
(* refit_policy_generation waits for both (nemo_rl/algorithms/grpo.py).    *)
(*                                                                         *)
(* The two processes exchange messages over a pair of REQ and REP sockets; *)
(* the bytes themselves stay in GPU memory.  Copies on the GPU are queued, *)
(* and done some time later, in any order until the next synchronization.  *)
(***************************************************************************)
EXTENDS Integers, FiniteSets

CONSTANTS
  NParams,      \* number of parameters
  Sizes,        \* how many bytes a parameter may have
  Alignment,    \* alignment of a parameter in a buffer
  BufferSize,   \* buffer_size_bytes
  MaxRefits     \* bound: number of refits

ASSUME StreamAssumption ==
  /\ NParams \in Nat
  /\ Sizes \subseteq Nat
  /\ Alignment \in Nat \ {0}
  /\ BufferSize \in Nat
  /\ MaxRefits \in Nat

Params == 1 .. NParams

\* calculate_aligned_size
AlignedSize(bytes) == ((bytes + Alignment - 1) \div Alignment) * Alignment

\* The part of the buffer size that one of the two buffers gets.
Half == BufferSize \div 2

Buffers == {0, 1}

\* Mutant: the same buffer again.
SameBuffer(b) == b

Other(b) == 1 - b

Offsets == 0 .. AlignedSize(Half) - 1

\* What a byte of a buffer is: of a parameter, in the version of a refit.
Byte == [ver : 0 .. MaxRefits, par : 0 .. NParams]
Unset == [ver |-> 0, par |-> 0]

\* A message of the sender: the handle of a buffer, with the parameters first to
\* last in it and the bytes they take; or that all parameters were sent.
Message(kind, buf, first, last, used) ==
  [kind |-> kind, buf |-> buf, first |-> first, last |-> last, used |-> used]
NoMessage == Message("none", 0, 1, 0, 0)
AllSent == Message("complete", 0, 1, 0, 0)
Messages ==
  [kind : {"none", "group", "complete"}, buf : Buffers, first : 1 .. NParams + 1,
   last : 0 .. NParams, used : 0 .. Half]

\* A copy between the bytes of a buffer from an offset on and a parameter.
Copies == [buf : Buffers, off : 0 .. Half, par : Params]

VARIABLES
  size,       \* size[p]: bytes of parameter p; it never changes
  refit,      \* number of the refit; also the version of the policy's weights
  outcome,    \* of the refit: "waiting", "ok" or "failed"
  spc,        \* where the sender is
  next,       \* the parameter the generator yields next
  first,      \* the parameters in param_names are first .. next - 1
  used,       \* used_bytes
  current,    \* current_buffer
  awaitRecv,  \* await_recv
  copying,    \* copies into the buffers that are queued
  buffer,     \* buffer[b][i]: byte i of buffer b
  request,    \* message on its way to the receiver
  reply,      \* an ACK is on its way to the sender
  rpc,        \* where the receiver is
  group,      \* the message that the receiver works on
  key,        \* the parameter of the group whose view is built next
  offset,     \* its offset
  views,      \* the views built for the group
  loading,    \* copies out of the buffer that are queued
  model,      \* model[p]: version of parameter p in the engine, -1 if mixed up
  place       \* history: where parameter p was packed

senderVars == <<spc, next, first, used, current, awaitRecv>>
receiverVars == <<rpc, group, key, offset, views>>
gpuVars == <<copying, buffer, loading, model>>
vars == <<size, refit, outcome, senderVars, gpuVars, request, reply, receiverVars, place>>

TypeOK ==
  /\ size \in [Params -> Sizes]
  /\ refit \in 0 .. MaxRefits
  /\ outcome \in {"waiting", "ok", "failed"}
  /\ spc \in {"pack", "send", "finish", "complete", "ok", "failed"}
  /\ next \in 1 .. NParams + 1
  /\ first \in 1 .. NParams + 1
  /\ used \in 0 .. Half
  /\ current \in Buffers
  /\ awaitRecv \in BOOLEAN
  /\ copying \subseteq Copies
  /\ buffer \in [Buffers -> [Offsets -> Byte]]
  /\ request \in Messages
  /\ reply \in BOOLEAN
  /\ rpc \in {"recv", "view", "sync", "scales", "ok", "failed"}
  /\ group \in Messages
  /\ key \in 1 .. NParams + 1
  /\ offset \in 0 .. Half
  /\ views \subseteq Copies
  /\ loading \subseteq Copies
  /\ model \in [Params -> -1 .. MaxRefits]
  /\ place \in [Params -> 0 .. Half]

Init ==
  /\ size \in [Params -> Sizes]
  /\ refit = 0
  /\ outcome = "ok"
  /\ spc = "ok"
  /\ next = 1
  /\ first = 1
  /\ used = 0
  /\ current = 0
  /\ awaitRecv = FALSE
  /\ copying = {}
  /\ buffer = [b \in Buffers |-> [i \in Offsets |-> Unset]]
  /\ request = NoMessage
  /\ reply = FALSE
  /\ rpc = "ok"
  /\ group = NoMessage
  /\ key = 1
  /\ offset = 0
  /\ views = {}
  /\ loading = {}
  /\ model = [p \in Params |-> 0]
  /\ place = [p \in Params |-> 0]

-----------------------------------------------------------------------------
(* refit_policy_generation *)

\* Both workers are called; the buffers are allocated anew and hold anything.
StartRefit ==
  /\ outcome = "ok"
  /\ refit < MaxRefits
  /\ refit' = refit + 1
  /\ outcome' = "waiting"
  /\ spc' = "pack"
  /\ next' = 1
  /\ first' = 1
  /\ used' = 0
  /\ current' = 0
  /\ awaitRecv' = FALSE
  /\ rpc' = "recv"
  /\ UNCHANGED <<size, gpuVars, request, reply, group, key, offset, views, place>>

\* Mutant: the engine's result is not looked at.
RefitEndsWithSender(sent, received) == IF sent = "ok" THEN "ok" ELSE "failed"

\* update_success; an exception of the sender is raised by ray.get.
RefitOutcome(sent, received) == IF sent = "ok" /\ received = "ok" THEN "ok" ELSE "failed"

EndRefit ==
  /\ outcome = "waiting"
  /\ spc = "failed" \/ (spc = "ok" /\ rpc \in {"ok", "failed"})
  /\ outcome' = RefitOutcome(spc, rpc)
  /\ UNCHANGED <<size, refit, senderVars, gpuVars, request, reply, receiverVars, place>>

-----------------------------------------------------------------------------
(* stream_weights_via_ipc_zmq_impl *)

\* The next parameter fits into what is left of the current buffer.
Fits(p) == used + AlignedSize(size[p]) <= Half

Pack ==
  /\ spc = "pack"
  /\ next \in Params
  /\ AlignedSize(size[next]) <= Half
  /\ Fits(next)
  /\ copying' = copying \cup {[buf |-> current, off |-> used, par |-> next]}
  /\ place' = [place EXCEPT ![next] = used]
  /\ used' = used + AlignedSize(size[next])
  /\ next' = next + 1
  /\ UNCHANGED <<size, refit, outcome, spc, first, current, awaitRecv, buffer, loading,
                 model, request, reply, receiverVars>>

\* The current buffer is to be sent: it is full or, of the last group, not empty.
CloseGroup ==
  /\ spc = "pack"
  /\ \/ /\ next \in Params
        /\ AlignedSize(size[next]) <= Half
        /\ ~Fits(next)
        /\ spc' = "send"
     \/ /\ next \notin Params
        /\ spc' = IF first < next THEN "send" ELSE "finish"
  /\ UNCHANGED <<size, refit, outcome, next, first, used, current, awaitRecv, gpuVars,
                 request, reply, receiverVars, place>>

\* A parameter is too large for the buffer, or the generator raises.
SenderFails ==
  /\ spc = "pack"
  /\ spc' = "failed"
  /\ UNCHANGED <<size, refit, outcome, next, first, used, current, awaitRecv, gpuVars,
                 request, reply, receiverVars, place>>

\* Mutant: the copies into the buffer are not waited for.
NotSynchronized == TRUE

\* synchronize(): the copies into the buffer are done.
Synchronized == copying = {}

\* Mutant: the answer to the group before is not waited for.
NotAnswered == TRUE

\* The answer to the group before, if there is one, can be received.
Answered == awaitRecv => reply

\* send_buffer_group_overlap: wait for the copies into the buffer, then for the
\* answer to the group before, and send.  The other buffer is filled next.
SendGroup ==
  /\ spc = "send"
  /\ Synchronized
  /\ Answered
  /\ reply' = FALSE
  /\ request' = Message("group", current, first, next - 1, used)
  /\ awaitRecv' = TRUE
  /\ spc' = IF next \in Params THEN "pack" ELSE "finish"
  /\ current' = Other(current)
  /\ used' = 0
  /\ first' = next
  /\ UNCHANGED <<size, refit, outcome, next, gpuVars, receiverVars, place>>

SendComplete ==
  /\ spc = "finish"
  /\ Answered
  /\ Synchronized
  /\ reply' = FALSE
  /\ request' = AllSent
  /\ spc' = "complete"
  /\ UNCHANGED <<size, refit, outcome, next, first, used, current, awaitRecv, gpuVars,
                 receiverVars, place>>

SenderDone ==
  /\ spc = "complete"
  /\ reply
  /\ reply' = FALSE
  /\ spc' = "ok"
  /\ UNCHANGED <<size, refit, outcome, next, first, used, current, awaitRecv, gpuVars,
                 request, receiverVars, place>>

\* Mutant: the sockets have no timeout.
SenderWaits == FALSE /\ UNCHANGED vars

\* RCVTIMEO and SNDTIMEO: no answer came in time, whether or not one is still to
\* come, or there is nobody to send to: not yet, or because the engine has failed.
SenderTimeout ==
  /\ \/ spc \in {"send", "finish"} /\ Synchronized /\ (reply => rpc = "failed")
     \/ spc = "complete" /\ ~reply
  /\ spc' = "failed"
  /\ UNCHANGED <<size, refit, outcome, next, first, used, current, awaitRecv, gpuVars,
                 request, reply, receiverVars, place>>

-----------------------------------------------------------------------------
(* update_weights_via_ipc_zmq *)

Receive ==
  /\ rpc = "recv"
  /\ request.kind = "group"
  /\ rpc' = "view"
  /\ group' = request
  /\ request' = NoMessage
  /\ key' = request.first
  /\ offset' = 0
  /\ views' = {}
  /\ UNCHANGED <<size, refit, outcome, senderVars, gpuVars, reply, place>>

\* Mutant: parameters lie next to each other.
NextOffsetUnaligned(off, p) == off + size[p]

NextOffset(off, p) == off + AlignedSize(size[p])

\* One turn of the loop over list_keys.
View ==
  /\ rpc = "view"
  /\ key <= group.last
  /\ views' = views \cup {[buf |-> group.buf, off |-> offset, par |-> key]}
  /\ offset' = NextOffset(offset, key)
  /\ key' = key + 1
  /\ UNCHANGED <<size, refit, outcome, senderVars, gpuVars, request, reply, rpc, group, place>>

\* The assertion on the offset, and load_weights, which queues the copies.
LoadWeights ==
  /\ rpc = "view"
  /\ key > group.last
  /\ offset = group.used
  /\ rpc' = "sync"
  /\ loading' = views
  /\ UNCHANGED <<size, refit, outcome, senderVars, copying, buffer, model, request, reply,
                 group, key, offset, views, place>>

Acknowledge ==
  /\ rpc = "sync"
  /\ loading = {}
  /\ rpc' = "recv"
  /\ views' = {}
  /\ reply' = TRUE
  /\ UNCHANGED <<size, refit, outcome, senderVars, gpuVars, request, group, key, offset, place>>

\* COMPLETE is answered before the scales of the FP8 KV cache are processed.
ReceiveComplete ==
  /\ rpc = "recv"
  /\ request.kind = "complete"
  /\ request' = NoMessage
  /\ rpc' = "scales"
  /\ reply' = TRUE
  /\ UNCHANGED <<size, refit, outcome, senderVars, gpuVars, group, key, offset, views, place>>

ReceiverDone ==
  /\ rpc = "scales"
  /\ rpc' = "ok"
  /\ UNCHANGED <<size, refit, outcome, senderVars, gpuVars, request, reply, group, key, offset,
                 views, place>>

\* Any exception, a message that does not come in time among them: the receiver
\* returns False and does not answer what it took up.
ReceiverFails ==
  /\ rpc \in {"recv", "view", "sync", "scales"}
  /\ rpc = "recv" => request.kind # "group"
  /\ rpc' = "failed"
  /\ request' = IF rpc = "recv" THEN NoMessage ELSE request
  /\ UNCHANGED <<size, refit, outcome, senderVars, gpuVars, reply, group, key, offset, views,
                 place>>

-----------------------------------------------------------------------------
(* The GPU *)

\* The bytes of a parameter from an offset of a buffer on.
Region(off, p) == off .. off + size[p] - 1

\* A queued copy of a parameter into a buffer is done.
CopyIn(c) ==
  /\ c \in copying
  /\ copying' = copying \ {c}
  /\ buffer' = [buffer EXCEPT ![c.buf] =
                  [i \in Offsets |-> IF i \in Region(c.off, c.par)
                                     THEN [ver |-> refit, par |-> c.par] ELSE @[i]]]
  /\ UNCHANGED <<size, refit, outcome, senderVars, loading, model, request, reply, receiverVars,
                 place>>

\* A queued copy out of a buffer is done: the parameter is that of the refit only
\* if all its bytes are.
CopyOut(c) ==
  /\ c \in loading
  /\ loading' = loading \ {c}
  /\ model' = [model EXCEPT ![c.par] =
                 IF \A i \in Region(c.off, c.par) : buffer[c.buf][i] = [ver |-> refit, par |-> c.par]
                 THEN refit ELSE -1]
  /\ UNCHANGED <<size, refit, outcome, senderVars, copying, buffer, request, reply, receiverVars,
                 place>>

-----------------------------------------------------------------------------
Sender == Pack \/ CloseGroup \/ SendGroup \/ SendComplete \/ SenderDone \/ SenderTimeout
Receiver == Receive \/ View \/ LoadWeights \/ Acknowledge \/ ReceiveComplete \/ ReceiverDone
GPU == (\E c \in copying : CopyIn(c)) \/ (\E c \in loading : CopyOut(c))

\* The sender gives up on a parameter that is too large; otherwise its failures,
\* like the receiver's, need not happen.
TooLarge == next \in Params /\ AlignedSize(size[next]) > Half

Next ==
  \/ StartRefit
  \/ EndRefit
  \/ Pack
  \/ CloseGroup
  \/ SenderFails
  \/ SendGroup
  \/ SendComplete
  \/ SenderDone
  \/ SenderTimeout
  \/ Receive
  \/ View
  \/ LoadWeights
  \/ Acknowledge
  \/ ReceiveComplete
  \/ ReceiverDone
  \/ ReceiverFails
  \/ \E c \in copying : CopyIn(c)
  \/ \E c \in loading : CopyOut(c)

Fairness ==
  /\ WF_vars(Sender \/ (TooLarge /\ SenderFails))
  /\ WF_vars(Receiver)
  /\ WF_vars(GPU)
  /\ WF_vars(EndRefit)

Spec == Init /\ [][Next]_vars /\ Fairness

-----------------------------------------------------------------------------
(* Properties *)

\* The buffers that the engine was given and has not given back.
HeldByEngine ==
  (IF request.kind = "group" THEN {request.buf} ELSE {})
    \cup (IF rpc \in {"view", "sync"} \/ loading # {} THEN {group.buf} ELSE {})

\* While the engine reads a buffer, or is about to, nothing is copied into it,
\* although the sender fills its buffers ahead, and whoever times out or fails.
BuffersExclusive == \A c \in copying : c.buf \notin HeldByEngine

\* Every parameter that the engine loads has all its bytes, of this refit: the two
\* sides agree on every offset, and copies on the two streams keep their order.
LoadsWhatWasPacked == \A p \in Params : model[p] # -1

\* The assertion of the receiver never fails.
OffsetsAgree == rpc = "view" /\ key > group.last => offset = group.used

\* A REQ socket refuses to send before the last message was answered: whenever the
\* sender sends, the receiver took up its last message and is done with it.
RequestsInTurn ==
  spc \in {"send", "finish"} /\ Answered =>
    request.kind = "none" /\ rpc \in {"recv", "failed"}

\* A refit is reported as done only if every parameter has its new version, and the
\* engine worker is done with what comes after.
DoneMeansLoaded ==
  outcome = "ok" => rpc = "ok" /\ \A p \in Params : model[p] = refit

\* A refit comes to an end, well or not, whatever fails: a side that waits for one
\* that is gone gives up.
RefitEnds == outcome = "waiting" ~> outcome # "waiting"
=============================================================================
