------------------------- MODULE WeightStreamProofs -------------------------
(***************************************************************************)
(* Theorems about WeightStream, for every number and size of parameters,   *)
(* alignment, buffer size and number of refits.                            *)
(***************************************************************************)
EXTENDS WeightStream, TLAPS

-----------------------------------------------------------------------------
(* The inductive invariant *)

\* The parameters lo to hi lie one after the other, aligned, and end at u.
Laid(lo, hi, u) ==
  /\ lo <= hi => place[lo] = 0
  /\ lo > hi => u = 0
  /\ \A p \in lo .. hi :
       /\ place[p] + AlignedSize(size[p]) = (IF p = hi THEN u ELSE place[p + 1])
       /\ place[p] + AlignedSize(size[p]) <= u
       /\ \A q \in lo .. hi : p < q => place[p] + AlignedSize(size[p]) <= place[q]

\* All bytes of a parameter are in a buffer.
Filled(b, p) == \A i \in Region(place[p], p) : buffer[b][i] = [ver |-> refit, par |-> p]

\* The copy of a parameter between its place in a buffer and the model.
CopyOf(b, p) == [buf |-> b, off |-> place[p], par |-> p]

\* The sender's own group: it is laid out, copied or to be copied.
Packing ==
  /\ first <= next
  /\ Laid(first, next - 1, used)
  /\ \A c \in copying : c.par \in first .. next - 1 /\ c = CopyOf(current, c.par)
  /\ \A p \in first .. next - 1 : Filled(current, p) \/ CopyOf(current, p) \in copying

\* A group that was sent lies whole in the buffer that the sender does not use.
Sent(m) ==
  /\ m.buf = Other(current)
  /\ m.first <= m.last
  /\ m.last = first - 1
  /\ Laid(m.first, m.last, m.used)
  /\ \A p \in m.first .. m.last : Filled(m.buf, p)

\* The engine works on a group, or a copy out of it is still queued.
InHand == rpc \in {"view", "sync"} \/ loading # {}

SentGroups ==
  /\ request.kind = "group" => Sent(request)
  /\ InHand => Sent(group)

\* One message at a time: a request, a group in hand, or an answer.
Turns ==
  /\ reply => request.kind = "none" /\ ~InHand
  /\ InHand => request.kind = "none" /\ rpc \in {"view", "sync", "failed"}
  /\ rpc = "view" => loading = {}
  /\ spc \in {"pack", "send", "finish"} =>
       /\ rpc \in {"recv", "view", "sync", "failed"}
       /\ request.kind # "complete"
       /\ ~awaitRecv => request.kind = "none" /\ ~reply /\ ~InHand
  /\ request.kind = "complete" => spc \in {"complete", "failed"} /\ first = NParams + 1
  /\ request.kind # "none" => rpc \in {"recv", "failed"}

\* Where the sender is, and what that says of the receiver.
Stages ==
  /\ spc = "send" => first < next
  /\ spc \in {"finish", "complete", "ok"} => first = next
  /\ spc \in {"finish", "complete"} => next = NParams + 1
  /\ spc = "complete" => /\ rpc \in {"recv", "scales", "ok", "failed"}
                         /\ rpc = "recv" => request.kind = "complete"
                         /\ ~InHand
  /\ spc = "ok" => /\ rpc \in {"scales", "ok", "failed"}
                   /\ request.kind = "none" /\ ~reply /\ ~InHand
  /\ outcome = "ok" => spc = "ok" /\ rpc = "ok"

\* What the receiver builds and loads lies where the sender put it.
Viewing ==
  /\ \A c \in loading : c.par \in group.first .. group.last /\ c = CopyOf(group.buf, c.par)
  /\ rpc = "view" =>
       /\ key \in group.first .. group.last + 1
       /\ offset = (IF key <= group.last THEN place[key] ELSE group.used)
       /\ \A c \in views : c.par \in group.first .. key - 1 /\ c = CopyOf(group.buf, c.par)
       /\ \A p \in group.first .. key - 1 : CopyOf(group.buf, p) \in views
  /\ rpc = "sync" =>
       \A p \in group.first .. group.last : model[p] = refit \/ CopyOf(group.buf, p) \in loading

\* The parameters that are in the engine for certain.
Loaded ==
  /\ rpc = "recv" => \A p \in Params :
       p < (IF request.kind = "group" THEN request.first ELSE first) => model[p] = refit
  /\ rpc \in {"view", "sync"} => \A p \in Params : p < group.first => model[p] = refit
  /\ rpc \in {"scales", "ok"} => \A p \in Params : model[p] = refit

IInv ==
  /\ TypeOK
  /\ Packing
  /\ SentGroups
  /\ Turns
  /\ Stages
  /\ Viewing
  /\ Loaded
  /\ LoadsWhatWasPacked

-----------------------------------------------------------------------------
(* Facts about sizes, places and copies *)

LEMMA DivisionBounds ==
  ASSUME NEW n \in Nat, NEW a \in Nat, a > 0
  PROVE  n \div a \in Nat /\ n < (n \div a) * a + a
  BY SMTT(60)

LEMMA AlignedBounds ==
  ASSUME NEW n \in Nat
  PROVE  AlignedSize(n) \in Nat /\ AlignedSize(n) >= n
<1> DEFINE m == n + Alignment - 1
<1> DEFINE q == m \div Alignment
<1>1. Alignment \in Nat /\ Alignment > 0 /\ m \in Nat
  BY StreamAssumption
<1>2. q \in Nat /\ m < q * Alignment + Alignment
  BY <1>1, DivisionBounds
<1> HIDE DEF q
<1>3. q * Alignment \in Nat
  BY <1>1, <1>2, SMTT(30)
<1>4. AlignedSize(n) = q * Alignment
  BY DEF AlignedSize, q
<1> QED BY <1>1, <1>2, <1>3, <1>4

LEMMA SizeBounds ==
  ASSUME TypeOK, NEW p \in Params
  PROVE  size[p] \in Nat /\ AlignedSize(size[p]) \in Nat /\ AlignedSize(size[p]) >= size[p]
<1>1. size[p] \in Nat
  BY StreamAssumption DEF TypeOK
<1> QED BY <1>1, AlignedBounds

LEMMA HalfBounds == Half \in Nat /\ 0 .. Half - 1 \subseteq Offsets
<1>1. Half \in Nat
  BY StreamAssumption, DivisionBounds DEF Half
<1> QED BY <1>1, AlignedBounds DEF Offsets

-----------------------------------------------------------------------------
(* Types *)

LEMMA TypeInit == Init => TypeOK
<1> SUFFICES ASSUME Init PROVE TypeOK
  OBVIOUS
<1>1. Half \in Nat /\ NParams \in Nat /\ MaxRefits \in Nat
  BY HalfBounds, StreamAssumption
<1>2. NoMessage \in Messages
  BY <1>1 DEF NoMessage, Message, Messages, Buffers
<1>3. Unset \in Byte
  BY <1>1 DEF Unset, Byte
<1>4. buffer \in [Buffers -> [Offsets -> Byte]]
  BY <1>3 DEF Init
<1>5. 0 \in 0 .. Half /\ 1 \in 1 .. NParams + 1 /\ 0 \in 0 .. MaxRefits /\ 0 \in -1 .. MaxRefits
  BY <1>1
<1>6. place \in [Params -> 0 .. Half] /\ model \in [Params -> -1 .. MaxRefits]
  BY <1>5 DEF Init
<1> QED BY <1>2, <1>4, <1>5, <1>6 DEF Init, TypeOK, Buffers

LEMMA SenderTypes ==
  ASSUME TypeOK, StartRefit \/ EndRefit \/ Pack \/ CloseGroup \/ SenderFails \/ SendComplete
                   \/ SenderDone \/ SenderTimeout
  PROVE  TypeOK'
<1> USE HalfBounds, StreamAssumption
<1>1. CASE StartRefit
  <2>1. 0 \in 0 .. Half /\ 1 \in 1 .. NParams + 1 /\ 0 \in Buffers
    BY DEF Buffers
  <2>2. refit + 1 \in 0 .. MaxRefits
    BY <1>1 DEF StartRefit, TypeOK
  <2> QED BY <1>1, <2>1, <2>2 DEF StartRefit, TypeOK, gpuVars
<1>2. CASE EndRefit
  BY <1>2 DEF EndRefit, RefitOutcome, TypeOK, gpuVars, senderVars, receiverVars
<1>3. CASE Pack
  <2>1. used + AlignedSize(size[next]) \in 0 .. Half
    BY <1>3, SizeBounds DEF Pack, Fits, TypeOK
  <2>2. [buf |-> current, off |-> used, par |-> next] \in Copies
    BY <1>3 DEF Pack, TypeOK, Copies
  <2>3. next + 1 \in 1 .. NParams + 1
    BY <1>3 DEF Pack, Params
  <2> QED BY <1>3, <2>1, <2>2, <2>3 DEF Pack, TypeOK, receiverVars
<1>4. CASE CloseGroup
  BY <1>4 DEF CloseGroup, TypeOK, gpuVars, receiverVars
<1>5. CASE SenderFails
  BY <1>5 DEF SenderFails, TypeOK, gpuVars, receiverVars
<1>6. CASE SendComplete
  <2>1. AllSent \in Messages
    BY DEF AllSent, Message, Messages, Buffers
  <2> QED BY <1>6, <2>1 DEF SendComplete, TypeOK, gpuVars, receiverVars
<1>7. CASE SenderDone
  BY <1>7 DEF SenderDone, TypeOK, gpuVars, receiverVars
<1>8. CASE SenderTimeout
  BY <1>8 DEF SenderTimeout, TypeOK, gpuVars, receiverVars
<1> QED BY <1>1, <1>2, <1>3, <1>4, <1>5, <1>6, <1>7, <1>8

LEMMA SendGroupTypes == ASSUME TypeOK, Packing, Stages, SendGroup PROVE TypeOK'
<1> USE HalfBounds, StreamAssumption
<1>1. next - 1 \in 0 .. NParams
  BY DEF TypeOK
<1>2. Message("group", current, first, next - 1, used) \in Messages
  BY <1>1 DEF TypeOK, Message, Messages
<1>3. Other(current) \in Buffers
  BY DEF TypeOK, Other, Buffers
<1>4. 0 \in 0 .. Half
  OBVIOUS
<1> QED BY <1>2, <1>3, <1>4 DEF SendGroup, TypeOK, gpuVars, receiverVars

LEMMA ReceiverTypes ==
  ASSUME TypeOK, Receive \/ LoadWeights \/ Acknowledge \/ ReceiveComplete \/ ReceiverDone
                   \/ ReceiverFails
  PROVE  TypeOK'
<1> USE HalfBounds, StreamAssumption
<1>1. NoMessage \in Messages
  BY DEF NoMessage, Message, Messages, Buffers
<1>2. CASE Receive
  <2>1. request.first \in 1 .. NParams + 1
    BY DEF TypeOK, Messages
  <2> QED BY <1>1, <1>2, <2>1 DEF Receive, TypeOK, gpuVars, senderVars
<1>3. CASE LoadWeights
  BY <1>3 DEF LoadWeights, TypeOK, senderVars
<1>4. CASE Acknowledge
  BY <1>4 DEF Acknowledge, TypeOK, senderVars, gpuVars
<1>5. CASE ReceiveComplete
  BY <1>1, <1>5 DEF ReceiveComplete, TypeOK, senderVars, gpuVars
<1>6. CASE ReceiverDone
  BY <1>6 DEF ReceiverDone, TypeOK, senderVars, gpuVars
<1>7. CASE ReceiverFails
  BY <1>1, <1>7 DEF ReceiverFails, TypeOK, senderVars, gpuVars
<1> QED BY <1>2, <1>3, <1>4, <1>5, <1>6, <1>7

LEMMA ViewTypes == ASSUME TypeOK, SentGroups, Viewing, View PROVE TypeOK'
<1> USE HalfBounds, StreamAssumption
<1>1. /\ group.first \in 1 .. NParams + 1 /\ group.last \in 0 .. NParams
      /\ group.used \in 0 .. Half /\ group.buf \in Buffers
  BY DEF TypeOK, Messages
<1>2. key \in Params /\ key \in group.first .. group.last /\ offset = place[key]
  BY <1>1 DEF View, Viewing, Params, TypeOK
<1>3. Laid(group.first, group.last, group.used)
  BY DEF View, SentGroups, Sent, InHand
<1>4. NextOffset(offset, key) = IF key = group.last THEN group.used ELSE place[key + 1]
  BY <1>2, <1>3 DEF Laid, NextOffset
<1>5. key # group.last => key + 1 \in Params
  BY <1>1, <1>2 DEF Params
<1>6. NextOffset(offset, key) \in 0 .. Half
  BY <1>1, <1>4, <1>5 DEF TypeOK
<1>7. [buf |-> group.buf, off |-> offset, par |-> key] \in Copies
  BY <1>1, <1>2 DEF Copies, TypeOK
<1>8. key + 1 \in 1 .. NParams + 1
  BY <1>2 DEF Params
<1> QED BY <1>6, <1>7, <1>8 DEF View, TypeOK, senderVars, gpuVars

LEMMA GPUTypes ==
  ASSUME TypeOK, (\E c \in copying : CopyIn(c)) \/ (\E c \in loading : CopyOut(c))
  PROVE  TypeOK'
<1> USE HalfBounds, StreamAssumption
<1>1. ASSUME NEW c \in copying, CopyIn(c) PROVE TypeOK'
  <2>1. c.par \in Params /\ c.buf \in Buffers
    BY DEF TypeOK, Copies
  <2>2. [ver |-> refit, par |-> c.par] \in Byte
    BY <2>1 DEF Byte, TypeOK, Params
  <2>3. buffer \in [Buffers -> [Offsets -> Byte]] /\ buffer[c.buf] \in [Offsets -> Byte]
    BY <2>1 DEF TypeOK
  <2>4. [i \in Offsets |-> IF i \in Region(c.off, c.par) THEN [ver |-> refit, par |-> c.par]
                           ELSE buffer[c.buf][i]] \in [Offsets -> Byte]
    BY <2>2, <2>3
  <2>5. buffer' \in [Buffers -> [Offsets -> Byte]]
    BY <1>1, <2>3, <2>4 DEF CopyIn
  <2> QED BY <1>1, <2>5 DEF CopyIn, TypeOK, senderVars, receiverVars
<1>2. ASSUME NEW c \in loading, CopyOut(c) PROVE TypeOK'
  <2>1. refit \in -1 .. MaxRefits /\ -1 \in -1 .. MaxRefits
    BY DEF TypeOK
  <2> QED BY <1>2, <2>1 DEF CopyOut, TypeOK, senderVars, receiverVars
<1> QED BY <1>1, <1>2

-----------------------------------------------------------------------------
(* The protocol: Turns and Stages, by the places of the two sides *)

LEMMA ProtocolInit == Init => Turns /\ Stages
  BY DEF Init, Turns, Stages, InHand, NoMessage, Message

LEMMA SenderProtocol ==
  ASSUME TypeOK, Packing, Turns, Stages,
         StartRefit \/ EndRefit \/ Pack \/ CloseGroup \/ SenderFails \/ SendGroup
           \/ SendComplete \/ SenderDone \/ SenderTimeout
  PROVE  Turns' /\ Stages'
<1> USE DEF Turns, Stages, InHand, gpuVars, receiverVars
<1>1. first <= next /\ first \in Nat /\ next \in Nat /\ NParams \in Nat
  BY StreamAssumption DEF TypeOK, Packing
<1>2. CASE StartRefit
  BY <1>2 DEF StartRefit
<1>3. CASE EndRefit
  BY <1>3 DEF EndRefit, RefitOutcome, senderVars
<1>4. CASE Pack
  BY <1>4 DEF Pack
<1>5. CASE CloseGroup
  <2>1. next \notin Params => next = NParams + 1
    BY <1>1 DEF TypeOK, Params
  <2>2. first = next => used = 0
    BY <1>1 DEF Packing, Laid
  <2>3. next \in Params /\ AlignedSize(size[next]) <= Half /\ ~Fits(next) => first < next
    BY <1>1, <2>2, SizeBounds DEF Fits
  <2> QED BY <1>1, <1>5, <2>1, <2>3 DEF CloseGroup
<1>6. CASE SenderFails
  BY <1>6 DEF SenderFails
<1>7. CASE SendGroup
  <2>1. next \notin Params => next = NParams + 1
    BY <1>1 DEF TypeOK, Params
  <2>2. request.kind = "none" /\ ~InHand /\ rpc \in {"recv", "failed"}
    BY <1>7 DEF SendGroup, Answered
  <2>3. request'.kind = "group"
    BY <1>7 DEF SendGroup, Message
  <2> QED BY <1>7, <2>1, <2>2, <2>3 DEF SendGroup
<1>8. CASE SendComplete
  <2>1. request.kind = "none" /\ ~InHand /\ rpc \in {"recv", "failed"}
    BY <1>8 DEF SendComplete, Answered
  <2>2. request'.kind = "complete"
    BY <1>8 DEF SendComplete, AllSent, Message
  <2> QED BY <1>8, <2>1, <2>2 DEF SendComplete
<1>9. CASE SenderDone
  BY <1>9 DEF SenderDone
<1>10. CASE SenderTimeout
  BY <1>10 DEF SenderTimeout
<1> QED BY <1>2, <1>3, <1>4, <1>5, <1>6, <1>7, <1>8, <1>9, <1>10

LEMMA ReceiverProtocol ==
  ASSUME Turns, Stages,
         Receive \/ View \/ LoadWeights \/ Acknowledge \/ ReceiveComplete \/ ReceiverDone
           \/ ReceiverFails
  PROVE  Turns' /\ Stages'
<1> USE DEF Turns, Stages, InHand, gpuVars, senderVars
<1>1. NoMessage.kind = "none"
  BY DEF NoMessage, Message
<1>2. CASE Receive
  BY <1>1, <1>2 DEF Receive
<1>3. CASE View
  BY <1>3 DEF View
<1>4. CASE LoadWeights
  BY <1>4 DEF LoadWeights
<1>5. CASE Acknowledge
  BY <1>5 DEF Acknowledge
<1>6. CASE ReceiveComplete
  BY <1>1, <1>6 DEF ReceiveComplete
<1>7. CASE ReceiverDone
  BY <1>7 DEF ReceiverDone
<1>8. CASE ReceiverFails
  BY <1>1, <1>8 DEF ReceiverFails
<1> QED BY <1>2, <1>3, <1>4, <1>5, <1>6, <1>7, <1>8

LEMMA GPUProtocol ==
  ASSUME Turns, Stages,
         (\E c \in copying : CopyIn(c)) \/ (\E c \in loading : CopyOut(c))
  PROVE  Turns' /\ Stages'
<1>1. /\ UNCHANGED <<outcome, spc, next, first, awaitRecv, request, reply, rpc>>
      /\ loading' \subseteq loading
  BY DEF CopyIn, CopyOut, senderVars, receiverVars
<1> QED BY <1>1 DEF Turns, Stages, InHand

-----------------------------------------------------------------------------
(* The sender's group *)

LEMMA PackingInit == TypeOK /\ Init => Packing
  BY DEF Init, Packing, Laid, Filled, CopyOf

LEMMA PackingKept ==
  ASSUME Packing, UNCHANGED <<size, refit, next, first, used, current, copying, buffer, place>>
  PROVE  Packing'
  BY DEF Packing, Laid, Filled, CopyOf, Region

LEMMA NothingToCopy == ASSUME TypeOK, Packing, first = next PROVE copying = {}
  BY DEF TypeOK, Packing

LEMMA EmptyInterval == ASSUME NEW n \in Nat PROVE n .. n - 1 = {} /\ n <= n /\ ~(n <= n - 1)
  OBVIOUS

LEMMA EmptyGroup ==
  ASSUME next' \in Nat, first' = next', used' = 0, copying' = {}
  PROVE  Packing'
<1>1. first' .. next' - 1 = {} /\ first' <= next' /\ ~(first' <= next' - 1)
  BY EmptyInterval
<1> QED BY <1>1 DEF Packing, Laid

LEMMA PackKeepsPacking ==
  ASSUME TypeOK, Packing, Pack
  PROVE  Packing'
<1> USE DEF Pack
<1>0. first \in 1 .. NParams + 1 /\ first <= next /\ next \in 1 .. NParams /\ NParams \in Nat
  BY StreamAssumption DEF TypeOK, Packing, Params
<1>1. /\ first \in Nat \ {0} /\ next \in Params /\ used \in Nat /\ next \in Nat
      /\ first \in 1 .. next /\ next \notin first .. next - 1
      /\ place \in [Params -> Nat] /\ first .. next - 1 \subseteq Params
  <2>1. used \in Nat /\ place \in [Params -> Nat]
    BY HalfBounds DEF TypeOK
  <2>2. first .. next - 1 \subseteq Params
    BY <1>0 DEF Params
  <2> QED BY <1>0, <2>1, <2>2
<1>2. /\ place'[next] = used
      /\ \A p \in first .. next - 1 : place'[p] = place[p]
  BY <1>1
<1>3. AlignedSize(size[next]) \in Nat
  BY <1>1, SizeBounds
<1>4. \A p \in first .. next - 1 : AlignedSize(size[p]) \in Nat /\ place[p] \in Nat
  BY <1>1, SizeBounds
<1>5. /\ first' = first /\ next' = next + 1 /\ size' = size /\ current' = current
      /\ used' = used + AlignedSize(size[next]) /\ refit' = refit /\ buffer' = buffer
      /\ copying' = copying \cup {[buf |-> current, off |-> used, par |-> next]}
  OBVIOUS
<1>6. first' .. next' - 1 = (first .. next - 1) \cup {next}
  BY <1>1, <1>5
<1>7. Laid(first, next - 1, used)
  BY DEF Packing
<1>8. place'[first] = 0
  BY <1>1, <1>2, <1>7 DEF Laid
<1>9. \A p \in first' .. next' - 1 :
         place'[p] + AlignedSize(size[p]) = (IF p = next' - 1 THEN used' ELSE place'[p + 1])
  <2>1. CASE first = next
    BY <1>1, <1>2, <1>5, <1>6, <2>1
  <2>2. ASSUME NEW p \in first .. next - 1
        PROVE  place[p] + AlignedSize(size[p]) = place'[p + 1] /\ p # next
    BY <1>1, <1>2, <1>7, <2>2 DEF Laid
  <2> QED BY <1>1, <1>2, <1>5, <1>6, <2>1, <2>2
<1>10. \A p \in first' .. next' - 1 : place'[p] + AlignedSize(size[p]) <= used'
  BY <1>1, <1>2, <1>3, <1>4, <1>5, <1>6, <1>7 DEF Laid
<1>11. \A p, q \in first' .. next' - 1 : p < q => place'[p] + AlignedSize(size[p]) <= place'[q]
  BY <1>1, <1>2, <1>4, <1>5, <1>6, <1>7 DEF Laid
<1>12. Laid(first, next - 1, used)'
  BY <1>1, <1>5, <1>8, <1>9, <1>10, <1>11 DEF Laid
<1>13. \A p \in first .. next - 1 :
         /\ (Filled(current, p))' = Filled(current, p)
         /\ (CopyOf(current, p))' = CopyOf(current, p)
  BY <1>2, <1>5 DEF Filled, CopyOf, Region
<1>14. ASSUME NEW p \in Params, p = next
       PROVE  (CopyOf(current, p))' = [buf |-> current, off |-> used, par |-> p]
  BY <1>2, <1>5, <1>14 DEF CopyOf
<1>15. ASSUME NEW c \in copying'
       PROVE  c.par \in first' .. next' - 1 /\ c = (CopyOf(current, c.par))'
  <2>1. CASE c \in copying
    BY <1>6, <1>13, <2>1 DEF Packing
  <2>2. CASE c = [buf |-> current, off |-> used, par |-> next]
    BY <1>1, <1>6, <1>14, <2>2
  <2> QED BY <1>5, <2>1, <2>2
<1>16. ASSUME NEW p \in first' .. next' - 1
       PROVE  (Filled(current, p))' \/ (CopyOf(current, p))' \in copying'
  <2>1. CASE p \in first .. next - 1
    BY <1>5, <1>13, <2>1 DEF Packing
  <2>2. CASE p = next
    BY <1>1, <1>5, <1>14, <2>2
  <2> QED BY <1>6, <2>1, <2>2
<1>17. first' <= next'
  BY <1>1, <1>5
<1> QED BY <1>12, <1>15, <1>16, <1>17 DEF Packing

\* Copying one parameter to its place fills it and disturbs no other.
LEMMA CopyInKeepsPacking ==
  ASSUME TypeOK, Packing, NEW c \in copying, CopyIn(c)
  PROVE  Packing'
<1>1. /\ c.par \in first .. next - 1 /\ c.buf = current /\ c.off = place[c.par]
      /\ first .. next - 1 \subseteq Params /\ current \in Buffers
  BY StreamAssumption DEF Packing, CopyOf, TypeOK, Params
<1>2. Laid(first, next - 1, used)
  BY DEF Packing
<1>3. /\ UNCHANGED <<size, refit, first, next, used, current, place>>
      /\ copying' = copying \ {c}
  BY DEF CopyIn, senderVars
<1>4. buffer'[current] = [i \in Offsets |-> IF i \in Region(place[c.par], c.par)
                                          THEN [ver |-> refit, par |-> c.par]
                                          ELSE buffer[current][i]]
  BY <1>1 DEF CopyIn, TypeOK
<1>5. \A p \in first .. next - 1 :
        /\ place[p] \in Nat /\ size[p] \in Nat /\ AlignedSize(size[p]) \in Nat
        /\ size[p] <= AlignedSize(size[p]) /\ place[p] + AlignedSize(size[p]) <= used
  BY <1>1, <1>2, SizeBounds, HalfBounds DEF TypeOK, Laid
<1>6. used \in Nat /\ used <= Half /\ Half \in Nat
  BY HalfBounds DEF TypeOK
<1>7. \A p \in first .. next - 1 : Region(place[p], p) \subseteq Offsets
  BY <1>5, <1>6, HalfBounds DEF Region
<1>8. (Filled(current, c.par))'
  BY <1>1, <1>3, <1>4, <1>7 DEF Filled, Region
<1>9. ASSUME NEW p \in first .. next - 1, p # c.par, Filled(current, p)
      PROVE  (Filled(current, p))'
  <2>1. p \in Nat /\ c.par \in Nat
    BY <1>1, <1>9 DEF Params
  <2>2. \/ place[p] + AlignedSize(size[p]) <= place[c.par]
        \/ place[c.par] + AlignedSize(size[c.par]) <= place[p]
    BY <1>1, <1>2, <1>9, <2>1 DEF Laid
  <2>3. \A i \in Region(place[p], p) : i \notin Region(place[c.par], c.par)
    BY <1>1, <1>5, <1>9, <2>2 DEF Region
  <2>4. \A i \in Region(place[p], p) : buffer'[current][i] = buffer[current][i]
    BY <1>4, <1>7, <2>3
  <2> QED BY <1>3, <1>9, <2>4 DEF Filled, Region
<1>10. Laid(first, next - 1, used)' /\ first' <= next'
  BY <1>2, <1>3 DEF Packing, Laid
<1>11. \A p \in Params : (CopyOf(current, p))' = CopyOf(current, p)
  BY <1>3 DEF CopyOf
<1>12. \A d \in copying' : d.par \in first' .. next' - 1 /\ d = (CopyOf(current, d.par))'
  BY <1>1, <1>3, <1>11 DEF Packing
<1>13. ASSUME NEW p \in first .. next - 1
       PROVE  (Filled(current, p))' \/ (CopyOf(current, p))' \in copying'
  <2>1. CASE p = c.par
    BY <1>8, <2>1
  <2>2. CASE p # c.par /\ Filled(current, p)
    BY <1>9, <2>2
  <2>3. CASE p # c.par /\ CopyOf(current, p) \in copying
    BY <1>1, <1>3, <1>11, <2>3 DEF CopyOf
  <2> QED BY <2>1, <2>2, <2>3 DEF Packing
<1> QED BY <1>3, <1>10, <1>12, <1>13 DEF Packing

-----------------------------------------------------------------------------
(* The groups sent *)

LEMMA SentKept ==
  ASSUME NEW m, Sent(m), UNCHANGED <<size, refit, first, current, place, buffer>>
  PROVE  (Sent(m))'
  BY DEF Sent, Laid, Filled, Region

\* Packing the next parameter leaves the places of those sent alone.
LEMMA SentWhilePacking ==
  ASSUME TypeOK, Packing, Pack, NEW m \in Messages, Sent(m)
  PROVE  (Sent(m))'
<1>1. /\ UNCHANGED <<size, refit, first, current, buffer>>
      /\ place' = [place EXCEPT ![next] = used]
  BY DEF Pack
<1>2. m.first \in Nat /\ m.last \in Nat /\ m.last < next /\ first \in Nat /\ next \in Nat
  BY StreamAssumption DEF Sent, Packing, TypeOK, Messages
<1>3. \A p \in m.first .. m.last : p # next
  BY <1>2
<1>4. \A p \in m.first .. m.last : p # m.last => p + 1 \in m.first .. m.last
  BY <1>2
<1>5. DOMAIN place = Params
  BY DEF TypeOK
<1>6. \A p \in m.first .. m.last : place'[p] = place[p]
  BY <1>1, <1>3, <1>5
<1>7. m.first \in m.first .. m.last
  BY <1>2 DEF Sent
<1>8. (Laid(m.first, m.last, m.used))'
  BY <1>1, <1>4, <1>6, <1>7 DEF Sent, Laid
<1>9. \A p \in m.first .. m.last : (Filled(m.buf, p))'
  BY <1>1, <1>6 DEF Sent, Filled, Region
<1> QED BY <1>1, <1>8, <1>9 DEF Sent

\* A copy into the sender's buffer leaves the other one alone.
LEMMA SentWhileCopying ==
  ASSUME TypeOK, Packing, NEW c \in copying, CopyIn(c), NEW m \in Messages, Sent(m)
  PROVE  (Sent(m))'
<1>1. UNCHANGED <<size, refit, first, current, place>>
  BY DEF CopyIn, senderVars
<1>2. c.buf = current /\ m.buf = Other(current) /\ current \in {0, 1} /\ m.buf \in {0, 1}
  BY DEF Packing, CopyOf, Sent, TypeOK, Messages, Buffers
<1>3. m.buf # c.buf
  BY <1>2 DEF Other
<1>4. buffer'[m.buf] = buffer[m.buf]
  BY <1>2, <1>3 DEF CopyIn, TypeOK, Buffers
<1> QED BY <1>1, <1>4 DEF Sent, Laid, Filled, Region

LEMMA GroupIsSent ==
  ASSUME TypeOK, Packing, Stages, SendGroup
  PROVE  (Sent(request))'
<1>1. /\ request' = Message("group", current, first, next - 1, used) /\ copying = {}
      /\ UNCHANGED <<size, refit, place, buffer>>
      /\ first' = next /\ current' = Other(current)
  BY DEF SendGroup, Synchronized, gpuVars
<1>2. first < next /\ first \in Nat /\ next \in Nat
  BY StreamAssumption DEF SendGroup, Stages, TypeOK
<1>3. Other(Other(current)) = current
  BY DEF Other, TypeOK, Buffers
<1>4. \A p \in first .. next - 1 : Filled(current, p)
  BY <1>1 DEF Packing
<1>5. Laid(first, next - 1, used)
  BY DEF Packing
<1>6. /\ request'.buf = current /\ request'.first = first /\ request'.last = next - 1
      /\ request'.used = used
  BY <1>1 DEF Message
<1>7. request'.buf = Other(current')
  BY <1>1, <1>3, <1>6
<1>8. request'.first <= request'.last /\ request'.last = first' - 1
  BY <1>1, <1>2, <1>6
<1>9. (Laid(request.first, request.last, request.used))'
  BY <1>1, <1>5, <1>6 DEF Laid
<1>10. \A p \in request'.first .. request'.last : (Filled(request.buf, p))'
  BY <1>1, <1>4, <1>6 DEF Filled, Region
<1> QED BY <1>7, <1>8, <1>9, <1>10 DEF Sent

-----------------------------------------------------------------------------
(* Each part of the invariant is kept by every step *)

LEMMA PackingStep ==
  ASSUME TypeOK, Packing, Stages, TypeOK', [Next]_vars
  PROVE  Packing'
<1>1. next' \in Nat
  BY StreamAssumption DEF TypeOK
<1>2. CASE Pack
  BY <1>2, PackKeepsPacking
<1>3. CASE \E c \in copying : CopyIn(c)
  BY <1>3, CopyInKeepsPacking
<1>4. CASE StartRefit
  BY <1>1, <1>4, NothingToCopy, EmptyGroup DEF StartRefit, Stages, gpuVars
<1>5. CASE SendGroup
  BY <1>1, <1>5, EmptyGroup DEF SendGroup, Synchronized, gpuVars
<1>6. CASE CloseGroup \/ SenderFails \/ SendComplete \/ SenderDone \/ SenderTimeout
  BY <1>6, PackingKept
     DEF CloseGroup, SenderFails, SendComplete, SenderDone, SenderTimeout, gpuVars
<1>7. CASE \/ EndRefit \/ Receive \/ View \/ LoadWeights \/ Acknowledge \/ ReceiveComplete
           \/ ReceiverDone \/ ReceiverFails
  BY <1>7, PackingKept
     DEF EndRefit, Receive, View, LoadWeights, Acknowledge, ReceiveComplete, ReceiverDone,
         ReceiverFails, gpuVars, senderVars
<1>8. CASE (\E c \in loading : CopyOut(c)) \/ UNCHANGED vars
  BY <1>8, PackingKept DEF CopyOut, vars, gpuVars, senderVars
<1> QED BY <1>2, <1>3, <1>4, <1>5, <1>6, <1>7, <1>8 DEF Next

LEMMA SentGroupsStep ==
  ASSUME TypeOK, Packing, SentGroups, Turns, Stages, [Next]_vars
  PROVE  SentGroups'
<1>1. request \in Messages /\ group \in Messages
  BY DEF TypeOK
<1>2. CASE Pack
  <2>1. UNCHANGED <<request, group, rpc, loading>>
    BY <1>2 DEF Pack, receiverVars
  <2> QED BY <1>1, <1>2, <2>1, SentWhilePacking DEF SentGroups, InHand, Sent
<1>3. CASE \E c \in copying : CopyIn(c)
  <2>1. PICK c \in copying : CopyIn(c)
    BY <1>3
  <2>2. UNCHANGED <<request, group, rpc, loading>>
    BY <2>1 DEF CopyIn, receiverVars
  <2>3. ASSUME NEW m \in Messages, Sent(m) PROVE (Sent(m))'
    BY <2>1, <2>3, SentWhileCopying
  <2> QED BY <1>1, <2>2, <2>3 DEF SentGroups, InHand, Sent
<1>4. CASE StartRefit
  BY <1>4 DEF StartRefit, Stages, SentGroups, InHand, gpuVars
<1>5. CASE SendGroup
  <2>1. ~InHand'
    BY <1>5 DEF SendGroup, Answered, Turns, InHand, gpuVars, receiverVars
  <2> QED BY <1>5, <2>1, GroupIsSent DEF SentGroups
<1>6. ASSUME UNCHANGED <<size, refit, first, current, place, buffer>>
      PROVE  /\ Sent(request) => (Sent(request))' \/ request' # request
             /\ Sent(group) => (Sent(group))' \/ group' # group
  BY <1>6 DEF Sent, Laid, Filled, Region
<1>7. CASE SendComplete
  <2>1. /\ UNCHANGED <<size, refit, first, current, place, buffer, group, rpc, loading>>
        /\ request'.kind = "complete"
    BY <1>7 DEF SendComplete, AllSent, Message, gpuVars, receiverVars
  <2> QED BY <1>6, <2>1 DEF SentGroups, InHand
<1>8. CASE Receive
  <2>1. /\ UNCHANGED <<size, refit, first, current, place, buffer>>
        /\ request'.kind = "none" /\ group' = request /\ Sent(request)
    BY <1>8 DEF Receive, NoMessage, Message, gpuVars, senderVars, SentGroups
  <2>2. (Sent(group))'
    BY <2>1 DEF Sent, Laid, Filled, Region
  <2> QED BY <2>1, <2>2 DEF SentGroups
<1>9. ASSUME UNCHANGED <<size, refit, first, current, place, buffer, group>>, InHand' => InHand,
             request'.kind = "group" => request' = request
      PROVE  SentGroups'
  BY <1>6, <1>9 DEF SentGroups
<1>10. CASE CloseGroup \/ SenderFails \/ SenderDone \/ SenderTimeout \/ EndRefit
  BY <1>9, <1>10 DEF CloseGroup, SenderFails, SenderDone, SenderTimeout, EndRefit, InHand, gpuVars,
                     senderVars, receiverVars
<1>11. CASE View \/ LoadWeights \/ Acknowledge
  BY <1>9, <1>11 DEF View, LoadWeights, Acknowledge, InHand, gpuVars, senderVars
<1>12. CASE ReceiveComplete \/ ReceiverDone \/ ReceiverFails
  BY <1>9, <1>12 DEF ReceiveComplete, ReceiverDone, ReceiverFails, NoMessage, Message, InHand,
                     gpuVars, senderVars
<1>13. CASE \E c \in loading : CopyOut(c)
  BY <1>9, <1>13 DEF CopyOut, InHand, senderVars, receiverVars
<1>14. CASE UNCHANGED vars
  BY <1>9, <1>14 DEF vars, InHand, gpuVars, senderVars, receiverVars
<1> QED BY <1>2, <1>3, <1>4, <1>5, <1>7, <1>8, <1>10, <1>11, <1>12, <1>13, <1>14 DEF Next

-----------------------------------------------------------------------------
(* What the receiver builds and loads *)

LEMMA ViewingKept ==
  ASSUME Viewing, UNCHANGED <<refit, group, place, key, offset, views, model>>,
         loading' = loading, rpc' \in {"view", "sync"} => rpc' = rpc
  PROVE  Viewing'
  BY DEF Viewing, CopyOf

LEMMA ViewingWhilePacking ==
  ASSUME TypeOK, Packing, SentGroups, Viewing, Pack
  PROVE  Viewing'
<1>1. /\ UNCHANGED <<refit, group, key, offset, views, model, loading, rpc>>
      /\ place' = [place EXCEPT ![next] = used]
  BY DEF Pack, receiverVars
<1>2. /\ group.first \in Nat /\ group.last \in Nat /\ first \in Nat /\ next \in Nat /\ key \in Nat
      /\ first <= next
  BY StreamAssumption DEF TypeOK, Messages, Packing
<1>3. InHand => group.last < next
  BY <1>2 DEF SentGroups, Sent
<1>4. InHand => \A p \in group.first .. group.last : place'[p] = place[p]
  BY <1>1, <1>2, <1>3 DEF TypeOK
<1>5. \A c \in loading : c.par \in group.first .. group.last /\ c = CopyOf(group.buf, c.par)
  BY DEF Viewing
<1>6. \A c \in loading : c = (CopyOf(group.buf, c.par))'
  BY <1>1, <1>4, <1>5 DEF CopyOf, InHand
<1>7. ASSUME rpc = "view"
      PROVE  /\ offset = IF key <= group.last THEN place'[key] ELSE group.used
             /\ \A p \in group.first .. key - 1 : (CopyOf(group.buf, p))' = CopyOf(group.buf, p)
  <2>1. key \in group.first .. group.last + 1
    BY <1>7 DEF Viewing
  <2>2. group.first .. key - 1 \subseteq group.first .. group.last
    BY <1>2, <2>1
  <2>3. key <= group.last => key \in group.first .. group.last
    BY <1>2, <2>1
  <2> QED BY <1>1, <1>4, <1>7, <2>2, <2>3 DEF Viewing, CopyOf, InHand
<1>8. ASSUME rpc = "sync", NEW p \in group.first .. group.last
      PROVE  (CopyOf(group.buf, p))' = CopyOf(group.buf, p)
  BY <1>1, <1>4, <1>8 DEF CopyOf, InHand
<1>9. rpc = "view" =>
        /\ \A c \in views : c.par \in group.first .. key - 1 /\ c = (CopyOf(group.buf, c.par))'
        /\ \A p \in group.first .. key - 1 : (CopyOf(group.buf, p))' \in views
  BY <1>7 DEF Viewing
<1>10. rpc = "sync" => \A p \in group.first .. group.last :
          model[p] = refit \/ (CopyOf(group.buf, p))' \in loading
  BY <1>8 DEF Viewing
<1> QED BY <1>1, <1>5, <1>6, <1>7, <1>9, <1>10 DEF Viewing

LEMMA ViewKeepsViewing ==
  ASSUME TypeOK, SentGroups, Turns, Viewing, View
  PROVE  Viewing'
<1>1. /\ UNCHANGED <<refit, group, place, model>> /\ rpc = "view" /\ rpc' = "view"
      /\ loading' = loading /\ key' = key + 1 /\ offset' = NextOffset(offset, key)
      /\ views' = views \cup {[buf |-> group.buf, off |-> offset, par |-> key]}
      /\ UNCHANGED size
  BY DEF View, gpuVars
<1>2. loading = {}
  BY <1>1 DEF Turns
<1>3. /\ key \in group.first .. group.last /\ key \in Nat
      /\ group.first \in Nat /\ group.last \in Nat
  BY StreamAssumption DEF View, Viewing, TypeOK, Messages
<1>4. offset = place[key]
  BY <1>1, <1>3 DEF Viewing
<1>5. Laid(group.first, group.last, group.used)
  BY <1>1 DEF SentGroups, Sent, InHand
<1>6. offset' = IF key = group.last THEN group.used ELSE place[key + 1]
  BY <1>1, <1>3, <1>4, <1>5 DEF NextOffset, Laid
<1>7. key' \in group.first .. group.last + 1
  BY <1>1, <1>3
<1>8. offset' = IF key' <= group.last THEN place[key'] ELSE group.used
  BY <1>1, <1>3, <1>6
<1>9. group.first .. key' - 1 = (group.first .. key - 1) \cup {key}
  BY <1>1, <1>3
<1>10. views' = views \cup {CopyOf(group.buf, key)}
  BY <1>1, <1>4 DEF CopyOf
<1>11. \A c \in views' : c.par \in group.first .. key' - 1 /\ c = CopyOf(group.buf, c.par)
  BY <1>1, <1>9, <1>10 DEF Viewing, CopyOf
<1>12. \A p \in group.first .. key' - 1 : CopyOf(group.buf, p) \in views'
  BY <1>1, <1>9, <1>10 DEF Viewing
<1> QED BY <1>1, <1>2, <1>7, <1>8, <1>11, <1>12 DEF Viewing, CopyOf

LEMMA ReceiveKeepsViewing ==
  ASSUME TypeOK, SentGroups, Turns, Receive
  PROVE  Viewing'
<1>1. /\ UNCHANGED <<refit, place, model>> /\ rpc' = "view" /\ loading' = loading
      /\ group' = request /\ key' = request.first /\ offset' = 0 /\ views' = {}
      /\ request.kind = "group"
  BY DEF Receive, gpuVars
<1>2. loading = {}
  BY <1>1 DEF Turns, InHand
<1>3. Sent(request)
  BY <1>1 DEF SentGroups
<1>4. request.first \in Nat /\ request.last \in Nat /\ request.first <= request.last
  BY <1>3, StreamAssumption DEF TypeOK, Messages, Sent
<1>5. place[request.first] = 0
  BY <1>3 DEF Sent, Laid
<1>6. key' \in group'.first .. group'.last + 1 /\ group'.first .. key' - 1 = {}
  BY <1>1, <1>4, EmptyInterval
<1> QED BY <1>1, <1>2, <1>4, <1>5, <1>6 DEF Viewing

LEMMA LoadKeepsViewing ==
  ASSUME TypeOK, Viewing, LoadWeights
  PROVE  Viewing'
<1>1. /\ UNCHANGED <<refit, group, place, model>> /\ rpc = "view" /\ rpc' = "sync"
      /\ loading' = views /\ key > group.last
  BY DEF LoadWeights
<1>2. key \in group.first .. group.last + 1
  BY <1>1 DEF Viewing
<1>3. key - 1 = group.last
  BY <1>1, <1>2, StreamAssumption DEF TypeOK, Messages
<1> QED BY <1>1, <1>3 DEF Viewing, CopyOf

\* A copy out of a buffer loads a parameter of the refit, whole.
LEMMA CopyOutLoads ==
  ASSUME TypeOK, SentGroups, Viewing, NEW c \in loading, CopyOut(c)
  PROVE  /\ c = CopyOf(group.buf, c.par)
         /\ model' = [model EXCEPT ![c.par] = refit]
<1>1. c.par \in group.first .. group.last /\ c = CopyOf(group.buf, c.par)
  BY DEF Viewing
<1>2. Sent(group)
  BY DEF SentGroups, InHand
<1>3. Filled(group.buf, c.par)
  BY <1>1, <1>2 DEF Sent
<1>4. c.buf = group.buf /\ c.off = place[c.par]
  BY <1>1 DEF CopyOf
<1> QED BY <1>1, <1>3, <1>4 DEF CopyOut, Filled

LEMMA CopyOutKeepsViewing ==
  ASSUME TypeOK, SentGroups, Turns, Viewing, NEW c \in loading, CopyOut(c)
  PROVE  Viewing'
<1>1. /\ UNCHANGED <<refit, group, place, rpc, key, offset, views>> /\ loading' = loading \ {c}
      /\ rpc # "view"
  BY DEF CopyOut, receiverVars, Turns
<1>2. c = CopyOf(group.buf, c.par) /\ model' = [model EXCEPT ![c.par] = refit]
  BY CopyOutLoads
<1>3. group.first .. group.last \subseteq Params /\ DOMAIN model = Params
  <2>1. /\ group.first \in 1 .. NParams + 1 /\ group.last \in 0 .. NParams
        /\ DOMAIN model = Params
    BY DEF TypeOK, Messages
  <2> QED BY <2>1, StreamAssumption DEF Params
<1>4. ASSUME rpc = "sync", NEW p \in group.first .. group.last
      PROVE  model'[p] = refit \/ CopyOf(group.buf, p) \in loading'
  <2>1. model[p] = refit \/ CopyOf(group.buf, p) \in loading
    BY <1>4 DEF Viewing
  <2>2. CASE p = c.par
    BY <1>2, <1>3, <2>2
  <2>3. CASE p # c.par
    BY <1>1, <1>2, <1>3, <2>1, <2>3 DEF CopyOf
  <2> QED BY <2>2, <2>3
<1> QED BY <1>1, <1>4 DEF Viewing, CopyOf

LEMMA ViewingStep ==
  ASSUME TypeOK, Packing, SentGroups, Turns, Stages, Viewing, [Next]_vars
  PROVE  Viewing'
<1>1. CASE Pack
  BY <1>1, ViewingWhilePacking
<1>2. CASE View \/ Receive \/ LoadWeights \/ \E c \in loading : CopyOut(c)
  BY <1>2, ViewKeepsViewing, ReceiveKeepsViewing, LoadKeepsViewing, CopyOutKeepsViewing
<1>3. CASE StartRefit
  BY <1>3 DEF StartRefit, gpuVars, Stages, InHand, Viewing
<1>4. CASE CloseGroup \/ SenderFails \/ SendGroup \/ SendComplete
  BY <1>4, ViewingKept DEF CloseGroup, SenderFails, SendGroup, SendComplete, gpuVars, receiverVars
<1>5. CASE SenderDone \/ SenderTimeout \/ EndRefit
  BY <1>5, ViewingKept DEF SenderDone, SenderTimeout, EndRefit, gpuVars, receiverVars
<1>6. CASE Acknowledge
  BY <1>6 DEF Acknowledge, gpuVars, Viewing
<1>7. CASE ReceiveComplete \/ ReceiverDone \/ ReceiverFails
  BY <1>7, ViewingKept DEF ReceiveComplete, ReceiverDone, ReceiverFails, gpuVars
<1>8. CASE (\E c \in copying : CopyIn(c)) \/ UNCHANGED vars
  BY <1>8, ViewingKept DEF CopyIn, receiverVars, vars, gpuVars
<1> QED BY <1>1, <1>2, <1>3, <1>4, <1>5, <1>6, <1>7, <1>8 DEF Next

-----------------------------------------------------------------------------
(* What is loaded *)

LEMMA LoadsStep ==
  ASSUME TypeOK, SentGroups, Viewing, LoadsWhatWasPacked, [Next]_vars
  PROVE  LoadsWhatWasPacked'
<1>1. CASE \E c \in loading : CopyOut(c)
  <2>1. PICK c \in loading : CopyOut(c)
    BY <1>1
  <2>2. model' = [model EXCEPT ![c.par] = refit] /\ refit # -1
    BY <2>1, CopyOutLoads, StreamAssumption DEF TypeOK
  <2> QED BY <2>2 DEF LoadsWhatWasPacked, TypeOK
<1>2. CASE model' = model
  BY <1>2 DEF LoadsWhatWasPacked
<1>3. CASE \/ StartRefit \/ EndRefit \/ Pack \/ CloseGroup \/ SenderFails \/ SendGroup
           \/ SendComplete \/ SenderDone \/ SenderTimeout
  BY <1>2, <1>3 DEF StartRefit, EndRefit, Pack, CloseGroup, SenderFails, SendGroup, SendComplete,
                    SenderDone, SenderTimeout, gpuVars
<1>4. CASE \/ Receive \/ View \/ LoadWeights \/ Acknowledge \/ ReceiveComplete \/ ReceiverDone
           \/ ReceiverFails \/ (\E c \in copying : CopyIn(c)) \/ UNCHANGED vars
  BY <1>2, <1>4 DEF Receive, View, LoadWeights, Acknowledge, ReceiveComplete, ReceiverDone,
                    ReceiverFails, CopyIn, vars, gpuVars
<1> QED BY <1>1, <1>3, <1>4 DEF Next

LEMMA LoadedKept ==
  ASSUME Loaded, UNCHANGED <<refit, model, request, rpc, first, group>>
  PROVE  Loaded'
  BY DEF Loaded

LEMMA LoadedStep ==
  ASSUME TypeOK, SentGroups, Turns, Stages, Viewing, Loaded, [Next]_vars
  PROVE  Loaded'
<1>1. CASE StartRefit
  <2>1. request' = request /\ request.kind = "none" /\ rpc' = "recv" /\ first' = 1
    BY <1>1 DEF StartRefit, Stages
  <2> QED BY <2>1, StreamAssumption DEF Loaded, Params
<1>2. CASE Pack \/ CloseGroup \/ SenderFails \/ SenderDone \/ SenderTimeout \/ EndRefit
  BY <1>2, LoadedKept DEF Pack, CloseGroup, SenderFails, SenderDone, SenderTimeout, EndRefit,
                          gpuVars, senderVars, receiverVars
<1>3. CASE SendGroup
  <2>1. /\ UNCHANGED <<refit, model, rpc>>
        /\ request' = Message("group", current, first, next - 1, used)
        /\ request.kind = "none" /\ rpc \in {"recv", "failed"}
    BY <1>3 DEF SendGroup, Answered, Turns, InHand, gpuVars, receiverVars
  <2>2. request'.kind = "group" /\ request'.first = first
    BY <2>1 DEF Message
  <2> QED BY <2>1, <2>2 DEF Loaded
<1>4. CASE SendComplete
  <2>1. /\ UNCHANGED <<refit, model, rpc, first>>
        /\ request'.kind = "complete"
        /\ request.kind = "none" /\ rpc \in {"recv", "failed"}
    BY <1>4 DEF SendComplete, AllSent, Message, Answered, Turns, InHand, gpuVars, receiverVars
  <2> QED BY <2>1 DEF Loaded
<1>5. CASE Receive
  BY <1>5 DEF Receive, Loaded, gpuVars, senderVars
<1>6. CASE View \/ LoadWeights
  BY <1>6 DEF View, LoadWeights, Loaded, gpuVars, senderVars
<1>7. CASE Acknowledge
  <2>1. /\ UNCHANGED <<refit, model, first, request>> /\ rpc = "sync" /\ rpc' = "recv"
        /\ loading = {}
    BY <1>7 DEF Acknowledge, gpuVars, senderVars
  <2>2. Sent(group) /\ request.kind = "none"
    BY <2>1 DEF SentGroups, Turns, InHand
  <2>3. /\ group.last = first - 1 /\ group.first \in Nat /\ first \in Nat
        /\ \A p \in Params : p \in Nat
    <3>1. first \in 1 .. NParams + 1 /\ group \in Messages
      BY DEF TypeOK
    <3>2. group.first \in 1 .. NParams + 1
      BY <3>1 DEF Messages
    <3> QED BY <2>2, <3>1, <3>2, StreamAssumption DEF Sent, Params
  <2>4. \A p \in group.first .. group.last : model[p] = refit
    BY <2>1 DEF Viewing
  <2>5. \A p \in Params : p < group.first => model[p] = refit
    BY <2>1 DEF Loaded
  <2>6. \A p \in Params : p < first => model[p] = refit
    BY <2>3, <2>4, <2>5
  <2> QED BY <2>1, <2>2, <2>6 DEF Loaded
<1>8. CASE ReceiveComplete
  <2>1. /\ UNCHANGED <<refit, model>> /\ rpc = "recv" /\ rpc' = "scales"
        /\ request.kind = "complete"
    BY <1>8 DEF ReceiveComplete, gpuVars
  <2>2. first = NParams + 1
    BY <2>1 DEF Turns
  <2>3. \A p \in Params : p < first
    BY <2>2, StreamAssumption DEF Params
  <2> QED BY <2>1, <2>3 DEF Loaded
<1>9. CASE ReceiverDone \/ ReceiverFails
  BY <1>9 DEF ReceiverDone, ReceiverFails, Loaded, gpuVars
<1>10. CASE \E c \in loading : CopyOut(c)
  <2>1. PICK c \in loading : CopyOut(c)
    BY <1>10
  <2>2. model' = [model EXCEPT ![c.par] = refit]
    BY <2>1, CopyOutLoads
  <2>3. UNCHANGED <<refit, request, rpc, first, group>>
    BY <2>1 DEF CopyOut, senderVars, receiverVars
  <2>4. \A p \in Params : model[p] = refit => model'[p] = refit
    BY <2>2 DEF TypeOK
  <2> QED BY <2>3, <2>4 DEF Loaded
<1>11. CASE (\E c \in copying : CopyIn(c)) \/ UNCHANGED vars
  BY <1>11, LoadedKept DEF CopyIn, senderVars, receiverVars, vars, gpuVars
<1> QED BY <1>1, <1>2, <1>3, <1>4, <1>5, <1>6, <1>7, <1>8, <1>9, <1>10, <1>11 DEF Next

-----------------------------------------------------------------------------
(* The theorems *)

LEMMA InvariantInit == Init => IInv
<1> SUFFICES ASSUME Init PROVE IInv
  OBVIOUS
<1>1. TypeOK
  BY TypeInit
<1>2. Packing /\ Turns /\ Stages
  BY <1>1, PackingInit, ProtocolInit
<1>3. SentGroups /\ Viewing
  BY DEF Init, SentGroups, Viewing, InHand, NoMessage, Message
<1>4. Loaded /\ LoadsWhatWasPacked
  BY DEF Init, Loaded, LoadsWhatWasPacked
<1> QED BY <1>1, <1>2, <1>3, <1>4 DEF IInv

LEMMA TypeStep ==
  ASSUME IInv, [Next]_vars
  PROVE  TypeOK'
<1> USE DEF IInv
<1>1. CASE UNCHANGED vars
  BY <1>1 DEF TypeOK, vars, senderVars, gpuVars, receiverVars
<1>2. CASE Next
  BY <1>2, SenderTypes, SendGroupTypes, ReceiverTypes, ViewTypes, GPUTypes DEF Next
<1> QED BY <1>1, <1>2

LEMMA ProtocolStep ==
  ASSUME IInv, [Next]_vars
  PROVE  Turns' /\ Stages'
<1> USE DEF IInv
<1>1. CASE UNCHANGED vars
  BY <1>1 DEF Turns, Stages, InHand, vars, senderVars, gpuVars, receiverVars
<1>2. CASE Next
  BY <1>2, SenderProtocol, ReceiverProtocol, GPUProtocol DEF Next
<1> QED BY <1>1, <1>2

\* The inductive invariant: a group lies in the buffer where the message says it does
\* from the time it is sent until the engine is done with it, one message is under
\* way at a time, and what the engine has loaded grows group by group.
THEOREM IInvariant == Spec => []IInv
<1>1. Init => IInv
  BY InvariantInit
<1>2. IInv /\ [Next]_vars => IInv'
  <2> SUFFICES ASSUME IInv, [Next]_vars PROVE IInv'
    OBVIOUS
  <2>1. TypeOK' /\ Turns' /\ Stages'
    BY TypeStep, ProtocolStep
  <2>2. Packing' /\ SentGroups'
    BY <2>1, PackingStep, SentGroupsStep DEF IInv
  <2>3. Viewing' /\ Loaded' /\ LoadsWhatWasPacked'
    BY ViewingStep, LoadedStep, LoadsStep DEF IInv
  <2> QED BY <2>1, <2>2, <2>3 DEF IInv
<1> QED BY <1>1, <1>2, PTL DEF Spec

\* Every variable has its type: no offset ever leaves a buffer.
THEOREM TypeCorrect == Spec => []TypeOK
<1>1. IInv => TypeOK
  BY DEF IInv
<1> QED BY <1>1, IInvariant, PTL

\* Nothing is copied into a buffer that the engine reads or is about to read.
THEOREM NoBufferOverwritten == Spec => []BuffersExclusive
<1>1. IInv => BuffersExclusive
  <2> SUFFICES ASSUME IInv, NEW c \in copying PROVE c.buf \notin HeldByEngine
    BY DEF BuffersExclusive
  <2>1. c.buf = current /\ current \in {0, 1}
    BY DEF IInv, Packing, CopyOf, TypeOK, Buffers
  <2>2. HeldByEngine \subseteq {Other(current)}
    BY DEF IInv, HeldByEngine, SentGroups, Sent, InHand
  <2> QED BY <2>1, <2>2 DEF Other
<1> QED BY <1>1, IInvariant, PTL

\* What the engine loads are the bytes of this refit's parameter, all of them.
THEOREM ParametersArriveWhole == Spec => []LoadsWhatWasPacked
<1>1. IInv => LoadsWhatWasPacked
  BY DEF IInv
<1> QED BY <1>1, IInvariant, PTL

\* The two sides, which add up the sizes on their own, agree at the end of each group.
THEOREM AssertionHolds == Spec => []OffsetsAgree
<1>1. IInv => OffsetsAgree
  <2> SUFFICES ASSUME IInv, rpc = "view", key > group.last PROVE offset = group.used
    BY DEF OffsetsAgree
  <2>1. ~(key <= group.last)
    BY StreamAssumption DEF IInv, TypeOK, Messages
  <2> QED BY <2>1 DEF IInv, Viewing
<1> QED BY <1>1, IInvariant, PTL

\* The REQ socket is never asked to send out of turn.
THEOREM SocketsTakeTurns == Spec => []RequestsInTurn
<1>1. IInv => RequestsInTurn
  BY DEF IInv, Turns, InHand, RequestsInTurn, Answered
<1> QED BY <1>1, IInvariant, PTL

\* A refit that is reported as done has put every parameter into the engine.
THEOREM DoneIsDone == Spec => []DoneMeansLoaded
<1>1. IInv => DoneMeansLoaded
  BY DEF IInv, Stages, Loaded, DoneMeansLoaded
<1> QED BY <1>1, IInvariant, PTL

=============================================================================
