----------------------- MODULE SuccessorHandoff_proofs -----------------------
(***************************************************************************)
(* Proofs about SuccessorHandoff for every bound and every interleaving:   *)
(* type correctness, HeardIsQueued, EditExcludesBoundary, OnePreparation   *)
(* and the refinement of GaplessQueue.                                     *)
(*                                                                         *)
(* HeardIsQueued is not inductive: that the callback may cross safely rests *)
(* on who may hold a token of the fence's present epoch. IInv says so.     *)
(***************************************************************************)
EXTENDS SuccessorHandoff, QueueLemmas, TLAPS

(* The pipeline is in use; once it is not, it never is again.               *)
InUse == gen = "current" /\ Running

(* One preparation at a time, and the slot is free only when there is none. *)
Custody ==
  /\ co.pc # "idle" => slot.free
  /\ slot.free => chan = NoToken /\ wk.msg = NoToken /\ wk.inst = NoToken
                 /\ wk.pc # "release"
  /\ co.token # NoToken <=> co.pc \in {"resolving", "fetching", "sending"}
  /\ wk.msg # NoToken <=> wk.pc = "install"
  /\ wk.pc = "authorized" => wk.inst # NoToken
  /\ wk.pc = "release" => chan = NoToken /\ wk.inst = NoToken
  /\ chan = NoToken \/ (wk.msg = NoToken /\ wk.inst = NoToken)
  /\ wk.msg = NoToken \/ wk.inst = NoToken
  /\ slot.token = wk.inst

(* The first occurrence id that was never used: an edit takes it on entry.  *)
Fresh == IF owner \in {"fencing", "writing"} THEN 3 + edits ELSE 4 + edits

(* Occurrence ids are distinct, and an appended one is new.                 *)
QueueOK ==
  /\ cur < Fresh
  /\ \A n \in 1..Len(upcoming) : upcoming[n] # cur /\ upcoming[n] < Fresh
  /\ Distinct(upcoming)

(* The token names the queue's present position.                            *)
Names(t) == t.pred = cur /\ t.rev = rev /\ upcoming # <<>> /\ t.succ = Head(upcoming)

(* A token is no newer than the fence; one of its present epoch names the   *)
(* queue as it is, except once its boundary was adopted; none exists while  *)
(* an edit is being written.                                                *)
TokenOK(t) ==
  /\ t.epoch <= fence.epoch
  /\ t.pred # t.succ /\ t.pred < Fresh
  /\ t.epoch = fence.epoch => owner # "writing" /\ (Names(t) \/ receipt.adopted)

TokensOK ==
  /\ co.epoch <= fence.epoch
  /\ co.token # NoToken => TokenOK(co.token)
  /\ chan # NoToken => TokenOK(chan)
  /\ wk.msg # NoToken => TokenOK(wk.msg)
  /\ wk.inst # NoToken => TokenOK(wk.inst)

(* A mark on the fence belongs to the installed preparation, and a claimed  *)
(* one keeps the edits out until it is released.                            *)
FenceOK ==
  /\ receipt.pending = wk.inst
  /\ fence.mark # "idle" =>
       \/ wk.inst # NoToken /\ wk.inst.epoch = fence.epoch
       \/ fence.mark = "claimed" /\ wk.pc = "release"
  /\ fence.mark = "claimed" => owner # "writing"
  /\ cb = "crossed" => fence.mark = "claimed" /\ wk.inst # NoToken /\ ~receipt.submitted
  /\ receipt.submitted => fence.mark = "claimed" /\ wk.inst # NoToken
  /\ receipt.presented => receipt.submitted
  /\ receipt.adopted => receipt.presented
  /\ wk.pc = "release" => fence.mark = "claimed"

(* What the callback plays: the installed successor once the boundary is    *)
(* claimed, the current track otherwise. An adopted predecessor is gone.    *)
HeardOK ==
  IF fence.mark = "claimed" /\ wk.pc # "release"
  THEN /\ playing = wk.inst.succ
       /\ receipt.adopted => /\ playing = cur
                             /\ \A n \in 1..Len(upcoming) : upcoming[n] # wk.inst.pred
  ELSE playing = cur

(* A published event repeats the receipt, or names a track that is gone.    *)
EventOK ==
  event # NoToken =>
    /\ event.pred < Fresh
    /\ \/ /\ Presented
          /\ event.pred = receipt.pending.pred
          /\ event.succ = receipt.pending.succ
       \/ event.pred # cur /\ \A n \in 1..Len(upcoming) : upcoming[n] # event.pred

Safe == QueueOK /\ TokensOK /\ FenceOK /\ HeardOK /\ EventOK

(* The owner is inside a handler only for a pipeline of its generation.     *)
OwnerOK == owner # "free" => gen = "current"

IInv == TypeOK /\ OwnerOK /\ Custody /\ (InUse => Safe)

-----------------------------------------------------------------------------
(* Type correctness.                                                        *)

(* What an edit returns: distinct ids, each of the queue or the fresh one.   *)
LEMMA EditedProps ==
  ASSUME upcoming \in Seq(Nat), edits \in Nat, upcoming' \in Edited(upcoming)
  PROVE  /\ upcoming' \in Seq(Nat)
         /\ (/\ Distinct(upcoming)
             /\ \A n \in 1..Len(upcoming) : upcoming[n] # 3 + edits)
            => /\ Distinct(upcoming')
               /\ \A n \in 1..Len(upcoming') :
                    \/ upcoming'[n] = 3 + edits
                    \/ \E m \in 1..Len(upcoming) : upcoming'[n] = upcoming[m]
  <1> DEFINE q == upcoming
             r == upcoming'
             e == 3 + edits
             G == /\ r \in Seq(Nat)
                  /\ (Distinct(q) /\ \A n \in 1..Len(q) : q[n] # e)
                     => /\ Distinct(r)
                        /\ \A n \in 1..Len(r) :
                             r[n] = e \/ \E m \in 1..Len(q) : r[n] = q[m]
  <1>1. q \in Seq(Nat) /\ e \in Nat
    OBVIOUS
  <1>2. \/ r = Append(q, e)
        \/ \E n \in 1..Len(q) : r = RemoveAt(q, n)
        \/ \E m, n \in 1..Len(q) : r = InsertAt(RemoveAt(q, m), n, q[m])
    BY DEF Edited
  <1> HIDE DEF q, r, e
  <1>3. ASSUME r = Append(q, e) PROVE G
    <2>1. r \in Seq(Nat)
      BY <1>1, <1>3
    <2>2. ASSUME Distinct(q), \A n \in 1..Len(q) : q[n] # e
          PROVE  /\ r \in Seq(Nat) /\ Distinct(r)
                 /\ \A n \in 1..Len(r) : r[n] = e \/ \E m \in 1..Len(q) : r[n] = q[m]
      <3>1. /\ Distinct(Append(q, e))
            /\ \A n \in 1..Len(Append(q, e)) :
                 \/ Append(q, e)[n] = e
                 \/ \E m \in 1..Len(q) : Append(q, e)[n] = q[m]
        BY ONLY <1>1, <2>2, AppendKeeps
      <3> QED
        BY <1>3, <2>1, <3>1
    <2> QED
      BY <2>1, <2>2
  <1>4. ASSUME NEW n \in 1..Len(q), r = RemoveAt(q, n) PROVE G
    <2>1. r \in Seq(Nat)
      BY <1>1, <1>4, RemoveAtAt
    <2>2. Distinct(q) => Distinct(r) /\ Within(r, q)
      BY <1>1, <1>4, RemoveKeeps
    <2> QED
      BY <2>1, <2>2 DEF Within
  <1>5. ASSUME NEW m \in 1..Len(q), NEW n \in 1..Len(q),
               r = InsertAt(RemoveAt(q, m), n, q[m])
        PROVE  G
    <2>1. r \in Seq(Nat)
      <3> DEFINE c == RemoveAt(q, m)
                 x == q[m]
      <3>a. c \in Seq(Nat) /\ Len(c) = Len(q) - 1
        BY ONLY <1>1, RemoveAtAt, m \in 1..Len(q)
      <3>1. c \in Seq(Nat) /\ Len(c) = Len(q) - 1 /\ x \in Nat
        BY <1>1, <3>a
      <3>2. r = InsertAt(c, n, x)
        BY <1>5
      <3> HIDE DEF c, x
      <3>3. n \in 1..(Len(c) + 1)
        BY <1>1, <3>1
      <3>4. InsertAt(c, n, x) \in Seq(Nat)
        BY <3>1, <3>3, InsertAtAt
      <3> QED
        BY <3>2, <3>4
    <2>2. Distinct(q) => Distinct(r) /\ Within(r, q)
      BY <1>1, <1>5, MoveKeeps
    <2> QED
      BY <2>1, <2>2 DEF Within
  <1> HIDE DEF G
  <1>6. G
    BY <1>2, <1>3, <1>4, <1>5
  <1> QED
    BY <1>6 DEF q, r, e, G

(* Adopting, or not, a boundary keeps every part it touches in its type.    *)
LEMMA AdoptsType ==
  ASSUME TypeOK, NEW t, Adopts(t) \/ KeepQueue
  PROVE  /\ cur' \in Nat /\ upcoming' \in Seq(Nat)
         /\ gen' \in {"current", "superseded"}
         /\ TypePipe' /\ TypeReceipt'
  <1> USE DEF TypeOK, TypeQueue, TypeOwner, TypePipe
  <1>1. CASE KeepQueue
    BY <1>1 DEF KeepQueue, TypeReceipt
  <1>2. ASSUME NEW n \in 1..Len(upcoming),
               upcoming[n] = t.succ, cur' = t.succ,
               upcoming' = SubSeq(upcoming, n + 1, Len(upcoming)),
               receipt' = [receipt EXCEPT !.adopted = TRUE],
               UNCHANGED <<gen, gate, pipe>>
        PROVE  /\ cur' \in Nat /\ upcoming' \in Seq(Nat)
               /\ gen' \in {"current", "superseded"}
               /\ TypePipe' /\ TypeReceipt'
    <2>1. upcoming' \in Seq(Nat)
      BY <1>2, SubSeqProperties, SMTT(40)
    <2>2. TypeReceipt'
      BY <1>2 DEF TypeReceipt
    <2>3. TypePipe' /\ gen' = gen
      BY <1>2
    <2>4. cur' \in Nat
      BY <1>2, SMTT(40)
    <2> QED
      BY <2>1, <2>2, <2>3, <2>4
  <1>3. CASE /\ gen' = "superseded" /\ gate' = "shut" /\ pipe' = Cancelled
             /\ UNCHANGED <<cur, upcoming, receipt>>
    BY <1>3 DEF Cancelled, Running, TypeReceipt
  <1> QED
    BY <1>1, <1>2, <1>3 DEF Adopts

(* A part whose variables a step leaves alone keeps its type.               *)
LEMMA TypeFrame ==
  ASSUME TypeOK
  PROVE  /\ UNCHANGED queueVars => TypeQueue'
         /\ UNCHANGED ownerVars => TypeOwner'
         /\ UNCHANGED pipeVars => TypePipe'
         /\ UNCHANGED fence => TypeFence'
         /\ UNCHANGED event => TypeEvent'
         /\ UNCHANGED wk => TypeWk'
         /\ UNCHANGED slot => TypeSlot'
         /\ UNCHANGED receipt => TypeReceipt'
         /\ UNCHANGED co => TypeCo'
         /\ UNCHANGED chan => TypeChan'
         /\ UNCHANGED hearVars => TypeHear'
         /\ UNCHANGED workerVars => TypeWk' /\ TypeSlot' /\ TypeReceipt'
         /\ UNCHANGED prepVars => TypeCo' /\ TypeChan'
  BY DEF TypeOK, TypeQueue, TypeOwner, TypePipe, TypeFence, TypeEvent, TypeWk,
         TypeSlot, TypeReceipt, TypeCo, TypeChan, TypeHear, queueVars, ownerVars,
         pipeVars, hearVars, workerVars, prepVars


LEMMA EmptyTypes ==
  (slot' = EmptySlot => TypeSlot') /\ (receipt' = NoReceipt => TypeReceipt')
  <1>1. ASSUME slot' = EmptySlot PROVE TypeSlot'
    BY <1>1 DEF EmptySlot, TypeSlot
  <1>2. ASSUME receipt' = NoReceipt PROVE TypeReceipt'
    BY <1>2 DEF NoReceipt, TypeReceipt
  <1> QED
    BY <1>1, <1>2


LEMMA TypeStep == TypeOK /\ [Next]_vars => TypeOK'
  <1> SUFFICES ASSUME TypeOK, [Next]_vars PROVE TypeOK'
    OBVIOUS
  <1>0. /\ TypeQueue /\ TypeOwner /\ TypePipe /\ TypeFence /\ TypeEvent
        /\ TypeWk /\ TypeSlot /\ TypeReceipt /\ TypeCo /\ TypeChan /\ TypeHear
    BY DEF TypeOK
  <1>1. CASE OwnerTurn
    <2>1. TypeQueue'
      BY AdoptsType, <1>0, <1>1 DEF OwnerTurn, ReconcilePresented, KeepQueue, TypeQueue, queueVars
    <2>2. TypeOwner'
      BY AdoptsType, <1>0, <1>1 DEF OwnerTurn, ReconcilePresented, KeepQueue, TypeOwner, ownerVars
    <2>3. TypePipe'
      BY AdoptsType, <1>0, <1>1 DEF OwnerTurn, ReconcilePresented, KeepQueue, TypePipe, pipeVars
    <2>4. TypeReceipt'
      BY AdoptsType, <1>0, <1>1 DEF OwnerTurn, ReconcilePresented, KeepQueue, TypeReceipt, workerVars
    <2> QED
      BY TypeFrame, <2>1, <2>2, <2>3, <2>4, <1>1 DEF OwnerTurn, TypeOK
  <1>2. CASE OwnerEvent
    <2>1. TypeQueue'
      BY AdoptsType, <1>0, <1>2 DEF OwnerEvent, KeepQueue, TypeQueue, queueVars
    <2>2. TypeOwner'
      BY AdoptsType, <1>0, <1>2 DEF OwnerEvent, KeepQueue, TypeOwner, ownerVars
    <2>3. TypePipe'
      BY AdoptsType, <1>0, <1>2 DEF OwnerEvent, KeepQueue, TypePipe, pipeVars
    <2>4. TypeReceipt'
      BY AdoptsType, <1>0, <1>2 DEF OwnerEvent, KeepQueue, TypeReceipt, workerVars
    <2>5. TypeEvent'
      BY <1>0, <1>2 DEF OwnerEvent, TypeEvent
    <2> QED
      BY TypeFrame, <2>1, <2>2, <2>3, <2>4, <2>5, <1>2 DEF OwnerEvent, TypeOK
  <1>3. CASE EditBegin
    <2>1. TypeQueue'
      BY AdoptsType, <1>0, <1>3 DEF EditBegin, ReconcilePresented, KeepQueue, TypeQueue, queueVars
    <2>2. TypeOwner'
      BY AdoptsType, <1>0, <1>3 DEF EditBegin, ReconcilePresented, KeepQueue, TypeOwner, ownerVars
    <2>3. TypePipe'
      BY AdoptsType, <1>0, <1>3 DEF EditBegin, ReconcilePresented, KeepQueue, TypePipe, pipeVars
    <2>4. TypeReceipt'
      BY AdoptsType, <1>0, <1>3 DEF EditBegin, ReconcilePresented, KeepQueue, TypeReceipt, workerVars
    <2> QED
      BY TypeFrame, <2>1, <2>2, <2>3, <2>4, <1>3 DEF EditBegin, TypeOK
  <1>4. CASE EditFence
    <2>1. TypeOwner'
      BY <1>0, <1>4 DEF EditFence, Revoked, TypeOwner, ownerVars
    <2>2. TypeFence'
      BY <1>0, <1>4 DEF EditFence, Revoked, TypeFence
    <2> QED
      BY TypeFrame, <2>1, <2>2, <1>4 DEF EditFence, TypeOK
  <1>5. CASE EditWrite
    <2>1. TypeQueue'
      <3>1. CASE upcoming' \in Edited(upcoming) /\ rev' = rev + 1
        <4>1. upcoming \in Seq(Nat) /\ edits \in Nat /\ cur' = cur
          BY <1>0, <1>5 DEF EditWrite, TypeQueue, TypeOwner
        <4>2. upcoming' \in Seq(Nat)
          BY <3>1, <4>1, EditedProps
        <4> QED
          BY <1>0, <3>1, <4>1, <4>2 DEF TypeQueue
      <3>2. CASE UNCHANGED <<upcoming, rev>>
        BY <1>0, <3>2, <1>5 DEF EditWrite, TypeQueue
      <3> QED
        BY <3>1, <3>2, <1>5 DEF EditWrite
    <2>2. TypeOwner'
      BY <1>0, <1>5 DEF EditWrite, TypeOwner, ownerVars
    <2> QED
      BY TypeFrame, <2>1, <2>2, <1>5 DEF EditWrite, TypeOK
  <1>6. CASE PauseBegin
    <2>1. TypeQueue'
      BY AdoptsType, <1>0, <1>6 DEF PauseBegin, ReconcilePresented, KeepQueue, TypeQueue, queueVars
    <2>2. TypeOwner'
      BY AdoptsType, <1>0, <1>6 DEF PauseBegin, ReconcilePresented, KeepQueue, TypeOwner, ownerVars
    <2>3. TypePipe'
      BY AdoptsType, <1>0, <1>6 DEF PauseBegin, ReconcilePresented, KeepQueue, TypePipe, pipeVars
    <2>4. TypeReceipt'
      BY AdoptsType, <1>0, <1>6 DEF PauseBegin, ReconcilePresented, KeepQueue, TypeReceipt, workerVars
    <2> QED
      BY TypeFrame, <2>1, <2>2, <2>3, <2>4, <1>6 DEF PauseBegin, TypeOK
  <1>7. CASE PauseGate
    <2>1. TypeOwner'
      BY <1>0, <1>7 DEF PauseGate, TypeOwner, ownerVars
    <2>2. TypePipe'
      BY <1>0, <1>7 DEF PauseGate, TypePipe, pipeVars
    <2> QED
      BY TypeFrame, <2>1, <2>2, <1>7 DEF PauseGate, TypeOK
  <1>8. CASE PauseFreeze
    <2>1. TypeOwner'
      BY <1>0, <1>8 DEF PauseFreeze, NoReceipt, Cancelled, Running, TypeOwner, ownerVars
    <2>2. TypePipe'
      BY <1>0, <1>8 DEF PauseFreeze, NoReceipt, Cancelled, Running, TypePipe, pipeVars
    <2>3. TypeReceipt'
      <3>1. UNCHANGED receipt \/ receipt' = NoReceipt
        BY <1>8 DEF PauseFreeze
      <3> QED
        BY <3>1, EmptyTypes, TypeFrame
    <2> QED
      BY TypeFrame, <2>1, <2>2, <2>3, <1>8 DEF PauseFreeze, TypeOK
  <1>9. CASE PauseEnd
    <2>1. TypeQueue'
      BY AdoptsType, <1>0, <1>9 DEF PauseEnd, ReconcilePresented, KeepQueue, TypeQueue, queueVars
    <2>2. TypeOwner'
      BY AdoptsType, <1>0, <1>9 DEF PauseEnd, ReconcilePresented, KeepQueue, TypeOwner, ownerVars
    <2>3. TypePipe'
      BY AdoptsType, <1>0, <1>9 DEF PauseEnd, ReconcilePresented, KeepQueue, TypePipe, pipeVars
    <2>4. TypeReceipt'
      BY AdoptsType, <1>0, <1>9 DEF PauseEnd, ReconcilePresented, KeepQueue, TypeReceipt, workerVars
    <2> QED
      BY TypeFrame, <2>1, <2>2, <2>3, <2>4, <1>9 DEF PauseEnd, TypeOK
  <1>10. CASE Resume
    <2>1. TypeOwner'
      BY <1>0, <1>10 DEF Resume, TypeOwner, ownerVars
    <2>2. TypePipe'
      BY <1>0, <1>10 DEF Resume, TypePipe, pipeVars
    <2> QED
      BY TypeFrame, <2>1, <2>2, <1>10 DEF Resume, TypeOK
  <1>11. CASE Supersede
    <2>1. TypeQueue'
      BY <1>0, <1>11 DEF Supersede, Cancelled, Running, TypeQueue, queueVars
    <2>2. TypeOwner'
      BY <1>0, <1>11 DEF Supersede, Cancelled, Running, TypeOwner, ownerVars
    <2>3. TypePipe'
      BY <1>0, <1>11 DEF Supersede, Cancelled, Running, TypePipe, pipeVars
    <2> QED
      BY TypeFrame, <2>1, <2>2, <2>3, <1>11 DEF Supersede, TypeOK
  <1>12. CASE CoTicket
    <2>1. TypeCo'
      BY <1>0, <1>12 DEF CoTicket, TypeCo, TypeFence, prepVars
    <2> QED
      BY TypeFrame, <2>1, <1>12 DEF CoTicket, TypeOK
  <1>13. CASE CoCandidate
    <2>1. TypeCo'
      <3> DEFINE key == [epoch |-> co.epoch, ctl |-> ctl]
                 token == [pred |-> cur, succ |-> Head(upcoming), rev |-> rev,
                           ctl |-> ctl, epoch |-> co.epoch]
      <3>1. CASE co' = [co EXCEPT !.pc = "idle"]
        BY <1>0, <3>1 DEF TypeCo
      <3>2. CASE /\ upcoming # <<>>
                 /\ co' = [co EXCEPT !.pc = "resolving", !.attempted = key,
                                     !.token = token]
        <4>1. co.epoch \in Nat
          BY <1>0 DEF TypeCo
        <4>2. token \in Token
          BY <1>0, <3>2, <4>1 DEF TypeQueue, TypeOwner, Token
        <4>3. key \in [epoch : Nat, ctl : Nat]
          BY <1>0, <4>1 DEF TypeOwner
        <4> HIDE DEF key, token
        <4> QED
          BY <1>0, <3>2, <4>2, <4>3 DEF TypeCo
      <3> QED
        BY <3>1, <3>2, <1>13 DEF CoCandidate
    <2> QED
      BY TypeFrame, <2>1, <1>13 DEF CoCandidate, TypeOK
  <1>14. CASE CoAdmit
    <2>1. TypeCo'
      BY <1>0, <1>14 DEF CoAdmit, TypeCo, prepVars
    <2> QED
      BY TypeFrame, <2>1, <1>14 DEF CoAdmit, TypeOK
  <1>15. CASE CoFetch
    <2>1. TypeCo'
      BY <1>0, <1>15 DEF CoFetch, TypeCo, prepVars
    <2> QED
      BY TypeFrame, <2>1, <1>15 DEF CoFetch, TypeOK
  <1>16. CASE CoSend
    <2>1. TypeCo'
      BY <1>0, <1>16 DEF CoSend, TypeCo, prepVars
    <2>2. TypeChan'
      BY <1>0, <1>16 DEF CoSend, TypeChan, TypeCo, prepVars
    <2>3. TypeSlot'
      BY <1>0, <1>16 DEF CoSend, TypeSlot, workerVars
    <2> QED
      BY TypeFrame, <2>1, <2>2, <2>3, <1>16 DEF CoSend, TypeOK
  <1>17. CASE WkRetire
    <2>1. TypeWk'
      BY <1>0, <1>17 DEF WkRetire, DropInstalled, EmptySlot, NoReceipt, TypeWk, workerVars
    <2>2. TypeSlot'
      <3>1. UNCHANGED slot \/ slot' = EmptySlot
        BY <1>17 DEF WkRetire, DropInstalled
      <3> QED
        BY <3>1, EmptyTypes, TypeFrame
    <2>3. TypeReceipt'
      <3>1. UNCHANGED receipt \/ receipt' = NoReceipt
        BY <1>17 DEF WkRetire, DropInstalled
      <3> QED
        BY <3>1, EmptyTypes, TypeFrame
    <2> QED
      BY TypeFrame, <2>1, <2>2, <2>3, <1>17 DEF WkRetire, TypeOK
  <1>18. CASE WkReceive
    <2>1. TypeWk'
      BY <1>0, <1>18 DEF WkReceive, TypeWk, TypeChan, workerVars
    <2>2. TypeSlot'
      BY <1>0, <1>18 DEF WkReceive, TypeSlot, workerVars
    <2>3. TypeChan'
      BY <1>0, <1>18 DEF WkReceive, TypeChan, prepVars
    <2> QED
      BY TypeFrame, <2>1, <2>2, <2>3, <1>18 DEF WkReceive, TypeOK
  <1>19. CASE WkInstall
    <2>1. TypeWk'
      BY <1>0, <1>19 DEF WkInstall, TypeWk, workerVars
    <2>2. TypeSlot'
      BY <1>0, <1>19 DEF WkInstall, TypeSlot, TypeWk, workerVars
    <2>3. TypeReceipt'
      BY <1>0, <1>19 DEF WkInstall, TypeReceipt, TypeWk, workerVars
    <2> QED
      BY TypeFrame, <2>1, <2>2, <2>3, <1>19 DEF WkInstall, TypeOK
  <1>20. CASE WkDisarm
    <2>1. TypeWk'
      BY <1>0, <1>20 DEF WkDisarm, DropInstalled, EmptySlot, NoReceipt, Disarmed, TypeWk, workerVars
    <2>2. TypeSlot'
      BY <1>0, <1>20 DEF WkDisarm, DropInstalled, EmptySlot, NoReceipt, Disarmed, TypeSlot, workerVars
    <2>3. TypeReceipt'
      BY <1>0, <1>20 DEF WkDisarm, DropInstalled, EmptySlot, NoReceipt, Disarmed, TypeReceipt, workerVars
    <2>4. TypeFence'
      BY <1>0, <1>20 DEF WkDisarm, DropInstalled, EmptySlot, NoReceipt, Disarmed, TypeFence
    <2> QED
      BY TypeFrame, <2>1, <2>2, <2>3, <2>4, <1>20 DEF WkDisarm, TypeOK
  <1>21. CASE WkAuthorize
    <2>1. TypeWk'
      BY <1>0, <1>21 DEF WkAuthorize, Authorized, TypeWk, workerVars
    <2>2. TypeFence'
      BY <1>0, <1>21 DEF WkAuthorize, Authorized, TypeFence
    <2> QED
      BY TypeFrame, <2>1, <2>2, <1>21 DEF WkAuthorize, TypeOK
  <1>22. CASE WkReady
    <2>1. TypeWk'
      BY <1>0, <1>22 DEF WkReady, TypeWk, workerVars
    <2>2. TypeSlot'
      BY <1>0, <1>22 DEF WkReady, TypeSlot, workerVars
    <2> QED
      BY TypeFrame, <2>1, <2>2, <1>22 DEF WkReady, TypeOK
  <1>23. CASE WkDecode
    <2>1. TypeWk'
      BY <1>0, <1>23 DEF WkDecode, TypeWk, workerVars
    <2> QED
      BY TypeFrame, <2>1, <1>23 DEF WkDecode, TypeOK
  <1>24. CASE WkReport
    <2>1. TypeWk'
      BY <1>0, <1>24 DEF WkReport, TypeWk, workerVars
    <2>2. TypeEvent'
      BY <1>0, <1>24 DEF WkReport, TypeEvent, TypeReceipt, TypeOwner, Token, Presented, ownerVars
    <2> QED
      BY TypeFrame, <2>1, <2>2, <1>24 DEF WkReport, TypeOK
  <1>25. CASE WkSettle
    <2>1. TypeWk'
      BY <1>0, <1>25 DEF WkSettle, EmptySlot, NoReceipt, TypeWk, workerVars
    <2>2. TypeSlot'
      BY <1>0, <1>25 DEF WkSettle, EmptySlot, NoReceipt, TypeSlot, workerVars
    <2>3. TypeReceipt'
      <3>1. UNCHANGED receipt \/ receipt' = NoReceipt
        BY <1>25 DEF WkSettle, DropInstalled
      <3> QED
        BY <3>1, EmptyTypes, TypeFrame
    <2> QED
      BY TypeFrame, <2>1, <2>2, <2>3, <1>25 DEF WkSettle, TypeOK
  <1>26. CASE WkRelease
    <2>1. TypeWk'
      BY <1>0, <1>26 DEF WkRelease, AdoptedFence, Revoked, TypeWk, workerVars
    <2>2. TypeSlot'
      BY <1>0, <1>26 DEF WkRelease, AdoptedFence, Revoked, TypeSlot, workerVars
    <2>3. TypeFence'
      BY <1>0, <1>26 DEF WkRelease, AdoptedFence, Revoked, TypeFence
    <2> QED
      BY TypeFrame, <2>1, <2>2, <2>3, <1>26 DEF WkRelease, TypeOK
  <1>27. CASE WkExit
    <2>1. TypePipe'
      BY <1>0, <1>27 DEF WkExit, TypePipe, pipeVars
    <2> QED
      BY TypeFrame, <2>1, <1>27 DEF WkExit, TypeOK
  <1>28. CASE CbEnter
    <2>1. TypeHear'
      BY <1>0, <1>28 DEF CbEnter, TypeHear, hearVars
    <2> QED
      BY TypeFrame, <2>1, <1>28 DEF CbEnter, TypeOK
  <1>29. CASE CbClaim
    <2>1. TypeHear'
      BY <1>0, <1>29 DEF CbClaim, TypeHear, TypeSlot, Token, hearVars
    <2>2. TypeFence'
      BY <1>0, <1>29 DEF CbClaim, TypeFence
    <2> QED
      BY TypeFrame, <2>1, <2>2, <1>29 DEF CbClaim, TypeOK
  <1>30. CASE CbRecord
    <2>1. TypeReceipt'
      BY <1>0, <1>30 DEF CbRecord, TypeReceipt, workerVars
    <2>2. TypeHear'
      BY <1>0, <1>30 DEF CbRecord, TypeHear, hearVars
    <2> QED
      BY TypeFrame, <2>1, <2>2, <1>30 DEF CbRecord, TypeOK
  <1>31. CASE DevicePlays
    <2>1. TypeReceipt'
      BY <1>0, <1>31 DEF DevicePlays, TypeReceipt, workerVars
    <2> QED
      BY TypeFrame, <2>1, <1>31 DEF DevicePlays, TypeOK
  <1>90. CASE UNCHANGED vars
    BY TypeFrame, <1>90 DEF vars, TypeOK
  <1> QED
    BY <1>1, <1>2, <1>3, <1>4, <1>5, <1>6, <1>7, <1>8, <1>9, <1>10, <1>11,
       <1>12, <1>13, <1>14, <1>15, <1>16, <1>17, <1>18, <1>19, <1>20, <1>21,
       <1>22, <1>23, <1>24, <1>25, <1>26, <1>27, <1>28, <1>29, <1>30, <1>31,
       <1>90
       DEF Next, OwnerNext, CoNext, WkNext, CbNext

(* Custody holds whatever becomes of the pipeline.                          *)
LEMMA CustodyStep ==
  ASSUME TypeOK, Custody, [Next]_vars
  PROVE  Custody'
  <1>0. TypeWk /\ TypeSlot /\ TypeCo /\ TypeChan
    BY DEF TypeOK
  <1> USE <1>0 DEF Custody, TypeWk, TypeSlot, TypeCo, TypeChan, prepVars, workerVars
  <1>1. CASE CoTicket
    BY <1>1 DEF CoTicket
  <1>2. CASE CoCandidate
    <2>1. UNCHANGED <<chan, wk, slot>>
      BY <1>2 DEF CoCandidate
    <2>2. co.token = NoToken /\ slot.free
      BY <1>2 DEF CoCandidate
    <2>3. CASE co' = [co EXCEPT !.pc = "idle"]
      BY <2>1, <2>2, <2>3
    <2>4. CASE co'.pc = "resolving" /\ co'.token # NoToken
      BY <2>1, <2>2, <2>4
    <2> DEFINE token == [pred |-> cur, succ |-> Head(upcoming), rev |-> rev,
                         ctl |-> ctl, epoch |-> co.epoch]
    <2>5. ASSUME upcoming # <<>> PROVE token \in Token
      <3>1. co.epoch \in Nat
        OBVIOUS
      <3> QED
        BY <2>5, <3>1 DEF TypeOK, TypeQueue, TypeOwner, Token
    <2> HIDE DEF token
    <2>6. \/ co' = [co EXCEPT !.pc = "idle"]
          \/ /\ upcoming # <<>>
             /\ co' = [co EXCEPT !.pc = "resolving", !.token = token,
                  !.attempted = [epoch |-> co.epoch, ctl |-> ctl]]
      BY <1>2 DEF CoCandidate, token
    <2> QED
      BY <2>3, <2>4, <2>5, <2>6, TokenAssumption
  <1>3. CASE CoAdmit
    BY <1>3 DEF CoAdmit
  <1>4. CASE CoFetch
    BY <1>4 DEF CoFetch
  <1>5. CASE CoSend
    BY <1>5 DEF CoSend
  <1>6. CASE WkRetire
    <2>1. CASE DropInstalled /\ wk.inst # NoToken /\ wk.pc = "top"
               /\ wk' = [wk EXCEPT !.pc = "receive", !.inst = NoToken]
               /\ UNCHANGED prepVars
      BY <2>1 DEF DropInstalled, EmptySlot
    <2>2. CASE wk' = [wk EXCEPT !.pc = "receive"] /\ wk.pc = "top"
               /\ UNCHANGED <<slot, prepVars>>
      BY <2>2
    <2> QED
      BY <1>6, <2>1, <2>2 DEF WkRetire
  <1>7. CASE WkReceive
    <2>1. CASE wk' = [wk EXCEPT !.pc = "run"] /\ UNCHANGED <<chan, slot>>
      BY <1>7, <2>1 DEF WkReceive
    <2>2. CASE /\ chan' = NoToken /\ wk' = [wk EXCEPT !.pc = "top"]
      BY <1>7, <2>2 DEF WkReceive
    <2>3. CASE /\ chan # NoToken /\ chan' = NoToken /\ wk.inst = NoToken
               /\ wk' = [wk EXCEPT !.pc = "install", !.msg = chan]
      BY <1>7, <2>3 DEF WkReceive
    <2> QED
      BY <1>7, <2>1, <2>2, <2>3 DEF WkReceive
  <1>8. CASE WkInstall
    BY <1>8 DEF WkInstall
  <1>9. CASE WkDisarm
    BY <1>9 DEF WkDisarm, DropInstalled, EmptySlot
  <1>10. CASE WkAuthorize
    BY <1>10 DEF WkAuthorize
  <1>11. CASE WkReady
    BY <1>11 DEF WkReady
  <1>12. CASE WkDecode
    BY <1>12 DEF WkDecode
  <1>13. CASE WkReport
    BY <1>13 DEF WkReport
  <1>14. CASE WkSettle
    <2>1. CASE /\ wk.pc = "settle" /\ wk.inst # NoToken /\ UNCHANGED prepVars
               /\ wk' = [wk EXCEPT !.pc = "release", !.inst = NoToken,
                                  !.published = FALSE]
               /\ slot' = [EmptySlot EXCEPT !.free = FALSE]
      BY <2>1 DEF EmptySlot
    <2>2. CASE wk' = [wk EXCEPT !.pc = "top"] /\ UNCHANGED <<slot, receipt>>
      BY <1>14, <2>2 DEF WkSettle, EmptySlot
    <2> QED
      BY <1>14, <2>1, <2>2 DEF WkSettle
  <1>15. CASE WkRelease
    BY <1>15 DEF WkRelease
  <1>16. CASE UNCHANGED <<prepVars, wk, slot>>
    BY <1>16
  <1>17. OwnerNext => UNCHANGED <<prepVars, wk, slot>>
    BY DEF OwnerNext, OwnerTurn, OwnerEvent, EditBegin, EditFence, EditWrite,
           PauseBegin, PauseGate, PauseFreeze, PauseEnd, Resume, Supersede
  <1>18. CbNext \/ DevicePlays \/ WkExit => UNCHANGED <<prepVars, wk, slot>>
    BY DEF CbNext, CbEnter, CbClaim, CbRecord, DevicePlays, WkExit
  <1>19. UNCHANGED vars => UNCHANGED <<prepVars, wk, slot>>
    BY DEF vars
  <1> HIDE DEF Custody, TypeWk, TypeSlot, TypeCo, TypeChan, prepVars, workerVars
  <1> QED
    BY <1>1, <1>2, <1>3, <1>4, <1>5, <1>6, <1>7, <1>8, <1>9, <1>10, <1>11,
       <1>12, <1>13, <1>14, <1>15, <1>16, <1>17, <1>18, <1>19
       DEF Next, CoNext, WkNext

(* Once given up, a pipeline is never in use again.                         *)
LEMMA UseStep ==
  ASSUME TypeOK, [Next]_vars, InUse'
  PROVE  InUse
  <1> USE DEF InUse, Running, Cancelled, pipeVars, ownerVars
  <1>1. CASE OwnerNext
    BY <1>1 DEF OwnerNext, OwnerTurn, OwnerEvent, EditBegin, EditFence, EditWrite,
           PauseBegin, PauseGate, PauseFreeze, PauseEnd, Resume, Supersede,
           ReconcilePresented, Adopts, KeepQueue
  <1>2. CASE CoNext
    BY <1>2 DEF CoNext, CoTicket, CoCandidate, CoAdmit, CoFetch, CoSend
  <1>3. CASE WkNext
    BY <1>3 DEF WkNext, WkRetire, WkReceive, WkInstall, WkDisarm, WkAuthorize,
           WkReady, WkDecode, WkReport, WkSettle, WkRelease, WkExit
  <1>4. CASE CbNext \/ DevicePlays
    BY <1>4 DEF CbNext, CbEnter, CbClaim, CbRecord, DevicePlays
  <1>5. CASE UNCHANGED vars
    BY <1>5 DEF vars
  <1> QED
    BY <1>1, <1>2, <1>3, <1>4, <1>5 DEF Next

(* The owner adopts the boundary the receipt reports: its predecessor is    *)
(* the current track.                                                       *)
Advanced ==
  /\ Presented /\ receipt.pending.pred = cur
  /\ \E n \in 1..Len(upcoming) :
       /\ upcoming[n] = receipt.pending.succ
       /\ cur' = receipt.pending.succ
       /\ upcoming' = SubSeq(upcoming, n + 1, Len(upcoming))
  /\ receipt' = [receipt EXCEPT !.adopted = TRUE]

(* A step of the owner that leaves the pipeline in use and may adopt.       *)
Turns ==
  /\ Advanced \/ UNCHANGED <<cur, upcoming, receipt>>
  /\ UNCHANGED <<prepVars, hearVars, rev, fence, wk, slot>>
  /\ event' \in {event, NoToken}
  /\ owner' # "writing" /\ Fresh <= Fresh'

LEMMA TurnsStep ==
  ASSUME TypeOK, Safe, InUse, InUse',
         OwnerTurn \/ OwnerEvent \/ EditBegin \/ PauseBegin \/ PauseEnd
  PROVE  Turns
  <1> DEFINE Quiet == UNCHANGED <<cur, upcoming, receipt>>
  <1>1. ASSUME ReconcilePresented PROVE Advanced \/ Quiet
    BY <1>1 DEF InUse, ReconcilePresented, Adoptable, Adopts, KeepQueue, Advanced
  <1>2. ASSUME OwnerEvent PROVE Advanced \/ Quiet
    <2>1. CASE KeepQueue
      BY <2>1 DEF KeepQueue
    <2>2. CASE event # NoToken /\ Adoptable(event, event.ctl) /\ Adopts(event)
      <3>1. event.pred = cur
        BY <2>2 DEF Adoptable
      <3>2. Presented /\ event.pred = receipt.pending.pred /\ event.succ = receipt.pending.succ
        BY <2>2, <3>1 DEF Safe, EventOK
      <3> QED
        BY <2>2, <3>1, <3>2 DEF InUse, Adopts, Advanced
    <2> QED
      BY <1>2, <2>1, <2>2 DEF OwnerEvent
  <1>3. edits \in Nat
    BY DEF TypeOK, TypeOwner
  <1>4. CASE OwnerTurn
    <2>1. UNCHANGED <<prepVars, hearVars, rev, fence, wk, slot, event, owner, edits>>
      BY <1>4 DEF OwnerTurn
    <2> QED
      BY <1>1, <1>3, <1>4, <2>1 DEF OwnerTurn, Turns, Fresh
  <1>5. CASE OwnerEvent
    BY <1>2, <1>3, <1>5 DEF OwnerEvent, Turns, Fresh
  <1>6. CASE EditBegin
    <2>1. owner = "free" /\ owner' = "fencing" /\ edits' = edits + 1
      BY <1>6 DEF EditBegin, InUse
    <2>2. Fresh <= Fresh'
      BY <1>3, <2>1 DEF Fresh
    <2> QED
      BY <1>1, <1>6, <2>1, <2>2 DEF EditBegin, Turns
  <1>7. CASE PauseBegin
    <2>1. owner = "free" /\ owner' = "pausing" /\ edits' = edits
      BY <1>7 DEF PauseBegin, InUse
    <2>2. Fresh <= Fresh'
      BY <1>3, <2>1 DEF Fresh
    <2> QED
      BY <1>1, <1>7, <2>1, <2>2 DEF PauseBegin, Turns
  <1>8. CASE PauseEnd
    BY <1>1, <1>3, <1>8 DEF PauseEnd, Turns, Fresh
  <1> QED
    BY <1>4, <1>5, <1>6, <1>7, <1>8

(* Every other step of the owner but the two of an edit.                    *)
LEMMA PausesStep ==
  ASSUME TypeOK, InUse', PauseGate \/ PauseFreeze \/ Resume
  PROVE  /\ UNCHANGED <<queueVars, workerVars, prepVars, hearVars, fence, event, edits>>
         /\ owner' # "writing" /\ Fresh <= Fresh'
  <1>1. edits \in Nat
    BY DEF TypeOK, TypeOwner
  <1>2. CASE PauseGate
    BY <1>1, <1>2 DEF PauseGate, Fresh
  <1>3. CASE PauseFreeze
    <2>1. UNCHANGED receipt
      BY <1>3 DEF PauseFreeze, InUse, Running, Cancelled
    <2> QED
      BY <1>1, <1>3, <2>1 DEF PauseFreeze, Fresh, workerVars
  <1>4. CASE Resume
    BY <1>1, <1>4 DEF Resume, Fresh
  <1> QED
    BY <1>2, <1>3, <1>4

Pauses ==
  /\ UNCHANGED <<queueVars, workerVars, prepVars, hearVars, fence, event, edits>>
  /\ owner' # "writing" /\ Fresh <= Fresh'

(* The steps that matter while the pipeline stays in use.                   *)
LEMMA StepCases ==
  ASSUME TypeOK, Safe, [Next]_vars, InUse'
  PROVE  \/ Turns \/ Pauses
         \/ EditFence \/ EditWrite
         \/ CoNext \/ WkNext \/ CbNext \/ DevicePlays \/ UNCHANGED vars
  <1>1. InUse
    BY UseStep
  <1>2. ~Supersede
    BY DEF Supersede, InUse
  <1>3. ASSUME PauseGate \/ PauseFreeze \/ Resume PROVE Pauses
    BY <1>3, PausesStep DEF Pauses
  <1>4. ASSUME OwnerTurn \/ OwnerEvent \/ EditBegin \/ PauseBegin \/ PauseEnd PROVE Turns
    BY <1>1, <1>4, TurnsStep
  <1> QED
    BY <1>2, <1>3, <1>4 DEF Next, OwnerNext

(* The other threads leave the queue and the owner alone.                   *)
LEMMA OthersStep ==
  ASSUME CoNext \/ WkNext \/ CbNext \/ DevicePlays \/ UNCHANGED vars
  PROVE  UNCHANGED <<cur, upcoming, rev, owner, edits, ctl>>
  <1> USE DEF queueVars, ownerVars
  <1>1. CASE CoNext
    BY <1>1 DEF CoNext, CoTicket, CoCandidate, CoAdmit, CoFetch, CoSend
  <1>2. CASE WkNext
    BY <1>2 DEF WkNext, WkRetire, WkReceive, WkInstall, WkDisarm, WkAuthorize,
           WkReady, WkDecode, WkReport, WkSettle, WkRelease, WkExit
  <1>3. CASE CbNext \/ DevicePlays
    BY <1>3 DEF CbNext, CbEnter, CbClaim, CbRecord, DevicePlays
  <1>4. CASE UNCHANGED vars
    BY <1>4 DEF vars
  <1> QED
    BY <1>1, <1>2, <1>3, <1>4

(* The two steps of an edit.                                                *)
LEMMA EditFenceStep ==
  ASSUME TypeOK, InUse, EditFence
  PROVE  /\ UNCHANGED <<queueVars, workerVars, prepVars, hearVars, event, edits>>
         /\ Fresh <= Fresh'
         /\ \/ owner' = "free" /\ UNCHANGED fence
            \/ owner' = "writing" /\ fence.mark # "claimed" /\ fence' = Revoked(fence)
  <1>1. edits \in Nat
    BY DEF TypeOK, TypeOwner
  <1>2. /\ UNCHANGED <<queueVars, workerVars, prepVars, hearVars, event, edits>>
        /\ owner = "fencing"
    BY DEF EditFence
  <1>3. \/ owner' = "free" /\ UNCHANGED fence
        \/ owner' = "writing" /\ fence.mark # "claimed" /\ fence' = Revoked(fence)
    BY DEF EditFence, Revocable, InUse, Running, Alive
  <1>4. Fresh <= Fresh'
    BY <1>1, <1>2, <1>3 DEF Fresh
  <1> QED
    BY <1>2, <1>3, <1>4

LEMMA EditWriteStep ==
  ASSUME TypeOK, EditWrite
  PROVE  /\ UNCHANGED <<cur, workerVars, prepVars, hearVars, event, edits, fence>>
         /\ owner = "writing" /\ owner' = "free"
         /\ edits \in Nat /\ Fresh = 3 + edits /\ Fresh' = 4 + edits
         /\ upcoming' \in Edited(upcoming) \/ UNCHANGED <<upcoming, rev>>
  <1>1. edits \in Nat
    BY DEF TypeOK, TypeOwner
  <1>2. /\ UNCHANGED <<cur, workerVars, prepVars, hearVars, event, edits, fence>>
        /\ owner = "writing" /\ owner' = "free"
    BY DEF EditWrite
  <1>3. upcoming' \in Edited(upcoming) \/ UNCHANGED <<upcoming, rev>>
    BY DEF EditWrite
  <1>4. Fresh = 3 + edits /\ Fresh' = 4 + edits
    BY <1>1, <1>2 DEF Fresh
  <1> QED
    BY <1>1, <1>2, <1>3, <1>4

LEMMA QueueStep ==
  ASSUME TypeOK, Safe, [Next]_vars, InUse'
  PROVE  QueueOK'
  <1>1. /\ cur \in Nat /\ upcoming \in Seq(Nat) /\ edits \in Nat /\ cur < Fresh
        /\ \A n \in 1..Len(upcoming) : upcoming[n] # cur /\ upcoming[n] < Fresh
        /\ Distinct(upcoming)
    BY DEF TypeOK, TypeQueue, TypeOwner, Safe, QueueOK
  <1>2. Fresh \in Nat
    BY <1>1 DEF Fresh
  <1>3. Fresh' \in Nat
    BY TypeStep DEF Fresh, TypeOK, TypeOwner
  <1>4. ASSUME UNCHANGED <<cur, upcoming>>, Fresh <= Fresh' PROVE QueueOK'
    BY <1>1, <1>2, <1>3, <1>4 DEF QueueOK, Distinct
  <1>5. CASE Turns
    <2>1. ASSUME Advanced PROVE QueueOK'
      <3>1. PICK n \in 1..Len(upcoming) :
              /\ cur' = upcoming[n]
              /\ upcoming' = SubSeq(upcoming, n + 1, Len(upcoming))
        BY <2>1 DEF Advanced
      <3>2. /\ Len(upcoming') = Len(upcoming) - n
            /\ \A i \in 1..(Len(upcoming) - n) : upcoming'[i] = upcoming[i + n]
        BY <1>1, <3>1
      <3>3. cur' < Fresh'
        BY <1>1, <1>2, <1>3, <1>5, <3>1 DEF Turns
      <3>4. ASSUME NEW i \in 1..Len(upcoming')
            PROVE  upcoming'[i] # cur' /\ upcoming'[i] < Fresh'
        <4>1. i + n \in 1..Len(upcoming) /\ i + n # n /\ upcoming'[i] = upcoming[i + n]
          BY <1>1, <3>2
        <4>2. upcoming[i + n] # upcoming[n]
          BY <4>1 , <1>1 DEF Distinct
        <4>3. Fresh <= Fresh' /\ upcoming[i + n] \in Nat /\ upcoming[i + n] < Fresh
          BY <1>1, <1>5, <4>1 DEF Turns
        <4>4. cur' = upcoming[n]
          BY <3>1
        <4> QED
          BY ONLY <1>2, <1>3, <4>1, <4>2, <4>3, <4>4
      <3>5. Distinct(upcoming')
        <4>1. ASSUME NEW i \in 1..Len(upcoming'), NEW j \in 1..Len(upcoming'), i # j
              PROVE  upcoming'[i] # upcoming'[j]
          <5>1. /\ i + n \in 1..Len(upcoming) /\ j + n \in 1..Len(upcoming) /\ i + n # j + n
                /\ upcoming'[i] = upcoming[i + n] /\ upcoming'[j] = upcoming[j + n]
            BY <1>1, <3>2, <4>1
          <5> QED
            BY <1>1, <5>1 DEF Distinct
        <4> QED
          BY <4>1 DEF Distinct
      <3> QED
        BY <3>3, <3>4, <3>5 DEF QueueOK
    <2> QED
      BY <1>4, <1>5, <2>1 DEF Turns
  <1>6. CASE EditFence
    BY <1>4, <1>6, EditFenceStep, UseStep DEF queueVars
  <1>7. CASE EditWrite
    <2>1. /\ cur' = cur /\ Fresh = 3 + edits /\ Fresh' = 4 + edits
          /\ upcoming' \in Edited(upcoming) \/ UNCHANGED upcoming
      BY <1>7, EditWriteStep
    <2>2. CASE UNCHANGED upcoming
      BY <1>1, <1>4, <2>1, <2>2
    <2>3. CASE upcoming' \in Edited(upcoming)
      <3>1. \A n \in 1..Len(upcoming) : upcoming[n] # 3 + edits
        BY <1>1, <2>1
      <3>2. /\ Distinct(upcoming')
            /\ \A n \in 1..Len(upcoming') :
                 \/ upcoming'[n] = 3 + edits
                 \/ \E m \in 1..Len(upcoming) : upcoming'[n] = upcoming[m]
        BY <1>1, <2>3, <3>1, EditedProps
      <3> QED
        BY <1>1, <2>1, <3>2, SMTT(40) DEF QueueOK
    <2> QED
      BY <2>1, <2>2, <2>3
  <1>8. CASE Pauses
    BY <1>4, <1>8 DEF Pauses, queueVars
  <1>9. CASE CoNext \/ WkNext \/ CbNext \/ DevicePlays \/ UNCHANGED vars
    <2>1. UNCHANGED <<cur, upcoming, owner, edits>>
      BY <1>9, OthersStep
    <2> QED
      BY <1>2, <1>4, <2>1 DEF Fresh
  <1> QED
    BY <1>5, <1>6, <1>7, <1>8, <1>9, StepCases

LEMMA FenceStep ==
  ASSUME TypeOK, Custody, Safe, [Next]_vars, InUse'
  PROVE  FenceOK'
  <1>0. /\ TypeWk /\ TypeReceipt /\ TypeFence /\ TypeSlot /\ FenceOK /\ InUse
    BY UseStep DEF TypeOK, Safe
  <1> USE <1>0 DEF FenceOK, TypeWk, TypeReceipt, TypeFence, TypeSlot
  <1>1. ASSUME UNCHANGED <<receipt, wk, fence, cb>>, owner' = owner \/ owner' # "writing"
        PROVE  FenceOK'
    BY <1>1
  <1>2. CASE Turns
    <2>1. CASE Advanced
      BY <1>2, <2>1 DEF Turns, Advanced, Presented, hearVars
    <2> QED
      BY <1>1, <1>2, <2>1 DEF Turns, hearVars
  <1>3. CASE EditFence
    <2>1. CASE fence' = Revoked(fence) /\ fence.mark # "claimed"
      BY <1>3, <2>1, EditFenceStep DEF Revoked, workerVars, hearVars, Custody
    <2> QED
      BY <1>1, <1>3, <2>1, EditFenceStep DEF workerVars, hearVars
  <1>4. CASE EditWrite
    BY <1>1, <1>4, EditWriteStep DEF workerVars, hearVars
  <1>5. CASE Pauses
    BY <1>1, <1>5 DEF Pauses, workerVars, hearVars
  <1>6. CASE CoNext
    BY <1>1, <1>6 DEF CoNext, CoTicket, CoCandidate, CoAdmit, CoFetch, CoSend,
                      workerVars, hearVars, ownerVars
  <1>7. CASE WkRetire
    <2>1. UNCHANGED <<cb, owner, fence>> /\ wk.pc = "top"
      BY <1>7 DEF WkRetire, hearVars, ownerVars
    <2>2. CASE /\ wk.inst # NoToken /\ wk.inst.epoch # fence.epoch
               /\ receipt' = NoReceipt
               /\ wk' = [wk EXCEPT !.pc = "receive", !.inst = NoToken]
      BY <2>1, <2>2 DEF NoReceipt
    <2>3. CASE wk' = [wk EXCEPT !.pc = "receive"] /\ UNCHANGED receipt
      BY <2>1, <2>3
    <2> QED
      BY <1>7, <2>2, <2>3 DEF WkRetire, DropInstalled
  <1>8. CASE WkReceive
    BY <1>8 DEF WkReceive, hearVars, ownerVars
  <1>9. CASE WkInstall
    BY <1>9 DEF WkInstall, hearVars, ownerVars, Custody
  <1>10. CASE WkDisarm
    BY <1>10 DEF WkDisarm, DropInstalled, NoReceipt, Disarmable, Disarmed,
                 hearVars, ownerVars
  <1>11. CASE WkAuthorize
    BY <1>11 DEF WkAuthorize, Authorized, hearVars, ownerVars
  <1>12. CASE WkReady \/ WkDecode \/ WkReport
    <2>1. CASE WkReady
      BY <2>1 DEF WkReady, hearVars, ownerVars
    <2>2. CASE WkDecode
      BY <2>2 DEF WkDecode, hearVars, ownerVars
    <2>3. CASE WkReport
      BY <2>3 DEF WkReport, hearVars, ownerVars
    <2> QED
      BY <1>12, <2>1, <2>2, <2>3
  <1>13. CASE WkSettle
    <2>1. UNCHANGED <<cb, owner, fence>> /\ wk.pc = "settle"
      BY <1>13 DEF WkSettle, hearVars, ownerVars
    <2>2. CASE /\ receipt.adopted /\ receipt' = NoReceipt
               /\ wk' = [wk EXCEPT !.pc = "release", !.inst = NoToken,
                                  !.published = FALSE]
      BY <2>1, <2>2 DEF NoReceipt
    <2>3. CASE wk' = [wk EXCEPT !.pc = "top"] /\ UNCHANGED receipt
      BY <2>1, <2>3
    <2> QED
      BY <1>13, <2>2, <2>3 DEF WkSettle
  <1>14. CASE WkRelease
    BY <1>14 DEF WkRelease, AdoptedFence, Revoked, Custody, hearVars, ownerVars
  <1>15. CASE WkExit
    BY <1>1, <1>15 DEF WkExit, workerVars, hearVars, ownerVars
  <1>16. CASE CbEnter
    BY <1>16 DEF CbEnter, workerVars, ownerVars
  <1>17. CASE CbClaim
    <2>1. UNCHANGED <<wk, receipt, owner>> /\ cb = "draining"
      BY <1>17 DEF CbClaim, workerVars, ownerVars
    <2>2. CASE /\ slot.token # NoToken /\ fence.mark = "ready"
               /\ fence' = [fence EXCEPT !.mark = "claimed"] /\ cb' = "crossed"
      <3>1. wk.inst # NoToken /\ wk.inst.epoch = fence.epoch
        BY <2>2 DEF Custody
      <3>2. ~receipt.submitted /\ owner # "writing"
        BY <2>2, <3>1 DEF Safe, TokensOK, TokenOK
      <3> QED
        BY <2>1, <2>2, <3>1, <3>2
    <2>3. CASE cb' = "idle" /\ UNCHANGED fence
      BY <2>1, <2>3
    <2> QED
      BY <1>17, <2>2, <2>3 DEF CbClaim, Claimable
  <1>18. CASE CbRecord
    BY <1>18 DEF CbRecord, ownerVars
  <1>19. CASE DevicePlays
    BY <1>19 DEF DevicePlays, ownerVars, hearVars
  <1>20. CASE UNCHANGED vars
    BY <1>1, <1>20 DEF vars, workerVars, hearVars, ownerVars
  <1> HIDE DEF FenceOK, TypeWk, TypeReceipt, TypeFence, TypeSlot
  <1> QED
    BY <1>2, <1>3, <1>4, <1>5, <1>6, <1>7, <1>8, <1>9, <1>10, <1>11, <1>12,
       <1>13, <1>14, <1>15, <1>16, <1>17, <1>18, <1>19, <1>20, StepCases
       DEF WkNext, CbNext

LEMMA HeardStep ==
  ASSUME TypeOK, Custody, Safe, [Next]_vars, InUse'
  PROVE  HeardOK'
  <1>0. /\ TypeWk /\ TypeReceipt /\ TypeFence /\ TypeSlot /\ InUse
        /\ FenceOK /\ HeardOK
    BY UseStep DEF TypeOK, Safe
  <1> USE <1>0 DEF HeardOK, TypeWk, TypeReceipt, TypeFence, TypeSlot
  <1>1. ASSUME UNCHANGED <<cur, upcoming, playing, fence, receipt, wk>>
        PROVE  HeardOK'
    BY <1>1
  <1>2. CASE Turns
    <2>1. ASSUME Advanced PROVE HeardOK'
      <3>1. /\ fence.mark = "claimed" /\ wk.inst # NoToken /\ receipt.pending = wk.inst
            /\ wk.pc # "release"
        BY <2>1 DEF Advanced, Presented, FenceOK, Custody
      <3>2. PICK n \in 1..Len(upcoming) :
              upcoming' = SubSeq(upcoming, n + 1, Len(upcoming)) /\ cur' = wk.inst.succ
        BY <2>1, <3>1 DEF Advanced
      <3>3. wk.inst.pred = cur
        BY <2>1, <3>1 DEF Advanced
      <3>4. upcoming \in Seq(Nat) /\ \A i \in 1..Len(upcoming) : upcoming[i] # cur
        BY DEF TypeOK, TypeQueue, Safe, QueueOK
      <3>5. \A i \in 1..Len(upcoming') : upcoming'[i] # cur
        <4>1. /\ Len(upcoming') = Len(upcoming) - n
              /\ \A i \in 1..(Len(upcoming) - n) : upcoming'[i] = upcoming[i + n]
          BY <3>2, <3>4
        <4>2. ASSUME NEW i \in 1..Len(upcoming') PROVE upcoming'[i] # cur
          <5>1. i \in 1..(Len(upcoming) - n) /\ i + n \in 1..Len(upcoming)
            BY <3>4, <4>1
          <5> QED
            BY <3>4, <4>1, <5>1
        <4> QED
          BY <4>2
      <3> QED
        BY <1>2, <3>1, <3>2, <3>3, <3>5 DEF Turns, hearVars
    <2> QED
      BY <1>1, <1>2, <2>1 DEF Turns, hearVars
  <1>3. CASE EditFence
    <2>1. CASE fence' = Revoked(fence) /\ fence.mark # "claimed"
      BY <1>3, <2>1, EditFenceStep DEF Revoked, workerVars, hearVars, queueVars
    <2> QED
      BY <1>1, <1>3, <2>1, EditFenceStep DEF workerVars, hearVars, queueVars
  <1>4. CASE EditWrite
    BY <1>4, EditWriteStep DEF workerVars, hearVars, FenceOK
  <1>5. CASE Pauses
    BY <1>1, <1>5 DEF Pauses, workerVars, hearVars, queueVars
  <1>6. CASE CoNext
    BY <1>1, <1>6 DEF CoNext, CoTicket, CoCandidate, CoAdmit, CoFetch, CoSend,
                      workerVars, hearVars, queueVars
  <1>7. CASE WkRetire
    BY <1>7 DEF WkRetire, DropInstalled, NoReceipt, hearVars, queueVars, FenceOK
  <1>8. CASE WkReceive
    <2>1. CASE wk' = [wk EXCEPT !.pc = "run"] /\ UNCHANGED <<chan, slot>>
      BY <1>8, <2>1 DEF WkReceive, hearVars, queueVars
    <2>2. CASE /\ chan' = NoToken /\ wk' = [wk EXCEPT !.pc = "top"]
      BY <1>8, <2>2 DEF WkReceive, hearVars, queueVars
    <2>3. CASE /\ chan # NoToken /\ chan' = NoToken /\ wk.inst = NoToken
               /\ wk' = [wk EXCEPT !.pc = "install", !.msg = chan]
      BY <1>8, <2>3 DEF WkReceive, hearVars, queueVars
    <2> QED
      BY <1>8, <2>1, <2>2, <2>3 DEF WkReceive
  <1>9. CASE WkInstall
    BY <1>9 DEF WkInstall, hearVars, queueVars, Custody, FenceOK
  <1>10. CASE WkDisarm
    BY <1>10 DEF WkDisarm, DropInstalled, NoReceipt, Disarmable, Disarmed,
                 hearVars, queueVars
  <1>11. CASE WkAuthorize
    BY <1>11 DEF WkAuthorize, Authorized, hearVars, queueVars
  <1>12. CASE WkReady \/ WkDecode \/ WkReport
    <2>1. CASE WkReady
      BY <2>1 DEF WkReady, hearVars, queueVars
    <2>2. CASE WkDecode
      BY <2>2 DEF WkDecode, hearVars, queueVars
    <2>3. CASE WkReport
      <3>1. /\ wk.pc = "report" /\ UNCHANGED <<hearVars, queueVars, receipt, slot, fence>>
            /\ \/ wk' = [wk EXCEPT !.pc = "settle", !.published = TRUE]
               \/ wk' = [wk EXCEPT !.pc = "settle"]
        BY <2>3 DEF WkReport
      <3> QED
        BY <3>1, ZenonT(60) DEF hearVars, queueVars
    <2> QED
      BY <1>12, <2>1, <2>2, <2>3
  <1>13. CASE WkSettle
    <2>0. wk.pc = "settle" /\ UNCHANGED <<hearVars, queueVars, fence>>
      BY <1>13 DEF WkSettle
    <2>1. CASE /\ wk' = [wk EXCEPT !.pc = "release", !.inst = NoToken,
                                  !.published = FALSE]
               /\ wk.inst # NoToken /\ receipt.adopted /\ receipt' = NoReceipt
      BY <2>0, <2>1 DEF NoReceipt, hearVars, queueVars, FenceOK
    <2>2. CASE wk' = [wk EXCEPT !.pc = "top"] /\ UNCHANGED <<slot, receipt>>
      BY <1>13, <2>2 DEF WkSettle, NoReceipt, hearVars, queueVars, FenceOK
    <2> QED
      BY <1>13, <2>1, <2>2 DEF WkSettle
  <1>14. CASE WkRelease
    BY <1>14 DEF WkRelease, AdoptedFence, Revoked, hearVars, queueVars
  <1>15. CASE WkExit
    BY <1>1, <1>15 DEF WkExit, workerVars, hearVars, queueVars
  <1>16. CASE CbEnter
    BY <1>16 DEF CbEnter, workerVars, queueVars
  <1>17. CASE CbClaim
    BY <1>17 DEF CbClaim, Claimable, Custody, FenceOK, workerVars, queueVars
  <1>18. CASE CbRecord
    BY <1>18 DEF CbRecord, queueVars
  <1>19. CASE DevicePlays
    BY <1>19 DEF DevicePlays, queueVars, hearVars
  <1>20. CASE UNCHANGED vars
    BY <1>1, <1>20 DEF vars, workerVars, hearVars, queueVars
  <1> HIDE DEF HeardOK, TypeWk, TypeReceipt, TypeFence, TypeSlot
  <1> QED
    BY <1>2, <1>3, <1>4, <1>5, <1>6, <1>7, <1>8, <1>9, <1>10, <1>11, <1>12,
       <1>13, <1>14, <1>15, <1>16, <1>17, <1>18, <1>19, <1>20, StepCases
       DEF WkNext, CbNext

LEMMA TokensStep ==
  ASSUME TypeOK, Custody, Safe, [Next]_vars, InUse'
  PROVE  TokensOK'
  <1>0. /\ TypeWk /\ TypeCo /\ TypeChan /\ TypeFence /\ TypeReceipt /\ InUse
        /\ TokensOK /\ FenceOK /\ HeardOK /\ QueueOK
    BY UseStep DEF TypeOK, Safe
  <1>1. /\ Fresh \in Nat /\ Fresh' \in Nat /\ fence.epoch \in Nat
        /\ \A t \in Token : t.epoch \in Nat /\ t.pred \in Nat
    BY <1>0, TypeStep DEF TypeOK, TypeOwner, Fresh, TypeFence, Token
  (* A token stays good when the queue, the fence's epoch and the adoption   *)
  (* stand, and no edit starts to be written.                                *)
  <1>2. ASSUME NEW t, TokenOK(t), t \in Token, Fresh <= Fresh',
               UNCHANGED <<cur, upcoming, rev>>, fence'.epoch = fence.epoch,
               receipt'.adopted = receipt.adopted, owner' = owner \/ owner' # "writing"
        PROVE  TokenOK(t)'
    BY <1>1, <1>2 DEF TokenOK, Names
  (* One older than the fence is good whatever the queue does.               *)
  <1>3. ASSUME NEW t, TokenOK(t), t \in Token, Fresh <= Fresh', fence'.epoch \in Nat,
               t.epoch < fence'.epoch
        PROVE  TokenOK(t)'
    BY <1>1, <1>3 DEF TokenOK
  <1>4. ASSUME UNCHANGED <<wk, co, chan>>, Fresh <= Fresh',
               UNCHANGED <<cur, upcoming, rev>>, fence'.epoch = fence.epoch,
               receipt'.adopted = receipt.adopted, owner' = owner \/ owner' # "writing"
        PROVE  TokensOK'
    BY <1>0, <1>2, <1>4 DEF TokensOK, TypeWk, TypeCo, TypeChan
  <1>5. CASE Turns
    <2>1. CASE UNCHANGED <<cur, upcoming, receipt>>
      BY <1>4, <1>5, <2>1 DEF Turns, prepVars
    <2>2. CASE Advanced
      <3>1. receipt'.adopted
        BY <1>0, <2>2 DEF Advanced, TypeReceipt
      <3>2. /\ UNCHANGED <<wk, co, chan, fence>> /\ owner' # "writing"
            /\ Fresh <= Fresh'
        BY <1>5 DEF Turns, prepVars
      <3>3. ASSUME NEW t, t \in Token, TokenOK(t) PROVE TokenOK(t)'
        BY <1>1, <3>1, <3>2, <3>3 DEF TokenOK
      <3> QED
        BY <1>0, <3>2, <3>3 DEF TokensOK, TypeWk, TypeCo, TypeChan
    <2> QED
      BY <1>5, <2>1, <2>2 DEF Turns
  <1>6. CASE EditFence
    <2>1. /\ UNCHANGED <<cur, upcoming, rev, wk, co, chan, receipt>>
          /\ Fresh <= Fresh'
          /\ \/ owner' # "writing" /\ UNCHANGED fence
             \/ fence' = Revoked(fence)
      BY <1>0, <1>6, EditFenceStep DEF queueVars, workerVars, prepVars
    <2>2. CASE fence' = Revoked(fence)
      <3>1. fence'.epoch = fence.epoch + 1
        BY <2>2 DEF Revoked
      <3>2. ASSUME NEW t, t \in Token, TokenOK(t) PROVE TokenOK(t)'
        <4>1. t.epoch < fence'.epoch /\ fence'.epoch \in Nat
          BY <1>1, <3>1, <3>2 DEF TokenOK
        <4> QED
          BY <1>3, <2>1, <3>2, <4>1
      <3>3. co'.epoch <= fence'.epoch
        BY <1>0, <1>1, <2>1, <3>1 DEF TokensOK, TypeCo
      <3> QED
        BY <1>0, <2>1, <3>2, <3>3 DEF TokensOK, TypeWk, TypeCo, TypeChan
    <2> QED
      BY <1>4, <2>1, <2>2
  <1>7. CASE EditWrite
    <2>1. /\ UNCHANGED <<fence, wk, co, chan>> /\ owner = "writing"
          /\ Fresh <= Fresh'
      BY <1>7, EditWriteStep DEF workerVars, prepVars
    <2>2. ASSUME NEW t, t \in Token, TokenOK(t) PROVE TokenOK(t)'
      <3>1. t.epoch < fence'.epoch
        BY <1>1, <2>1, <2>2 DEF TokenOK
      <3> QED
        BY <1>1, <1>3, <2>1, <2>2, <3>1
    <2> QED
      BY <1>0, <2>1, <2>2 DEF TokensOK, TypeWk, TypeCo, TypeChan
  <1>8. CASE Pauses
    BY <1>4, <1>8 DEF Pauses, queueVars, workerVars, prepVars
  <1>9. CASE CoNext \/ WkNext \/ CbNext \/ DevicePlays \/ UNCHANGED vars
    <2>1. UNCHANGED <<cur, upcoming, rev, owner>> /\ Fresh <= Fresh'
      <3>1. UNCHANGED <<cur, upcoming, rev, owner, edits>>
        BY <1>9, OthersStep
      <3> QED
        BY <1>1, <3>1 DEF Fresh
    <2>2. ASSUME NEW t, t \in Token, TokenOK(t), fence'.epoch = fence.epoch,
                 receipt'.adopted = receipt.adopted
          PROVE  TokenOK(t)'
      BY <1>2, <2>1, <2>2
    <2>3. ASSUME UNCHANGED <<wk, co, chan>>, fence'.epoch = fence.epoch,
                 receipt'.adopted = receipt.adopted
          PROVE  TokensOK'
      BY <1>4, <2>1, <2>3
    <2> USE <1>0 DEF TokensOK, TypeWk, TypeCo, TypeChan, prepVars, workerVars
    <2>4. CASE CoTicket
      BY <1>1, <2>2, <2>4 DEF CoTicket
    <2>5. CASE CoCandidate
      <3>1. /\ UNCHANGED <<wk, chan, fence, receipt>> /\ owner = "free"
            /\ \/ co' = [co EXCEPT !.pc = "idle"]
               \/ \E token, key :
                    /\ upcoming # <<>>
                    /\ token = [pred |-> cur, succ |-> Head(upcoming), rev |-> rev,
                                ctl |-> ctl, epoch |-> co.epoch]
                    /\ co' = [co EXCEPT !.pc = "resolving", !.attempted = key,
                                        !.token = token]
        BY <2>5 DEF CoCandidate
      <3>2. CASE co' = [co EXCEPT !.pc = "idle"]
        BY <2>2, <3>1, <3>2
      <3>3. ASSUME NEW token, NEW key, upcoming # <<>>,
                   token = [pred |-> cur, succ |-> Head(upcoming), rev |-> rev,
                            ctl |-> ctl, epoch |-> co.epoch],
                   co' = [co EXCEPT !.pc = "resolving", !.attempted = key, !.token = token]
            PROVE  TokensOK'
        <4>1. co'.token = token /\ co'.epoch = co.epoch
          BY <3>3
        <4>2. cur < Fresh /\ Head(upcoming) # cur
          BY <3>3 DEF QueueOK, TypeOK, TypeQueue
        <4>3. TokenOK(token)'
          <5>1. /\ token.pred = cur /\ token.succ = Head(upcoming)
                /\ token.rev = rev /\ token.epoch = co.epoch
            BY <3>3
          <5>2. cur \in Nat /\ co.epoch \in Nat /\ co.epoch <= fence.epoch
            BY DEF TypeOK, TypeQueue
          <5>3. owner' # "writing" /\ fence'.epoch = fence.epoch /\ token.pred < Fresh'
            <6>1. owner' # "writing" /\ fence' = fence
              BY <2>1, <3>1
            <6>2. cur < Fresh /\ Fresh <= Fresh'
              BY <2>1, <4>2
            <6> HIDE DEF TokensOK, TypeWk, TypeCo, TypeChan
            <6> QED
              BY <1>1, <5>1, <5>2, <6>1, <6>2
          <5>4. Names(token)'
            BY <2>1, <3>3, <5>1 DEF Names
          <5> HIDE DEF TokensOK, TypeWk, TypeCo, TypeChan
          <5> QED
            BY <4>2, <5>1, <5>2, <5>3, <5>4 DEF TokenOK
        <4> QED
          BY <2>2, <3>1, <4>1, <4>3
      <3> QED
        BY <3>1, <3>2, <3>3
    <2>6. CASE CoAdmit
      BY <2>2, <2>6 DEF CoAdmit
    <2>7. CASE CoFetch
      BY <2>2, <2>7 DEF CoFetch
    <2>8. CASE CoSend
      BY <2>2, <2>8 DEF CoSend
    <2>9. ASSUME co'.token = NoToken, chan' = NoToken, wk'.msg = NoToken,
                 wk'.inst = NoToken, co'.epoch <= fence'.epoch
          PROVE  TokensOK'
      BY <2>9
    <2>10. CASE WkRetire
      <3>1. /\ UNCHANGED <<co, chan, fence>>
            /\ \/ wk' = [wk EXCEPT !.pc = "receive"] /\ UNCHANGED receipt
               \/ wk.inst # NoToken /\ wk' = [wk EXCEPT !.pc = "receive", !.inst = NoToken]
        BY <2>10 DEF WkRetire
      <3>2. CASE wk' = [wk EXCEPT !.pc = "receive"] /\ UNCHANGED receipt
        BY <2>2, <3>1, <3>2
      <3>3. CASE wk.inst # NoToken /\ wk' = [wk EXCEPT !.pc = "receive", !.inst = NoToken]
        BY <2>9, <3>1, <3>3 DEF Custody
      <3> QED
        BY <3>1, <3>2, <3>3
    <2>11. CASE WkReceive
      BY <2>2, <2>11 DEF WkReceive
    <2>12. CASE WkInstall
      BY <2>2, <2>12 DEF WkInstall, TypeReceipt
    <2>13. CASE WkDisarm
      <3>1. /\ UNCHANGED <<co, chan>> /\ wk.inst # NoToken
            /\ wk' = [wk EXCEPT !.pc = "report", !.inst = NoToken]
            /\ fence'.epoch = fence.epoch
        BY <2>13 DEF WkDisarm, Disarmed, TypeFence
      <3> QED
        BY <2>9, <3>1 DEF Custody
    <2>14. CASE WkAuthorize
      <3>1. fence'.epoch = fence.epoch
        BY <2>14 DEF WkAuthorize, Authorized, TypeFence
      <3> QED
        BY <2>2, <2>14, <3>1 DEF WkAuthorize
    <2>15. CASE WkReady \/ WkDecode \/ WkReport
      BY <2>2, <2>15 DEF WkReady, WkDecode, WkReport
    <2>16. CASE WkSettle
      <3>1. /\ UNCHANGED <<co, chan, fence>>
            /\ \/ wk' = [wk EXCEPT !.pc = "top"] /\ UNCHANGED receipt
               \/ /\ wk.inst # NoToken
                  /\ wk' = [wk EXCEPT !.pc = "release", !.inst = NoToken,
                                     !.published = FALSE]
        BY <2>16 DEF WkSettle
      <3>2. CASE wk' = [wk EXCEPT !.pc = "top"] /\ UNCHANGED receipt
        BY <2>2, <3>1, <3>2
      <3>3. CASE /\ wk.inst # NoToken
                 /\ wk' = [wk EXCEPT !.pc = "release", !.inst = NoToken,
                                    !.published = FALSE]
        BY <2>9, <3>1, <3>3 DEF Custody
      <3> QED
        BY <3>1, <3>2, <3>3
    <2>17. CASE WkRelease
      <3>1. /\ UNCHANGED <<co, chan, receipt>> /\ wk.pc = "release"
            /\ wk' = [wk EXCEPT !.pc = "top"]
            /\ fence'.epoch = fence.epoch + 1
        BY <2>17 DEF WkRelease, AdoptedFence, Revoked, FenceOK
      <3>2. co.token = NoToken /\ chan = NoToken /\ wk.msg = NoToken /\ wk.inst = NoToken
        BY <3>1 DEF Custody
      <3>3. co'.epoch <= fence'.epoch
        BY <1>1, <3>1
      <3> QED
        BY <2>9, <3>1, <3>2, <3>3
    <2>18. CASE WkExit
      BY <2>3, <2>18 DEF WkExit
    <2>19. CASE CbNext
      <3>1. /\ UNCHANGED <<wk, co, chan>> /\ fence'.epoch = fence.epoch
            /\ receipt'.adopted = receipt.adopted
        BY <2>19 DEF CbNext, CbEnter, CbClaim, CbRecord, TypeFence, TypeReceipt
      <3> QED
        BY <2>3, <3>1
    <2>20. CASE DevicePlays
      BY <2>3, <2>20 DEF DevicePlays, TypeReceipt
    <2>21. CASE UNCHANGED vars
      BY <2>3, <2>21 DEF vars
    <2> HIDE DEF TokensOK
    <2> QED
      BY <1>9, <2>4, <2>5, <2>6, <2>7, <2>8, <2>10, <2>11, <2>12, <2>13, <2>14,
         <2>15, <2>16, <2>17, <2>18, <2>19, <2>20, <2>21 DEF CoNext, WkNext
  <1> QED
    BY <1>5, <1>6, <1>7, <1>8, <1>9, StepCases

LEMMA EventStep ==
  ASSUME TypeOK, Custody, Safe, [Next]_vars, InUse'
  PROVE  EventOK'
  <1>0. /\ TypeWk /\ TypeReceipt /\ TypeFence /\ TypeEvent /\ InUse
        /\ EventOK /\ FenceOK /\ HeardOK /\ QueueOK /\ TokensOK
    BY UseStep DEF TypeOK, Safe
  <1>1. /\ Fresh \in Nat /\ Fresh' \in Nat
        /\ \A t \in Token : t.pred \in Nat
    BY <1>0, TypeStep DEF TypeOK, TypeOwner, Fresh, Token
  <1>2. event # NoToken => event.pred < Fresh /\ event.pred \in Nat
    BY <1>0, <1>1 DEF EventOK, TypeEvent
  <1> DEFINE Repeats == /\ Presented
                        /\ event.pred = receipt.pending.pred
                        /\ event.succ = receipt.pending.succ
             Gone == event.pred # cur /\ \A n \in 1..Len(upcoming) : upcoming[n] # event.pred
  <1>3. ASSUME event' = event, Fresh <= Fresh',
               event # NoToken /\ Repeats => Repeats' \/ Gone',
               event # NoToken /\ Gone => Gone'
        PROVE  EventOK'
    BY <1>0, <1>1, <1>2, <1>3 DEF EventOK
  <1>4. ASSUME event' = event, Fresh <= Fresh', UNCHANGED <<cur, upcoming>>,
               Presented => Presented' /\ receipt'.pending = receipt.pending
        PROVE  EventOK'
    <2>1. Gone => Gone'
      BY <1>4
    <2>2. Repeats => Repeats'
      BY <1>4
    <2> QED
      BY <1>3, <1>4, <2>1, <2>2
  <1>5. CASE Turns
    <2>1. CASE event' = NoToken
      BY <2>1 DEF EventOK
    <2>2. CASE event' = event /\ UNCHANGED <<cur, upcoming, receipt>>
      BY <1>4, <1>5, <2>2 DEF Turns, Presented
    <2>3. CASE event' = event /\ Advanced
      <3>1. Repeats => Repeats'
        BY <1>0, <2>3 DEF Advanced, Presented, TypeReceipt
      <3>2. Gone => Gone'
        <4>1. PICK n \in 1..Len(upcoming) :
                /\ cur' = upcoming[n]
                /\ upcoming' = SubSeq(upcoming, n + 1, Len(upcoming))
          BY <2>3 DEF Advanced
        <4>2. upcoming \in Seq(Nat)
          BY DEF TypeOK, TypeQueue
        <4>3. /\ Len(upcoming') = Len(upcoming) - n
              /\ \A i \in 1..(Len(upcoming) - n) : upcoming'[i] = upcoming[i + n]
          BY <4>1, <4>2
        <4>4. ASSUME Gone, NEW i \in 1..Len(upcoming') PROVE upcoming'[i] # event'.pred
          <5>1. i \in 1..(Len(upcoming) - n) /\ i + n \in 1..Len(upcoming)
            BY <4>2, <4>3
          <5> QED
            BY <2>3, <4>3, <4>4, <5>1
        <4> QED
          BY <2>3, <4>1, <4>4
      <3> QED
        BY <1>3, <1>5, <2>3, <3>1, <3>2 DEF Turns
    <2> QED
      BY <1>5, <2>1, <2>2, <2>3 DEF Turns
  <1>6. CASE EditFence
    <2>1. UNCHANGED <<cur, upcoming, receipt, event>> /\ Fresh <= Fresh'
      BY <1>0, <1>6, EditFenceStep DEF queueVars, workerVars
    <2> QED
      BY <1>4, <2>1 DEF Presented
  <1>7. CASE EditWrite
    <2>1. /\ cur' = cur /\ event' = event /\ UNCHANGED receipt
          /\ edits \in Nat /\ Fresh = 3 + edits /\ Fresh' = 4 + edits
          /\ upcoming' \in Edited(upcoming) \/ UNCHANGED upcoming
      BY <1>7, EditWriteStep DEF workerVars
    <2>2. CASE UNCHANGED upcoming
      BY <1>4, <2>1, <2>2 DEF Presented
    <2>3. CASE upcoming' \in Edited(upcoming)
      <3>1. /\ upcoming \in Seq(Nat) /\ Distinct(upcoming)
            /\ \A n \in 1..Len(upcoming) : upcoming[n] < Fresh
        BY <1>0 DEF QueueOK, TypeOK, TypeQueue
      <3>2. \A n \in 1..Len(upcoming) : upcoming[n] # 3 + edits
        BY <2>1, <3>1
      <3>3. \A n \in 1..Len(upcoming') :
              \/ upcoming'[n] = 3 + edits
              \/ \E m \in 1..Len(upcoming) : upcoming'[n] = upcoming[m]
        BY <2>1, <2>3, <3>1, <3>2, EditedProps
      <3>4. event # NoToken /\ Gone => Gone'
        <4>1. event # NoToken => event.pred # 3 + edits
          BY <1>2, <2>1
        <4> QED
          BY <2>1, <3>3, <4>1
      <3>5. Repeats => Repeats'
        BY <2>1 DEF Presented
      <3> QED
        BY <1>3, <2>1, <3>4, <3>5
    <2> QED
      BY <2>1, <2>2, <2>3
  <1>8. CASE Pauses
    BY <1>4, <1>8 DEF Pauses, queueVars, workerVars, Presented
  <1>9. CASE CoNext \/ WkNext \/ CbNext \/ DevicePlays \/ UNCHANGED vars
    <2>1. UNCHANGED <<cur, upcoming>> /\ Fresh <= Fresh'
      <3>1. UNCHANGED <<cur, upcoming, owner, edits>>
        BY <1>9, OthersStep
      <3> QED
        BY <1>1, <3>1 DEF Fresh
    <2>2. ASSUME event' = event,
                 Presented => Presented' /\ receipt'.pending = receipt.pending
          PROVE  EventOK'
      BY <1>4, <2>1, <2>2
    <2>3. CASE CoNext
      BY <2>2, <2>3 DEF CoNext, CoTicket, CoCandidate, CoAdmit, CoFetch, CoSend,
                        workerVars, Presented
    <2>4. CASE WkRetire
      <3>1. event' = event /\ wk.pc = "top"
        BY <2>4 DEF WkRetire
      <3>2. Presented => wk.inst # NoToken /\ wk.inst.epoch = fence.epoch
        BY <1>0, <3>1 DEF FenceOK, Presented
      <3>3. Presented => UNCHANGED receipt
        BY <2>4, <3>2 DEF WkRetire
      <3> QED
        BY <2>2, <3>1, <3>3 DEF Presented
    <2>5. CASE WkInstall
      <3>1. event' = event /\ wk.pc = "install"
        BY <2>5 DEF WkInstall
      <3>2. ~Presented
        BY <1>0, <3>1 DEF Custody, FenceOK, Presented
      <3> QED
        BY <2>2, <3>1, <3>2
    <2>6. CASE WkDisarm
      <3>1. event' = event /\ fence.mark # "claimed"
        BY <2>6 DEF WkDisarm, Disarmable
      <3>2. ~Presented
        BY <1>0, <3>1 DEF FenceOK, Presented
      <3> QED
        BY <2>2, <3>1, <3>2
    <2>7. CASE WkReceive \/ WkAuthorize \/ WkReady \/ WkDecode \/ WkRelease \/ WkExit
      BY <2>2, <2>7 DEF WkReceive, WkAuthorize, WkReady, WkDecode, WkRelease, WkExit,
                        workerVars, Presented
    <2>8. CASE WkReport
      <3>1. CASE event' = event
        BY <2>2, <2>8, <3>1 DEF WkReport, Presented
      <3>2. CASE Presented /\ event' = [receipt.pending EXCEPT !.ctl = ctl]
        <4>1. UNCHANGED receipt /\ receipt.pending = wk.inst /\ wk.inst # NoToken
              /\ wk.inst \in Token
          BY <1>0, <2>8, <3>2 DEF WkReport, FenceOK, Presented, TypeWk
        <4>2. event'.pred = wk.inst.pred /\ event'.succ = wk.inst.succ
          BY <3>2, <4>1 DEF Token
        <4>3. event'.pred < Fresh'
          BY <1>0, <1>1, <2>1, <4>1, <4>2 DEF TokensOK, TokenOK
        <4> QED
          BY <3>2, <4>1, <4>2, <4>3 DEF EventOK, Presented
      <3> QED
        BY <2>8, <3>1, <3>2 DEF WkReport
    <2>9. CASE WkSettle
      <3>1. event' = event /\ wk.pc = "settle"
        BY <2>9 DEF WkSettle
      <3>2. CASE UNCHANGED receipt
        BY <2>2, <3>1, <3>2 DEF Presented
      <3>3. CASE receipt.adopted
        <4>1. /\ playing = cur /\ playing = wk.inst.succ
              /\ \A n \in 1..Len(upcoming) : upcoming[n] # wk.inst.pred
              /\ receipt.pending = wk.inst /\ wk.inst # NoToken
          BY <1>0, <3>1, <3>3 DEF HeardOK, FenceOK
        <4>2. wk.inst.pred # wk.inst.succ
          BY <1>0, <4>1 DEF TokensOK, TokenOK
        <4>3. Repeats => Gone'
          BY <2>1, <3>1, <4>1, <4>2
        <4>4. Gone => Gone'
          BY <2>1, <3>1
        <4> QED
          BY <1>3, <2>1, <3>1, <4>3, <4>4
      <3> QED
        BY <2>9, <3>2, <3>3 DEF WkSettle
    <2>10. CASE CbNext
      <3>1. event' = event /\ (UNCHANGED receipt \/ receipt' = [receipt EXCEPT !.submitted = TRUE])
        BY <2>10 DEF CbNext, CbEnter, CbClaim, CbRecord, workerVars
      <3> QED
        BY <1>0, <2>2, <3>1 DEF Presented, TypeReceipt
    <2>11. CASE DevicePlays
      BY <1>0, <2>2, <2>11 DEF DevicePlays, Presented, TypeReceipt
    <2>12. CASE UNCHANGED vars
      BY <2>2, <2>12 DEF vars, workerVars, Presented
    <2> QED
      BY <1>9, <2>3, <2>4, <2>5, <2>6, <2>7, <2>8, <2>9, <2>10, <2>11, <2>12 DEF WkNext
  <1> QED
    BY <1>5, <1>6, <1>7, <1>8, <1>9, StepCases

-----------------------------------------------------------------------------
LEMMA OwnerStep ==
  ASSUME TypeOK, OwnerOK, [Next]_vars
  PROVE  OwnerOK'
  <1> USE DEF OwnerOK, ownerVars
  <1>1. CASE OwnerNext
    BY <1>1 DEF OwnerNext, OwnerTurn, OwnerEvent, EditBegin, EditFence, EditWrite,
           PauseBegin, PauseGate, PauseFreeze, PauseEnd, Resume, Supersede
  <1>2. CASE CoNext
    BY <1>2 DEF CoNext, CoTicket, CoCandidate, CoAdmit, CoFetch, CoSend
  <1>3. CASE WkNext
    BY <1>3 DEF WkNext, WkRetire, WkReceive, WkInstall, WkDisarm, WkAuthorize,
           WkReady, WkDecode, WkReport, WkSettle, WkRelease, WkExit
  <1>4. CASE CbNext \/ DevicePlays
    BY <1>4 DEF CbNext, CbEnter, CbClaim, CbRecord, DevicePlays
  <1>5. CASE UNCHANGED vars
    BY <1>5 DEF vars
  <1> QED
    BY <1>1, <1>2, <1>3, <1>4, <1>5 DEF Next

LEMMA InitIInv == Init => IInv
  <1> SUFFICES ASSUME Init PROVE IInv
    OBVIOUS
  <1> USE DEF Init, NoReceipt, NoPrep, EmptySlot
  <1>1. TypeOK
    BY TokenAssumption DEF TypeOK, TypeQueue, TypeOwner, TypePipe, TypeFence, TypeEvent, TypeWk,
           TypeSlot, TypeReceipt, TypeCo, TypeChan, TypeHear
  <1>2. Custody
    BY DEF Custody
  <1>3. QueueOK
    BY DEF QueueOK, Fresh, Distinct
  <1>4. TokensOK /\ FenceOK /\ HeardOK /\ EventOK
    BY DEF TokensOK, FenceOK, HeardOK, EventOK
  <1> QED
    BY <1>1, <1>2, <1>3, <1>4 DEF IInv, Safe, OwnerOK

LEMMA StepIInv == IInv /\ [Next]_vars => IInv'
  <1> SUFFICES ASSUME IInv, [Next]_vars PROVE IInv'
    OBVIOUS
  <1>1. TypeOK /\ OwnerOK /\ Custody
    BY DEF IInv
  <1>2. TypeOK' /\ OwnerOK' /\ Custody'
    BY <1>1, TypeStep, OwnerStep, CustodyStep
  <1>3. ASSUME InUse' PROVE Safe'
    <2>1. Safe
      BY <1>1, <1>3, UseStep DEF IInv
    <2> QED
      BY <1>1, <1>3, <2>1, QueueStep, TokensStep, FenceStep, HeardStep, EventStep DEF Safe
  <1> QED
    BY <1>2, <1>3 DEF IInv

(* Every reachable state satisfies the inductive invariant.                 *)
LEMMA Invariance == Spec => []IInv
  BY InitIInv, StepIInv, PTL DEF Spec

(* The model's values keep their types (TypeOK), in every state of every    *)
(* run: no thread is left between two places of the code.                   *)
THEOREM TypeCorrect == Spec => []TypeOK
  <1>1. IInv => TypeOK
    BY DEF IInv
  <1> QED
    BY <1>1, Invariance, PTL

(* While a pipeline is in use the listener hears the queue's current track, *)
(* or the one it promised next (render, BoundaryPcmConsumer).               *)
THEOREM HeardSafe == Spec => []HeardIsQueued
  <1>1. IInv => HeardIsQueued
    <2> SUFFICES ASSUME IInv, InUse
                 PROVE  \/ playing = cur
                        \/ fence.mark = "claimed" /\ upcoming # <<>> /\ playing = Head(upcoming)
      BY DEF HeardIsQueued, InUse
    <2>1. FenceOK /\ HeardOK /\ TokensOK
      BY DEF IInv, Safe
    <2> QED
      BY <2>1 DEF FenceOK, HeardOK, TokensOK, TokenOK, Names
  <1> QED
    BY <1>1, Invariance, PTL

(* Between the fence's revocation and the durable write of an edit no       *)
(* boundary is claimed (fence_successor_for_edit).                          *)
THEOREM EditSafe == Spec => []EditExcludesBoundary
  <1>1. IInv => EditExcludesBoundary
    BY DEF IInv, Safe, FenceOK, OwnerOK, InUse, EditExcludesBoundary
  <1> QED
    BY <1>1, Invariance, PTL

(* The slot is never offered to the coordinator while a preparation is      *)
(* queued, held or installed (SuccessorTicket's busy flag).                 *)
THEOREM OneAtATime == Spec => []OnePreparation
  <1>1. IInv => OnePreparation
    BY DEF IInv, Custody, OnePreparation
  <1> QED
    BY <1>1, Invariance, PTL


-----------------------------------------------------------------------------
(* REFINEMENT of GaplessQueue.                                              *)

LEMMA RefinedInit == Init => Gapless!Init
  BY DEF Init, Gapless!Init, Over, Running

LEMMA RefinedStep ==
  ASSUME IInv, [Next]_vars
  PROVE  [Gapless!Next]_(Gapless!vars)
  <1>1. /\ TypeOK /\ Custody /\ TypeOK' /\ IInv'
        /\ cur \in Nat /\ cur' \in Nat /\ upcoming \in Seq(Nat) /\ upcoming' \in Seq(Nat)
    BY StepIInv DEF IInv, TypeOK, TypeQueue
  <1>2. CASE Over'
    BY <1>1, <1>2 DEF Gapless!Next, Gapless!GiveUp
  <1>3. CASE ~Over'
    <2>1. InUse' /\ InUse /\ ~Over /\ Safe /\ Safe'
      BY <1>1, <1>3, UseStep DEF IInv, InUse, Over
    <2>0. /\ gen = "current" /\ pipe = "running"
          /\ gen' = "current" /\ pipe' = "running"
      BY <2>1 DEF InUse, Running
    <2>2. QueueOK /\ TokensOK /\ FenceOK /\ HeardOK
      BY <2>1 DEF Safe
    <2>3. ASSUME UNCHANGED <<cur, upcoming, playing>> PROVE UNCHANGED Gapless!vars
      BY <2>0, <2>3 DEF Gapless!vars, Over, Running
    <2>4. CASE Turns
      <3>1. CASE UNCHANGED <<cur, upcoming>>
        BY <2>3, <2>4, <3>1 DEF Turns, hearVars
      <3>2. CASE Advanced
        <4>1. /\ fence.mark = "claimed" /\ wk.inst # NoToken /\ receipt.pending = wk.inst
              /\ wk.pc # "release" /\ wk.inst.pred = cur
          BY <2>2, <3>2, <1>1 DEF Advanced, Presented, FenceOK, Custody
        <4>2. playing = wk.inst.succ /\ playing # cur
          BY <2>2, <4>1 DEF HeardOK, TokensOK, TokenOK
        <4>3. upcoming # <<>> /\ wk.inst.succ = Head(upcoming)
          BY <2>2, <4>1, <4>2 DEF HeardOK, TokensOK, TokenOK, Names, FenceOK
        <4>4. PICK n \in 1..Len(upcoming) :
                /\ upcoming[n] = wk.inst.succ /\ cur' = wk.inst.succ
                /\ upcoming' = SubSeq(upcoming, n + 1, Len(upcoming))
          BY <3>2, <4>1 DEF Advanced
        <4>5. n = 1
          <5>1. 1 \in 1..Len(upcoming) /\ upcoming[1] = Head(upcoming)
            BY <1>1, <4>3
          <5> QED
            BY <2>2, <4>3, <4>4, <5>1 DEF QueueOK, Distinct
        <4>6. cur' = Head(upcoming) /\ upcoming' = Tail(upcoming) /\ playing' = cur'
          BY <1>1, <2>4, <4>2, <4>3, <4>4, <4>5, SMTT(40) DEF Turns, hearVars
        <4> QED
          BY <2>0, <4>2, <4>6 DEF Gapless!Next, Gapless!Advance, Over, Running
      <3> QED
        BY <2>4, <3>1, <3>2 DEF Turns
    <2>5. CASE EditFence
      BY <1>1, <2>1, <2>3, <2>5, EditFenceStep DEF queueVars, hearVars
    <2>6. CASE EditWrite
      <3>1. owner = "writing" /\ UNCHANGED <<cur, playing>>
        BY <1>1, <2>6, EditWriteStep DEF hearVars
      <3>2. playing = cur
        BY <2>2, <3>1 DEF HeardOK, FenceOK
      <3> QED
        BY <1>1, <2>0, <3>1, <3>2 DEF Gapless!Next, Gapless!Edit, Over, Running
    <2>7. CASE Pauses
      BY <2>3, <2>7 DEF Pauses, queueVars, hearVars
    <2>8. CASE CbClaim
      <3>1. UNCHANGED <<cur, upcoming, wk>>
        BY <2>8 DEF CbClaim, queueVars, workerVars
      <3>2. CASE UNCHANGED playing
        BY <2>3, <3>1, <3>2
      <3>3. CASE slot.token # NoToken /\ fence.mark = "ready" /\ playing' = slot.token.succ
        <4>1. /\ slot.token = wk.inst /\ wk.inst # NoToken
              /\ wk.inst.epoch = fence.epoch /\ ~receipt.adopted
          BY <1>1, <2>2, <3>3 DEF Custody, FenceOK
        <4>2. Names(wk.inst) /\ playing = cur /\ wk.inst.pred # wk.inst.succ
          BY <2>2, <3>3, <4>1 DEF TokensOK, TokenOK, HeardOK
        <4>3. upcoming # <<>> /\ playing' # cur
          BY <3>3, <4>1, <4>2 DEF Names
        <4> QED
          BY <2>0, <3>1, <4>2, <4>3 DEF Gapless!Next, Gapless!Cross, Over, Running
      <3> QED
        BY <2>8, <3>2, <3>3 DEF CbClaim, Claimable
    <2>9. CASE CoNext \/ WkNext \/ CbEnter \/ CbRecord \/ DevicePlays \/ UNCHANGED vars
      <3>1. UNCHANGED <<cur, upcoming>>
        BY <2>9, OthersStep DEF CbNext
      <3>2. UNCHANGED playing
        BY <2>9 DEF hearVars, vars, CbEnter, CbRecord, DevicePlays,
           CoNext, CoTicket, CoCandidate, CoAdmit, CoFetch, CoSend,
           WkNext, WkRetire, WkReceive, WkInstall, WkDisarm, WkAuthorize,
           WkReady, WkDecode, WkReport, WkSettle, WkRelease, WkExit
      <3> QED
        BY <2>3, <3>1, <3>2
    <2> QED
      BY <1>1, <2>1, <2>4, <2>5, <2>6, <2>7, <2>8, <2>9, StepCases DEF CbNext
  <1> QED
    BY <1>2, <1>3

(* The threads and the fence keep the promise GaplessQueue states: each of  *)
(* their steps is an edit, a crossing, an advance, a giving-up or nothing.  *)
THEOREM Refinement == Spec => KeepsGaplessPromise
  <1>1. Spec => Gapless!Init
    BY RefinedInit, PTL DEF Spec
  <1>2. IInv /\ [Next]_vars => [Gapless!Next]_(Gapless!vars)
    BY RefinedStep
  <1> QED
    BY <1>1, <1>2, Invariance, PTL DEF Spec, KeepsGaplessPromise, Gapless!Spec
=============================================================================
