---------------------------- MODULE ChecksProofs ----------------------------
(***************************************************************************)
(* That the answers of the console's scripts are believed only where they  *)
(* are true, and what is left of the slot's ownership with a test and a    *)
(* clearing that no lock keeps together: for any number of calls, of lines *)
(* under way and of lost ones.                                             *)
(*                                                                         *)
(* AnswersAreTrue speaks of the moment an answer is used.  Inductive is    *)
(* that every word a call has heard, and every line still under way for    *)
(* it, was so since its script was sent (Said), and that a call not yet    *)
(* sent has left nothing in the log or in the loader's queue from the last *)
(* use of its token (Unsent).  SlotIsKept speaks of a step.  Inductive is  *)
(* who may have the slot at all (SlotLive): the call under the lock, or a  *)
(* batch that will still test for it before it is over; and that a batch   *)
(* takes a slot for its own only once its own wait has ended (Opens).      *)
(***************************************************************************)
EXTENDS Checks, TLAPS

CallStates == [kind : Kinds, st : States]
Gives      == {"idle", "test", "clear"}

UnderLock(c) == call[c].st \in {"taken", "wait"}

\* The lock is held by the call that has its script sent or waits for its
\* answers, and by no other.
LockWaits == \A c \in Calls : UnderLock(c) <=> lock = c

\* A call that has not been sent is nowhere on the console or in its log, and
\* has no answers.
Unsent == \A c \in Calls :
            /\ call[c].st \in {"asked", "taken"} =>
                 /\ \A l \in net : l.call # c
                 /\ \A i \in 1..Len(queue) : queue[i].call # c
            /\ call[c].st = "taken" => heard[c] = {}

\* A batch knows its slot once its wait is over.
Opens == \A c \in pend : call[c].st \notin {"asked", "taken", "wait", "heard"}

\* The batch will still test for its slot, or stands before its clearing.
WillGive(c) ==
  \/ call[c].st \in {"sending", "failing"}
  \/ call[c].st = "closing" /\ (giving[c]["job"] # "idle" \/ c \in cancelled)
  \/ call[c].st = "ending" /\ giving[c]["job"] # "idle"

HasSlot(c) == /\ call[c].kind # "launch"
              /\ \/ UnderLock(c)
                 \/ Batch(c) /\ call[c].st = "heard"
                 \/ Batch(c) /\ c \in pend /\ WillGive(c)

SlotLive == slot # None => HasSlot(slot) /\ (lock # None => slot = lock)

\* The script that started the emulator is still at the head.
EmulatorQueued == loader = "emulates" => queue # <<>>

\* A word bears on the game only if the game was so since the script was sent.
Bears(c, w) == /\ w = "present" => TRUE \in seen[c]
               /\ w = "removed" => FALSE \in seen[c]

\* The call has asked for the game, and has not used its answers.
Asking(c) == Looks(c) /\ call[c].st \in {"wait", "heard"}

Said == \A c \in Calls : Asking(c) =>
          /\ disk \in seen[c]
          /\ \A w \in heard[c] : Bears(c, w)
          /\ \A l \in net : l.call = c => Bears(c, l.what)

Owners == LockWaits /\ Opens /\ SlotLive
IInv   == TypeOK /\ Owners /\ Unsent /\ EmulatorQueued /\ Said

-----------------------------------------------------------------------------

\* What a step of one call does to the calls.
LEMMA SetCall ==
  ASSUME call \in [Calls -> CallStates], NEW c \in Calls, NEW s \in States,
         Set(c, s)
  PROVE  /\ call' \in [Calls -> CallStates]
         /\ call'[c].st = s /\ call'[c].kind = call[c].kind
         /\ \A d \in Calls : d # c => call'[d] = call[d]
BY DEF CallStates, Set

\* What the end of one call does to it and to its answers.
LEMMA OverCall ==
  ASSUME TypeOK, NEW c \in Calls, Over(c)
  PROVE  /\ call' \in [Calls -> CallStates]
         /\ call'[c].st = "over"
         /\ heard' \in [Calls -> SUBSET Words]
         /\ seen' \in [Calls -> SUBSET BOOLEAN]
         /\ \A d \in Calls : d # c => /\ call'[d] = call[d]
                                      /\ heard'[d] = heard[d]
                                      /\ seen'[d] = seen[d]
<1>1. Unused \in CallStates
  BY DEF Unused, CallStates, States, Kinds
<1> QED
  BY <1>1 DEF TypeOK, Over, Unused, CallStates

LEMMA EnterCall ==
  ASSUME call \in [Calls -> CallStates], NEW c \in Calls, NEW k \in Kinds,
         Enter(c, k)
  PROVE  /\ call' \in [Calls -> CallStates]
         /\ call'[c].st = "asked"
         /\ \A d \in Calls : d # c => call'[d] = call[d]
BY DEF CallStates, Enter, States

\* What a step of one thread does to those that give slots back.
LEMMA ThreadGives ==
  ASSUME giving \in [Calls -> [Threads -> Gives]],
         NEW c \in Calls, NEW t \in Threads, NEW v \in Gives,
         giving' = [giving EXCEPT ![c][t] = v]
  PROVE  /\ giving' \in [Calls -> [Threads -> Gives]]
         /\ giving'[c][t] = v
         /\ \A d \in Calls, u \in Threads :
              d # c \/ u # t => giving'[d][u] = giving[d][u]
OBVIOUS

LEMMA JobGives ==
  ASSUME TypeOK, NEW c \in Calls, NEW s \in States, GivesBack(c, s)
  PROVE  /\ giving' \in [Calls -> [Threads -> Gives]]
         /\ giving'[c]["job"] = "test"
              \/ (giving'[c]["job"] = "idle" /\ c \in cancelled)
         /\ \A d \in Calls, u \in Threads :
              d # c \/ u # "job" => giving'[d][u] = giving[d][u]
<1>1. PICK v \in {"test"} \cup {n \in {"idle"} : c \in cancelled} :
        giving' = [giving EXCEPT ![c]["job"] = v]
  BY DEF GivesBack
<1>2. "job" \in Threads /\ v \in Gives
  BY DEF Threads, Gives
<1>3. giving \in [Calls -> [Threads -> Gives]]
  BY DEF TypeOK, Gives
<1> QED
  BY <1>1, <1>2, <1>3, ThreadGives

\* A call that fails before its script is taken.
LEMMA FailsFacts ==
  ASSUME TypeOK, NEW c \in Calls, Fails(c)
  PROVE  /\ call' \in [Calls -> CallStates]
         /\ call'[c].st \in {"failing", "over"}
         /\ giving' \in [Calls -> [Threads -> Gives]]
         /\ heard' \in [Calls -> SUBSET Words]
         /\ seen' \in [Calls -> SUBSET BOOLEAN]
         /\ \A d \in Calls : d # c => /\ call'[d] = call[d]
                                      /\ giving'[d]["job"] = giving[d]["job"]
                                      /\ heard'[d] = heard[d]
                                      /\ seen'[d] = seen[d]
<1>1. CASE Batch(c)
  <2>1. GivesBack(c, "failing") /\ UNCHANGED <<heard, seen>> /\ "failing" \in States
    BY <1>1 DEF Fails, States
  <2>2. Set(c, "failing") /\ call \in [Calls -> CallStates]
    BY <2>1 DEF GivesBack, TypeOK, CallStates
  <2>3. "job" \in Threads
    BY DEF Threads
  <2> QED
    BY <2>1, <2>2, <2>3, SetCall, JobGives DEF TypeOK
<1>2. CASE ~Batch(c)
  BY <1>2, OverCall DEF Fails, TypeOK, Gives
<1> QED
  BY <1>1, <1>2

\* The loader takes a script behind the others.
LEMMA QueueGrows ==
  ASSUME NEW S, queue \in Seq(S), NEW s \in S, queue' = Append(queue, s)
  PROVE  /\ queue' \in Seq(S) /\ queue' # <<>>
         /\ \A i \in 1..Len(queue') :
              queue'[i] = s \/ (i \in 1..Len(queue) /\ queue'[i] = queue[i])
OBVIOUS

\* The script at the head is done.
LEMMA QueueShrinks ==
  ASSUME NEW S, queue \in Seq(S), queue # <<>>
  PROVE  /\ Head(queue) \in S /\ Head(queue) = queue[1] /\ 1 \in 1..Len(queue)
         /\ Tail(queue) \in Seq(S)
         /\ \A i \in 1..Len(Tail(queue)) :
              i + 1 \in 1..Len(queue) /\ Tail(queue)[i] = queue[i + 1]
OBVIOUS

\* What was seen of the game is not forgotten, and what it is now is seen.
LEMMA LookFacts ==
  ASSUME seen \in [Calls -> SUBSET BOOLEAN], NEW b \in BOOLEAN, Look(b)
  PROVE  /\ seen' \in [Calls -> SUBSET BOOLEAN]
         /\ \A c \in Calls : /\ seen[c] \subseteq seen'[c]
                             /\ seen[c] # {} => b \in seen'[c]
BY DEF Look

LEMMA InitInv == Init => IInv
<1> SUFFICES ASSUME Init PROVE IInv
  OBVIOUS
<1>1. TypeOK
  <2>1. call \in [Calls -> CallStates]
    BY DEF Init, Unused, CallStates, States, Kinds
  <2>2. queue \in Seq([call : Calls, kind : Kinds])
    BY DEF Init
  <2>3. /\ cancelled \subseteq Calls /\ pend \subseteq Calls
        /\ net \subseteq [call : Calls, what : Words]
    BY DEF Init
  <2>4. /\ giving \in [Calls -> [Threads -> {"idle", "test", "clear"}]]
        /\ heard \in [Calls -> SUBSET Words]
        /\ seen \in [Calls -> SUBSET BOOLEAN]
    BY DEF Init
  <2> QED
    BY <2>1, <2>2, <2>3, <2>4 DEF Init, TypeOK, CallStates
<1>2. \A c \in Calls : call[c].st = "over"
  BY DEF Init, Unused
<1>3. Owners
  BY <1>2, ChecksAssumption
  DEF Init, Owners, LockWaits, UnderLock, Opens, SlotLive
<1>4. Unsent /\ EmulatorQueued /\ Said
  BY <1>2 DEF Init, Unsent, EmulatorQueued, Said, Asking
<1> QED
  BY <1>1, <1>3, <1>4 DEF IInv

-----------------------------------------------------------------------------

\* A request made: the token is fresh, so nothing of its last use is about.
LEMMA EnterInv ==
  ASSUME IInv, NEW c \in Calls, NEW k \in Kinds, Fresh(c), Enter(c, k)
  PROVE  IInv'
<1>1. /\ call' \in [Calls -> CallStates] /\ call'[c].st = "asked"
      /\ \A d \in Calls : d # c => call'[d] = call[d]
  BY EnterCall DEF IInv, TypeOK, CallStates
<1>2. TypeOK'
  BY <1>1 DEF IInv, TypeOK, Enter, waits, world, view, CallStates
<1>3. call[c].st = "over" /\ c # slot
  BY DEF Fresh, Live
<1>4. LockWaits' /\ Opens'
  BY <1>1, <1>3 DEF IInv, Owners, LockWaits, UnderLock, Opens, Enter, waits
<1>5. SlotLive'
  BY <1>1, <1>3
  DEF IInv, TypeOK, Owners, SlotLive, HasSlot, UnderLock, Batch, WillGive,
      Enter, waits
<1>6. DOMAIN queue = 1..Len(queue)
  BY DEF IInv, TypeOK
<1>7. Unsent' /\ EmulatorQueued'
  BY <1>1, <1>6 DEF IInv, Unsent, EmulatorQueued, Fresh, Enter, waits, world
<1>8. Said'
  BY <1>1 DEF IInv, Said, Asking, Looks, Bears, Enter, waits, world
<1> QED
  BY <1>2, <1>4, <1>5, <1>7, <1>8 DEF IInv, Owners

LEMMA AskInv ==
  ASSUME IInv, NEW c \in Calls, NEW k \in Kinds, Ask(c, k) PROVE IInv'
BY EnterInv DEF Ask

LEMMA RecheckInv == ASSUME IInv, NEW c \in Calls, Recheck(c) PROVE IInv'
<1>1. "verify" \in Kinds
  BY DEF Kinds
<1> QED
  BY <1>1, EnterInv DEF Recheck

LEMMA CancelInv == ASSUME IInv, NEW c \in Calls, Cancel(c) PROVE IInv'
<1>1. "page" \in Threads /\ "job" \in Threads /\ "test" \in Gives
  BY DEF Threads, Gives
<1>2. giving \in [Calls -> [Threads -> Gives]]
  BY DEF IInv, TypeOK, Gives
<1>3. /\ giving' \in [Calls -> [Threads -> Gives]]
      /\ \A d \in Calls : giving'[d]["job"] = giving[d]["job"]
  <2>1. CASE Batch(c)
    BY <1>1, <1>2, <2>1, ThreadGives DEF Cancel
  <2>2. CASE ~Batch(c)
    BY <1>2, <2>2 DEF Cancel
  <2> QED
    BY <2>1, <2>2
<1>4. TypeOK'
  BY <1>3 DEF IInv, TypeOK, Cancel, waits, world, view, Gives
<1>5. Owners'
  BY <1>3 DEF IInv, TypeOK, Owners, LockWaits, UnderLock, Opens, SlotLive, HasSlot,
              Batch, WillGive, Cancel, waits
<1>6. Unsent' /\ EmulatorQueued' /\ Said'
  BY DEF IInv, Unsent, EmulatorQueued, Said, Asking, Looks, Bears, Cancel, waits,
         world
<1> QED
  BY <1>4, <1>5, <1>6 DEF IInv

\* A thread finds a slot its own, or not: it goes on to clear the one it found.
LEMMA TestInv ==
  ASSUME IInv, NEW c \in Calls, NEW t \in Threads, Test(c, t) PROVE IInv'
<1>1. PICK v \in Gives : /\ giving' = [giving EXCEPT ![c][t] = v]
                         /\ slot = Own(c) => v = "clear"
  BY DEF Test, Gives
<1>2. giving \in [Calls -> [Threads -> Gives]]
  BY DEF IInv, TypeOK, Gives
<1>3. /\ giving' \in [Calls -> [Threads -> Gives]]
      /\ giving'[c][t] = v
      /\ \A d \in Calls, u \in Threads :
           d # c \/ u # t => giving'[d][u] = giving[d][u]
  BY <1>1, <1>2, ThreadGives
<1>4. TypeOK'
  BY <1>3 DEF IInv, TypeOK, Test, waits, world, view, Gives
<1>5. LockWaits' /\ Opens'
  BY DEF IInv, Owners, LockWaits, UnderLock, Opens, Test, waits
<1>6. SlotLive'
  <2>1. ASSUME slot # None, HasSlot(slot) PROVE HasSlot(slot)'
    <3>1. slot \in Calls /\ "job" \in Threads
      BY <2>1 DEF IInv, TypeOK, Threads
    <3>2. UNCHANGED <<slot, call, pend, cancelled>>
      BY DEF Test, waits
    <3>3. CASE slot \in pend
      <4>1. giving[slot]["job"] # "idle" => giving'[slot]["job"] # "idle"
        BY <1>1, <1>3, <3>1, <3>3 DEF Own
      <4> QED
        BY <2>1, <3>1, <3>2, <4>1 DEF HasSlot, UnderLock, Batch, WillGive
    <3>4. CASE slot \notin pend
      BY <2>1, <3>2, <3>4 DEF HasSlot, UnderLock, Batch
    <3> QED
      BY <3>3, <3>4
  <2> QED
    BY <2>1 DEF IInv, Owners, SlotLive, Test, waits
<1>7. Unsent' /\ EmulatorQueued' /\ Said'
  BY DEF IInv, Unsent, EmulatorQueued, Said, Asking, Looks, Bears, Test, waits,
         world
<1> QED
  BY <1>4, <1>5, <1>6, <1>7 DEF IInv, Owners

\* The slot is cleared, whoever has it by now.
LEMMA WipeInv ==
  ASSUME IInv, NEW c \in Calls, NEW t \in Threads, Wipe(c, t) PROVE IInv'
<1>1. giving \in [Calls -> [Threads -> Gives]] /\ "idle" \in Gives
  BY DEF IInv, TypeOK, Gives
<1>2. giving' \in [Calls -> [Threads -> Gives]]
  BY <1>1, ThreadGives DEF Wipe
<1>3. TypeOK'
  BY <1>2 DEF IInv, TypeOK, Wipe, world, view, Gives
<1>4. Owners'
  BY DEF IInv, Owners, LockWaits, UnderLock, Opens, SlotLive, Wipe
<1>5. Unsent' /\ EmulatorQueued' /\ Said'
  BY DEF IInv, Unsent, EmulatorQueued, Said, Asking, Looks, Bears, Wipe, world
<1> QED
  BY <1>3, <1>4, <1>5 DEF IInv

-----------------------------------------------------------------------------

\* A call that fails before its script is taken leaves the answers of the
\* others alone, and asks for none itself.
LEMMA FailsInv ==
  ASSUME IInv, NEW c \in Calls, Fails(c), UNCHANGED <<queue, net, disk, loader>>
  PROVE  Unsent' /\ EmulatorQueued' /\ Said'
<1>1. \A d \in Calls : d # c => /\ call'[d] = call[d]
                                /\ heard'[d] = heard[d]
                                /\ seen'[d] = seen[d]
  BY FailsFacts DEF IInv
<1>2. call'[c].st \in {"failing", "over"}
  BY FailsFacts DEF IInv
<1>3. Unsent'
  BY <1>1, <1>2 DEF IInv, Unsent
<1>4. Said'
  BY <1>1, <1>2 DEF IInv, Said, Asking, Looks, Bears
<1> QED
  BY <1>3, <1>4 DEF IInv, EmulatorQueued

\* Whoever holds no lock before and after, and does not touch pend, leaves the
\* lock and what the batches know as they were.
LEMMA KeepsLock ==
  ASSUME IInv, NEW c \in Calls, call \in [Calls -> CallStates],
         ~UnderLock(c), ~UnderLock(c)', UNCHANGED lock,
         pend' = pend, call'[c].st \notin {"asked", "heard"},
         \A d \in Calls : d # c => call'[d] = call[d]
  PROVE  LockWaits' /\ Opens'
<1>1. LockWaits'
  BY DEF IInv, Owners, LockWaits, UnderLock
<1>2. pend \subseteq Calls
  BY DEF IInv, TypeOK
<1>3. Opens'
  BY <1>2 DEF IInv, Owners, Opens, UnderLock
<1> QED
  BY <1>1, <1>3

LEMMA RefusedInv == ASSUME IInv, NEW c \in Calls, Refused(c) PROVE IInv'
<1>1. Fails(c) /\ call[c].st = "asked"
  BY DEF Refused
<1>2. TypeOK'
  <2>1. /\ call' \in [Calls -> CallStates]
        /\ giving' \in [Calls -> [Threads -> Gives]]
        /\ heard' \in [Calls -> SUBSET Words]
        /\ seen' \in [Calls -> SUBSET BOOLEAN]
    BY <1>1, FailsFacts DEF IInv
  <2> QED
    BY <2>1 DEF IInv, TypeOK, Refused, world, view, CallStates, Gives
<1>3. LockWaits' /\ Opens'
  <2>1. /\ call'[c].st \in {"failing", "over"}
        /\ \A d \in Calls : d # c => call'[d] = call[d]
    BY <1>1, FailsFacts DEF IInv
  <2>2. call \in [Calls -> CallStates]
    BY DEF IInv, TypeOK, CallStates
  <2> QED
    BY <1>1, <2>1, <2>2, KeepsLock DEF UnderLock, Refused
<1>4. slot # c
  BY <1>1, ChecksAssumption
  DEF IInv, Owners, Opens, SlotLive, HasSlot, UnderLock
<1>5. SlotLive'
  BY <1>1, <1>4, FailsFacts
  DEF IInv, TypeOK, Owners, SlotLive, HasSlot, UnderLock, Batch, WillGive, Refused
<1>6. Unsent' /\ EmulatorQueued' /\ Said'
  BY <1>1, FailsInv DEF Refused, world
<1> QED
  BY <1>2, <1>3, <1>5, <1>6 DEF IInv, Owners

\* Under the lock the slot is the call's.
LEMMA TakeInv == ASSUME IInv, NEW c \in Calls, Take(c) PROVE IInv'
<1>1. /\ call \in [Calls -> CallStates] /\ c # None /\ lock = None
      /\ "taken" \in States /\ call[c].st = "asked"
  BY ChecksAssumption DEF IInv, TypeOK, CallStates, States, Take
<1>2. /\ call' \in [Calls -> CallStates]
      /\ call'[c].st = "taken" /\ call'[c].kind = call[c].kind
      /\ \A d \in Calls : d # c => call'[d] = call[d]
  BY <1>1, SetCall DEF Take
<1>3. /\ heard' \in [Calls -> SUBSET Words] /\ heard'[c] = {}
      /\ \A d \in Calls : d # c => heard'[d] = heard[d]
  BY DEF IInv, TypeOK, Take
<1>4. TypeOK'
  BY <1>2, <1>3 DEF IInv, TypeOK, Take, CallStates, jobs, world, view
<1>5. LockWaits'
  <2>1. lock' = c /\ UnderLock(c)'
    BY <1>2 DEF UnderLock, Take
  <2>2. \A d \in Calls : d # c => ~UnderLock(d)'
    BY <1>1, <1>2, ChecksAssumption DEF IInv, Owners, LockWaits, UnderLock
  <2> QED
    BY <2>1, <2>2 DEF LockWaits
<1>6. Opens'
  <2>1. pend \subseteq Calls /\ pend' = pend /\ c \notin pend
    BY <1>1 DEF IInv, TypeOK, Owners, Opens, Take, jobs
  <2> QED
    BY <1>2, <2>1 DEF IInv, Owners, Opens
<1>7. SlotLive'
  BY <1>2 DEF SlotLive, HasSlot, UnderLock, Take
<1>8. Unsent' /\ EmulatorQueued'
  BY <1>1, <1>2, <1>3 DEF IInv, Unsent, EmulatorQueued, Take, world
<1>9. Said'
  BY <1>2, <1>3 DEF IInv, Said, Asking, Looks, Bears, Take, world
<1> QED
  BY <1>4, <1>5, <1>6, <1>7, <1>8, <1>9 DEF IInv, Owners

-----------------------------------------------------------------------------

\* The script goes out: nothing of an earlier use of its token can be heard,
\* and what was so before does not count.
LEMMA SentInv ==
  ASSUME IInv, NEW c \in Calls, Send(c), Set(c, "wait"), UNCHANGED <<giving, waits>>,
         queue' = Append(queue, Script(c)),
         seen' = [seen EXCEPT ![c] = IF Looks(c) THEN {disk} ELSE {}]
  PROVE  IInv'
<1>1. /\ call \in [Calls -> CallStates] /\ "wait" \in States
      /\ call[c].st = "taken" /\ queue \in Seq([call : Calls, kind : Kinds])
  BY DEF IInv, TypeOK, CallStates, States, Send
<1>2. /\ call' \in [Calls -> CallStates]
      /\ call'[c].st = "wait" /\ call'[c].kind = call[c].kind
      /\ \A d \in Calls : d # c => call'[d] = call[d]
  BY <1>1, SetCall
<1>3. Script(c) \in [call : Calls, kind : Kinds] /\ Script(c).call = c
  BY <1>1 DEF Script, CallStates
<1>4. /\ queue' \in Seq([call : Calls, kind : Kinds]) /\ queue' # <<>>
      /\ \A i \in 1..Len(queue') :
           queue'[i].call = c \/ (i \in 1..Len(queue) /\ queue'[i] = queue[i])
  BY <1>1, <1>3, QueueGrows
<1>5. /\ seen' \in [Calls -> SUBSET BOOLEAN]
      /\ Looks(c) => seen'[c] = {disk}
      /\ \A d \in Calls : d # c => seen'[d] = seen[d]
  BY DEF IInv, TypeOK
<1>6. TypeOK'
  BY <1>2, <1>4, <1>5 DEF IInv, TypeOK, Send, CallStates, waits, view
<1>7. UNCHANGED <<lock, slot, heard, giving, cancelled, pend, net, disk, loader>>
  BY DEF Send, waits
<1>8. LockWaits'
  BY <1>1, <1>2, <1>7 DEF IInv, Owners, LockWaits, UnderLock
<1>9. Opens'
  <2>1. pend \subseteq Calls /\ c \notin pend
    BY <1>1 DEF IInv, TypeOK, Owners, Opens
  <2> QED
    BY <1>2, <1>7, <2>1 DEF IInv, Owners, Opens
<1>10. SlotLive'
  BY <1>1, <1>2, <1>7
  DEF IInv, TypeOK, Owners, SlotLive, HasSlot, UnderLock, Batch, WillGive
<1>11. Unsent' /\ EmulatorQueued'
  BY <1>1, <1>2, <1>4, <1>7 DEF IInv, Unsent, EmulatorQueued
<1>12. Said'
  <2>1. heard[c] = {} /\ \A l \in net : l.call # c
    BY <1>1 DEF IInv, Unsent
  <2> QED
    BY <1>2, <1>5, <1>7, <2>1 DEF IInv, Said, Asking, Looks, Bears
<1> QED
  BY <1>6, <1>8, <1>9, <1>10, <1>11, <1>12 DEF IInv, Owners

\* The lock is given back by the call that holds it.
LEMMA GivesLock ==
  ASSUME IInv, NEW c \in Calls, call \in [Calls -> CallStates],
         UnderLock(c), ~UnderLock(c)', lock' = None, pend' = pend,
         \A d \in Calls : d # c => call'[d] = call[d]
  PROVE  /\ lock = c /\ c \notin pend
         /\ LockWaits' /\ Opens'
<1>1. lock = c
  BY DEF IInv, Owners, LockWaits
<1>2. LockWaits'
  BY <1>1, ChecksAssumption DEF IInv, Owners, LockWaits, UnderLock
<1>3. pend \subseteq Calls /\ c \notin pend
  BY DEF IInv, TypeOK, Owners, Opens, UnderLock
<1>4. Opens'
  BY <1>3 DEF IInv, Owners, Opens
<1> QED
  BY <1>1, <1>2, <1>3, <1>4

LEMMA SendInv == ASSUME IInv, NEW c \in Calls, Send(c) PROVE IInv'
<1>1. CASE /\ slot' = None /\ lock' = None /\ Fails(c) /\ UNCHANGED queue
  <2>1. /\ call' \in [Calls -> CallStates]
        /\ call'[c].st \in {"failing", "over"}
        /\ giving' \in [Calls -> [Threads -> Gives]]
        /\ heard' \in [Calls -> SUBSET Words]
        /\ seen' \in [Calls -> SUBSET BOOLEAN]
        /\ \A d \in Calls : d # c => call'[d] = call[d]
    BY <1>1, FailsFacts DEF IInv
  <2>2. TypeOK'
    BY <1>1, <2>1 DEF IInv, TypeOK, Send, view, CallStates, Gives
  <2>3. LockWaits' /\ Opens'
    <3>1. call \in [Calls -> CallStates]
      BY DEF IInv, TypeOK, CallStates
    <3> QED
      BY <1>1, <2>1, <3>1, GivesLock DEF UnderLock, Send
  <2>4. SlotLive'
    BY <1>1 DEF SlotLive
  <2>5. Unsent' /\ EmulatorQueued' /\ Said'
    BY <1>1, FailsInv DEF Send
  <2> QED
    BY <2>2, <2>3, <2>4, <2>5 DEF IInv, Owners
<1> QED
  BY <1>1, SentInv DEF Send

LEMMA CollectInv == ASSUME IInv, NEW c \in Calls, Collect(c) PROVE IInv'
<1>1. call \in [Calls -> CallStates] /\ call[c].st = "wait"
  BY DEF IInv, TypeOK, CallStates, Collect, Waiting
<1>2. /\ call' \in [Calls -> CallStates]
      /\ call'[c].st \in {"heard", "over"}
      /\ call'[c].st = "heard" => /\ call'[c].kind = call[c].kind
                                  /\ heard'[c] = heard[c] /\ seen'[c] = seen[c]
      /\ heard' \in [Calls -> SUBSET Words]
      /\ seen' \in [Calls -> SUBSET BOOLEAN]
      /\ \A d \in Calls : d # c => /\ call'[d] = call[d]
                                   /\ heard'[d] = heard[d]
                                   /\ seen'[d] = seen[d]
  <2>1. CASE Over(c)
    BY <2>1, OverCall DEF IInv
  <2>2. CASE Set(c, "heard") /\ UNCHANGED <<heard, seen>>
    <3>1. "heard" \in States
      BY DEF States
    <3> QED
      BY <1>1, <2>2, <3>1, SetCall DEF IInv, TypeOK
  <2> QED
    BY <2>1, <2>2 DEF Collect
<1>3. tracker' \in {"none", "starting", "running", "exited"}
  BY DEF IInv, TypeOK, Collect, MarkGone
<1>4. TypeOK'
  BY <1>2, <1>3 DEF IInv, TypeOK, Collect, world, jobs, CallStates
<1>5. LockWaits' /\ Opens'
  BY <1>1, <1>2, GivesLock DEF UnderLock, Collect, jobs
<1>6. SlotLive'
  BY DEF SlotLive, Collect
<1>7. Unsent' /\ EmulatorQueued'
  BY <1>1, <1>2 DEF IInv, Unsent, EmulatorQueued, Collect, world
<1>8. Said'
  BY <1>1, <1>2 DEF IInv, Said, Asking, Looks, Bears, Collect, world
<1> QED
  BY <1>4, <1>5, <1>6, <1>7, <1>8 DEF IInv, Owners

\* The answers are used, and nothing that others wait for is touched.
LEMMA CommitInv == ASSUME IInv, NEW c \in Calls, Commit(c) PROVE IInv'
<1>1. call[c].st = "heard" /\ ~Batch(c) /\ Over(c) /\ call \in [Calls -> CallStates]
  BY DEF Commit, IInv, TypeOK, CallStates
<1>2. /\ call' \in [Calls -> CallStates] /\ call'[c].st = "over"
      /\ heard' \in [Calls -> SUBSET Words]
      /\ seen' \in [Calls -> SUBSET BOOLEAN]
      /\ \A d \in Calls : d # c => /\ call'[d] = call[d]
                                   /\ heard'[d] = heard[d]
                                   /\ seen'[d] = seen[d]
  BY <1>1, OverCall DEF IInv
<1>3. /\ report' \in {"unknown", "present", "absent"} /\ record' \in BOOLEAN
  BY DEF IInv, TypeOK, Commit
<1>4. TypeOK'
  BY <1>2, <1>3 DEF IInv, TypeOK, Commit, world, jobs, CallStates
<1>5. LockWaits' /\ Opens'
  BY <1>1, <1>2, KeepsLock DEF UnderLock, Commit, jobs
<1>6. SlotLive'
  <2>1. slot # c
    BY <1>1, ChecksAssumption DEF IInv, Owners, SlotLive, HasSlot, UnderLock
  <2> QED
    BY <1>2, <2>1
    DEF IInv, TypeOK, Owners, SlotLive, HasSlot, UnderLock, Batch, WillGive,
        Commit, jobs
<1>7. Unsent' /\ EmulatorQueued'
  BY <1>2 DEF IInv, Unsent, EmulatorQueued, Commit, world
<1>8. Said'
  BY <1>2 DEF IInv, Said, Asking, Looks, Bears, Commit, world
<1> QED
  BY <1>4, <1>5, <1>6, <1>7, <1>8 DEF IInv, Owners

LEMMA PortKnownInv == ASSUME IInv, NEW c \in Calls, PortKnown(c) PROVE IInv'
<1>1. /\ call \in [Calls -> CallStates] /\ call[c].st = "wait"
      /\ "heard" \in States
  BY DEF IInv, TypeOK, CallStates, PortKnown, Waiting, States
<1>2. /\ call' \in [Calls -> CallStates] /\ call'[c].st = "heard"
      /\ call'[c].kind = call[c].kind
      /\ \A d \in Calls : d # c => call'[d] = call[d]
  BY <1>1, SetCall DEF PortKnown
<1>3. tracker' \in {"none", "starting", "running", "exited"}
  BY DEF IInv, TypeOK, PortKnown, MarkGone
<1>4. TypeOK'
  BY <1>2, <1>3 DEF IInv, TypeOK, PortKnown, world, jobs, CallStates
<1>5. lock = c /\ LockWaits' /\ Opens'
  BY <1>1, <1>2, GivesLock DEF UnderLock, PortKnown, jobs
<1>6. SlotLive'
  BY <1>1, <1>2, <1>5, ChecksAssumption
  DEF IInv, TypeOK, Owners, SlotLive, HasSlot, UnderLock, Batch, PortKnown
<1>7. Unsent' /\ EmulatorQueued' /\ Said'
  BY <1>1, <1>2 DEF IInv, Unsent, EmulatorQueued, Said, Asking, Looks, Bears,
                    PortKnown, world
<1> QED
  BY <1>4, <1>5, <1>6, <1>7 DEF IInv, Owners

LEMMA OpenedInv == ASSUME IInv, NEW c \in Calls, Opened(c) PROVE IInv'
<1>1. /\ call \in [Calls -> CallStates] /\ pend \subseteq Calls
      /\ call[c].st = "heard" /\ Batch(c) /\ "sending" \in States
  BY DEF IInv, TypeOK, CallStates, Opened, Is, Batch, States
<1>2. /\ call' \in [Calls -> CallStates] /\ call'[c].st = "sending"
      /\ call'[c].kind = call[c].kind
      /\ \A d \in Calls : d # c => call'[d] = call[d]
  BY <1>1, SetCall DEF Opened
<1>3. TypeOK'
  BY <1>1, <1>2 DEF IInv, TypeOK, Opened, waits, world, view, CallStates
<1>4. UNCHANGED <<lock, slot, giving, cancelled>> /\ pend' = pend \cup {c}
  BY DEF Opened, waits
<1>5. LockWaits'
  BY <1>1, <1>2, <1>4 DEF IInv, Owners, LockWaits, UnderLock
<1>6. Opens'
  BY <1>1, <1>2, <1>4 DEF IInv, Owners, Opens
<1>7. SlotLive'
  BY <1>1, <1>2, <1>4
  DEF IInv, TypeOK, Owners, SlotLive, HasSlot, UnderLock, Batch, WillGive
<1>8. Unsent' /\ EmulatorQueued' /\ Said'
  BY <1>2 DEF IInv, Unsent, EmulatorQueued, Said, Asking, Looks, Bears,
              Opened, waits, world
<1> QED
  BY <1>3, <1>5, <1>6, <1>7, <1>8 DEF IInv, Owners


-----------------------------------------------------------------------------

\* A step of a batch's own thread, between two of the states in which nobody
\* waits for its answers: the slot is others' business, or still to be given.
LEMMA JobMoves ==
  ASSUME IInv, NEW c \in Calls, call \in [Calls -> CallStates],
         ~UnderLock(c), ~UnderLock(c)', UNCHANGED <<lock, slot, pend, cancelled>>,
         call'[c].st \notin {"asked", "heard"},
         slot = c => HasSlot(c)',
         \A d \in Calls : d # c => /\ call'[d] = call[d]
                                   /\ giving'[d]["job"] = giving[d]["job"]
  PROVE  Owners'
<1>1. LockWaits' /\ Opens'
  BY KeepsLock
<1>2. SlotLive'
  <2>1. ASSUME slot # None, slot # c PROVE HasSlot(slot)'
    BY <2>1 DEF IInv, TypeOK, Owners, SlotLive, HasSlot, UnderLock, Batch, WillGive
  <2> QED
    BY <2>1 DEF IInv, Owners, SlotLive
<1> QED
  BY <1>1, <1>2 DEF Owners

LEMMA SkipInv == ASSUME IInv, NEW c \in Calls, Skip(c) PROVE IInv'
<1>1. /\ call \in [Calls -> CallStates] /\ call[c].st = "asked"
      /\ "ending" \in States /\ "job" \in Threads /\ "test" \in Gives
      /\ giving \in [Calls -> [Threads -> Gives]]
  BY DEF IInv, TypeOK, CallStates, Skip, Is, States, Threads, Gives
<1>2. /\ call' \in [Calls -> CallStates] /\ call'[c].st = "ending"
      /\ \A d \in Calls : d # c => call'[d] = call[d]
  BY <1>1, SetCall DEF Skip
<1>3. /\ giving' \in [Calls -> [Threads -> Gives]]
      /\ \A d \in Calls : d # c => giving'[d]["job"] = giving[d]["job"]
  BY <1>1, ThreadGives DEF Skip
<1>4. TypeOK'
  BY <1>2, <1>3 DEF IInv, TypeOK, Skip, waits, world, view, CallStates, Gives
<1>5. slot # c
  BY <1>1, ChecksAssumption
  DEF IInv, Owners, Opens, SlotLive, HasSlot, UnderLock
<1>6. Owners'
  BY <1>1, <1>2, <1>3, <1>5, JobMoves DEF UnderLock, Skip, waits
<1>7. Unsent' /\ EmulatorQueued'
  BY <1>2 DEF IInv, Unsent, EmulatorQueued, Skip, waits, world
<1>8. Said'
  BY <1>2 DEF IInv, Said, Asking, Looks, Bears, Skip, waits, world
<1> QED
  BY <1>4, <1>6, <1>7, <1>8 DEF IInv

LEMMA FileSentInv == ASSUME IInv, NEW c \in Calls, FileSent(c) PROVE IInv'
<1>1. PICK s \in {"closing", "failing"} : GivesBack(c, s)
  BY DEF FileSent
<1>2. /\ call \in [Calls -> CallStates] /\ call[c].st = "sending" /\ Batch(c)
      /\ s \in States /\ "job" \in Threads
  BY DEF IInv, TypeOK, CallStates, FileSent, Is, Batch, States, Threads
<1>3. /\ call' \in [Calls -> CallStates] /\ call'[c].st = s
      /\ call'[c].kind = call[c].kind
      /\ \A d \in Calls : d # c => call'[d] = call[d]
  BY <1>1, <1>2, SetCall DEF GivesBack
<1>4. /\ giving' \in [Calls -> [Threads -> Gives]]
      /\ giving'[c]["job"] # "idle" \/ c \in cancelled
      /\ \A d \in Calls : d # c => giving'[d]["job"] = giving[d]["job"]
  BY <1>1, <1>2, JobGives DEF IInv
<1>5. /\ disk' \in BOOLEAN /\ seen' \in [Calls -> SUBSET BOOLEAN]
      /\ \A d \in Calls : /\ seen[d] \subseteq seen'[d]
                          /\ disk \in seen[d] => disk' \in seen'[d]
  <2>1. seen \in [Calls -> SUBSET BOOLEAN] /\ disk \in BOOLEAN
    BY DEF IInv, TypeOK
  <2>2. CASE disk' = TRUE /\ Look(TRUE)
    BY <2>1, <2>2, LookFacts
  <2>3. CASE UNCHANGED <<disk, seen>>
    BY <2>1, <2>3
  <2> QED
    BY <2>2, <2>3 DEF FileSent
<1>6. TypeOK'
  BY <1>3, <1>4, <1>5 DEF IInv, TypeOK, FileSent, waits, view, CallStates, Gives
<1>7. Owners'
  <2>1. UNCHANGED <<lock, slot, pend, cancelled>>
    BY DEF FileSent, waits
  <2>2. slot = c => HasSlot(c)'
    BY <1>2, <1>3, <1>4, <2>1, ChecksAssumption
    DEF IInv, Owners, SlotLive, HasSlot, UnderLock, Batch, WillGive
  <2> QED
    BY <1>2, <1>3, <1>4, <2>1, <2>2, JobMoves DEF UnderLock
<1>8. Unsent' /\ EmulatorQueued'
  BY <1>3 DEF IInv, Unsent, EmulatorQueued, FileSent, waits
<1>9. Said'
  BY <1>3, <1>5 DEF IInv, Said, Asking, Looks, Bears, FileSent, waits
<1> QED
  BY <1>6, <1>7, <1>8, <1>9 DEF IInv

LEMMA StepEndsInv == ASSUME IInv, NEW c \in Calls, StepEnds(c) PROVE IInv'
<1> DEFINE done == call[c].st = "closing" /\ c \notin cancelled
<1>1. /\ call \in [Calls -> CallStates] /\ call[c].st \in {"closing", "failing"}
      /\ "ending" \in States /\ "job" \in Threads
      /\ giving \in [Calls -> [Threads -> Gives]]
  BY DEF IInv, TypeOK, CallStates, StepEnds, States, Threads, Gives
<1>2. /\ call' \in [Calls -> CallStates] /\ call'[c].st = "ending"
      /\ call'[c].kind = call[c].kind
      /\ \A d \in Calls : d # c => call'[d] = call[d]
  BY <1>1, SetCall DEF StepEnds
<1>3. PICK v \in Gives : /\ giving' = [giving EXCEPT ![c]["job"] = v]
                         /\ ~done => v = "test"
  BY DEF StepEnds, Gives
<1>4. /\ giving' \in [Calls -> [Threads -> Gives]]
      /\ giving'[c]["job"] = v
      /\ \A d \in Calls : d # c => giving'[d]["job"] = giving[d]["job"]
  BY <1>1, <1>3, ThreadGives
<1>5. TypeOK'
  BY <1>2, <1>4
  DEF IInv, TypeOK, StepEnds, waits, world, view, CallStates, Gives
<1>6. Owners'
  <2>1. UNCHANGED <<lock, slot, pend, cancelled>> /\ giving[c]["job"] = "idle"
    BY DEF StepEnds, waits
  <2>2. slot = c => HasSlot(c)'
    BY <1>1, <1>2, <1>3, <1>4, <2>1, ChecksAssumption
    DEF IInv, Owners, SlotLive, HasSlot, UnderLock, Batch, WillGive
  <2> QED
    BY <1>1, <1>2, <1>4, <2>1, <2>2, JobMoves DEF UnderLock
<1>7. Unsent' /\ EmulatorQueued'
  BY <1>2 DEF IInv, Unsent, EmulatorQueued, StepEnds, waits, world
<1>8. Said'
  BY <1>2 DEF IInv, Said, Asking, Looks, Bears, StepEnds, waits, world
<1> QED
  BY <1>5, <1>6, <1>7, <1>8 DEF IInv

\* A call that ends without having the slot, and without being waited for.
LEMMA EndsQuietly ==
  ASSUME IInv, NEW c \in Calls, Over(c), ~UnderLock(c), slot # c,
         UNCHANGED <<lock, slot, pend, giving, queue, disk>>,
         \A d \in Calls : d # c => (d \in cancelled' <=> d \in cancelled),
         \A l \in net' : l \in net \/ l = Line(c, "boot")
  PROVE  Owners' /\ Unsent' /\ Said'
<1>1. /\ call'[c].st = "over"
      /\ \A d \in Calls : d # c => /\ call'[d] = call[d]
                                   /\ heard'[d] = heard[d]
                                   /\ seen'[d] = seen[d]
  BY OverCall DEF IInv
<1>2. LockWaits' /\ Opens'
  <2>1. call \in [Calls -> CallStates]
    BY DEF IInv, TypeOK, CallStates
  <2> QED
    BY <1>1, <2>1, KeepsLock DEF UnderLock
<1>3. SlotLive'
  BY <1>1
  DEF IInv, TypeOK, Owners, SlotLive, HasSlot, UnderLock, Batch, WillGive
<1>4. Unsent'
  BY <1>1 DEF IInv, Unsent, Line
<1>5. Said'
  <2>1. \A l \in net' : l \in net \/ l.what = "boot"
    BY DEF Line
  <2>2. ASSUME NEW d \in Calls, d # c, Asking(d)
        PROVE  \A l \in net' : l.call = d => Bears(d, l.what)
    BY <2>1, <2>2 DEF IInv, Said, Bears
  <2> QED
    BY <1>1, <2>2 DEF IInv, Said, Asking, Looks, Bears
<1> QED
  BY <1>2, <1>3, <1>4, <1>5 DEF Owners

LEMMA JobEndsInv == ASSUME IInv, NEW c \in Calls, JobEnds(c) PROVE IInv'
<1>1. /\ Over(c) /\ call[c].st = "ending" /\ giving[c]["job"] = "idle"
      /\ cancelled' = cancelled \ {c}
      /\ UNCHANGED <<giving, pend, lock, slot, world, record, view>>
  BY DEF JobEnds
<1>2. TypeOK'
  BY <1>1, OverCall DEF IInv, TypeOK, world, view, CallStates
<1>3. slot # c
  BY <1>1, ChecksAssumption
  DEF IInv, Owners, SlotLive, HasSlot, UnderLock, WillGive
<1>4. Owners' /\ Unsent' /\ Said'
  BY <1>1, <1>3, EndsQuietly DEF UnderLock, world
<1>5. EmulatorQueued'
  BY <1>1 DEF IInv, EmulatorQueued, world
<1> QED
  BY <1>2, <1>4, <1>5 DEF IInv

LEMMA LaunchEndsInv == ASSUME IInv, NEW c \in Calls, LaunchEnds(c) PROVE IInv'
<1>1. /\ Over(c) /\ call[c].st = "sending" /\ call[c].kind = "launch"
      /\ cancelled' = cancelled \ {c}
      /\ UNCHANGED <<giving, pend, lock, slot, queue, disk, record, view>>
      /\ net' = net \/ net' = net \cup {Line(c, "boot")}
  BY DEF LaunchEnds, Is
<1>2. net' \subseteq [call : Calls, what : Words]
  BY <1>1 DEF IInv, TypeOK, Line, Words
<1>3. loader' \in {"listens", "emulates", "idle"}
  BY DEF IInv, TypeOK, LaunchEnds
<1>4. TypeOK'
  BY <1>1, <1>2, <1>3, OverCall DEF IInv, TypeOK, view, CallStates
<1>5. slot # c
  BY <1>1, ChecksAssumption DEF IInv, Owners, SlotLive, HasSlot
<1>6. Owners' /\ Unsent' /\ Said'
  BY <1>1, <1>5, EndsQuietly DEF UnderLock
<1>7. EmulatorQueued'
  BY DEF IInv, EmulatorQueued, LaunchEnds
<1> QED
  BY <1>4, <1>6, <1>7 DEF IInv


LEMMA LaunchInv == ASSUME IInv, NEW c \in Calls, Launch(c) PROVE IInv'
<1>1. /\ call \in [Calls -> CallStates] /\ call[c].st = "asked"
      /\ call[c].kind = "launch" /\ "sending" \in States
      /\ queue \in Seq([call : Calls, kind : Kinds])
      /\ UNCHANGED <<jobs, lock, slot, loader, net, disk, record>>
      /\ tracker' = "starting" /\ report' = "unknown"
  BY DEF IInv, TypeOK, CallStates, Launch, Is, States
<1>2. slot # c
  BY <1>1, ChecksAssumption DEF IInv, Owners, SlotLive, HasSlot
<1>3. CASE /\ queue' = Append(queue, Script(c)) /\ Set(c, "sending")
           /\ UNCHANGED <<heard, seen>>
  <2>1. /\ call' \in [Calls -> CallStates] /\ call'[c].st = "sending"
        /\ \A d \in Calls : d # c => call'[d] = call[d]
    BY <1>1, <1>3, SetCall
  <2>2. Script(c) \in [call : Calls, kind : Kinds] /\ Script(c).call = c
    BY <1>1 DEF Script, CallStates
  <2>3. /\ queue' \in Seq([call : Calls, kind : Kinds]) /\ queue' # <<>>
        /\ \A i \in 1..Len(queue') :
             queue'[i].call = c \/ (i \in 1..Len(queue) /\ queue'[i] = queue[i])
    BY <1>1, <1>3, <2>2, QueueGrows
  <2>4. TypeOK'
    BY <1>1, <1>3, <2>1, <2>3 DEF IInv, TypeOK, jobs, CallStates
  <2>5. Owners'
    BY <1>1, <1>2, <2>1, JobMoves DEF UnderLock, jobs
  <2>6. Unsent' /\ EmulatorQueued'
    BY <1>1, <1>3, <2>1, <2>3 DEF IInv, Unsent, EmulatorQueued
  <2>7. Said'
    BY <1>1, <1>3, <2>1 DEF IInv, Said, Asking, Looks, Bears
  <2> QED
    BY <2>4, <2>5, <2>6, <2>7 DEF IInv
<1>4. CASE Over(c) /\ UNCHANGED queue
  <2>1. TypeOK'
    BY <1>1, <1>4, OverCall DEF IInv, TypeOK, jobs, CallStates
  <2>2. Owners' /\ Unsent' /\ Said'
    BY <1>1, <1>2, <1>4, EndsQuietly DEF UnderLock, jobs
  <2>3. EmulatorQueued'
    BY <1>1, <1>4 DEF IInv, EmulatorQueued
  <2> QED
    BY <2>1, <2>2, <2>3 DEF IInv
<1> QED
  BY <1>3, <1>4 DEF Launch

-----------------------------------------------------------------------------

\* A step of the console or its log touches nobody's slot.
LEMMA ConsoleOwners ==
  ASSUME IInv, UNCHANGED <<call, jobs, lock, slot>> PROVE Owners'
BY DEF IInv, Owners, LockWaits, UnderLock, Opens, SlotLive, HasSlot, Batch,
       WillGive, jobs

\* The script at the head says what it finds, and does what it says.
LEMMA RunInv == ASSUME IInv, Run PROVE IInv'
<1> DEFINE s == Head(queue)
           new == {Line(s.call, w) : w \in Says(s.kind)}
           S == [call : Calls, kind : Kinds]
<1>1. queue \in Seq(S) /\ queue # <<>>
  BY DEF IInv, TypeOK, Run
<1>2. s \in S /\ s = queue[1] /\ 1 \in 1..Len(queue)
  BY <1>1, QueueShrinks
<1>3. s.call \in Calls /\ s.kind \in Kinds
  BY <1>2
<1>4. call[s.call].st \notin {"asked", "taken"}
  BY <1>2, <1>3 DEF IInv, Unsent
<1>5. \A w \in Says(s.kind) : /\ w \in Words
                              /\ w = "present" => disk
                              /\ w = "removed" => s.kind = "delete"
  BY <1>3 DEF Says, Words, Kinds
<1>6. s.kind = "delete" => ~Stays(s)
  BY DEF Stays
<1>7. net' = net \cup new
  BY DEF Run
<1>8. net' \subseteq [call : Calls, what : Words]
  BY <1>3, <1>5, <1>7 DEF IInv, TypeOK, Line
<1>9. \A l \in net' : l \in net \/ (l.call = s.call /\ l.what \in Says(s.kind))
  BY <1>7 DEF Line
<1>10. /\ queue' \in Seq(S)
       /\ \A i \in 1..Len(queue') : \E k \in 1..Len(queue) : queue'[i] = queue[k]
  <2>1. CASE Stays(s)
    BY <1>1, <2>1 DEF Run
  <2>2. CASE ~Stays(s)
    BY <1>1, <2>2, QueueShrinks DEF Run
  <2> QED
    BY <2>1, <2>2
<1>11. /\ disk' \in BOOLEAN /\ seen' \in [Calls -> SUBSET BOOLEAN]
       /\ \A c \in Calls : /\ seen[c] \subseteq seen'[c]
                           /\ disk \in seen[c] => disk' \in seen'[c]
       /\ s.kind = "delete" => disk' = FALSE
  <2>1. seen \in [Calls -> SUBSET BOOLEAN] /\ disk \in BOOLEAN
    BY DEF IInv, TypeOK
  <2>2. CASE Stays(s)
    BY <1>6, <2>1, <2>2 DEF Run
  <2>3. CASE ~Stays(s)
    <3>1. disk' = (disk /\ s.kind # "delete") /\ Look(disk')
      BY <2>3 DEF Run
    <3>2. disk' \in BOOLEAN /\ (s.kind = "delete" => disk' = FALSE)
      BY <2>1, <3>1
    <3>3. PICK b \in BOOLEAN : b = disk'
      BY <3>2
    <3>4. /\ seen' \in [Calls -> SUBSET BOOLEAN]
          /\ \A c \in Calls : /\ seen[c] \subseteq seen'[c]
                              /\ seen[c] # {} => b \in seen'[c]
      BY <2>1, <3>1, <3>3, LookFacts
    <3> QED
      BY <3>2, <3>3, <3>4
  <2> QED
    BY <2>2, <2>3
<1>12. TypeOK'
  BY <1>8, <1>10, <1>11 DEF IInv, TypeOK, Run, jobs, waits, view
<1>13. Owners'
  BY ConsoleOwners DEF Run, waits
<1>14. Unsent' /\ EmulatorQueued'
  <2>1. UNCHANGED <<call, heard, loader>> /\ loader = "listens"
    BY DEF Run, waits
  <2>2. ASSUME NEW c \in Calls, call[c].st \in {"asked", "taken"}
        PROVE  /\ \A l \in net' : l.call # c
               /\ \A i \in 1..Len(queue') : queue'[i].call # c
    <3>1. /\ \A l \in net : l.call # c
          /\ \A i \in 1..Len(queue) : queue[i].call # c
      BY <2>2 DEF IInv, Unsent
    <3>2. c # s.call
      BY <1>4, <2>2
    <3>3. \A l \in net' : l.call # c
      BY <1>9, <3>1, <3>2
    <3>4. \A i \in 1..Len(queue') : queue'[i].call # c
      BY <1>10, <3>1
    <3> QED
      BY <3>3, <3>4
  <2> QED
    BY <2>1, <2>2 DEF IInv, Unsent, EmulatorQueued
<1>15. Said'
  <2> SUFFICES ASSUME NEW c \in Calls, Asking(c)
               PROVE  /\ disk' \in seen'[c]
                      /\ \A w \in heard[c] : Bears(c, w)'
                      /\ \A l \in net' : l.call = c => Bears(c, l.what)'
    BY DEF Said, Asking, Looks, Run, waits
  <2>1. /\ disk \in seen[c] /\ disk' \in seen'[c]
        /\ \A w \in heard[c] : Bears(c, w)
        /\ \A l \in net : l.call = c => Bears(c, l.what)
    BY <1>11 DEF IInv, Said
  <2>2. \A w \in Says(s.kind) : Bears(c, w)'
    BY <1>5, <1>11, <2>1 DEF Bears, IInv, TypeOK
  <2>3. seen[c] \subseteq seen'[c]
    BY <1>11
  <2> QED
    BY <1>9, <2>1, <2>2, <2>3 DEF Bears
<1> QED
  BY <1>12, <1>13, <1>14, <1>15 DEF IInv

LEMMA ReturnInv == ASSUME IInv, Return PROVE IInv'
<1> DEFINE S == [call : Calls, kind : Kinds]
<1>1. queue \in Seq(S) /\ queue # <<>>
  BY DEF IInv, TypeOK, EmulatorQueued, Return
<1>2. Head(queue) \in S /\ Head(queue) = queue[1] /\ 1 \in 1..Len(queue)
  BY <1>1, QueueShrinks
<1>3. /\ Head(queue).call \in Calls
      /\ call[Head(queue).call].st \notin {"asked", "taken"}
  BY <1>2 DEF IInv, Unsent
<1>4. net' \subseteq [call : Calls, what : Words]
  BY <1>3 DEF IInv, TypeOK, Return, Line, Words
<1>5. queue' = <<>> /\ queue' \in Seq(S) /\ Len(queue') = 0
  BY DEF Return
<1>6. TypeOK'
  BY <1>4, <1>5 DEF IInv, TypeOK, Return, jobs, waits, view
<1>7. Owners'
  BY ConsoleOwners DEF Return, waits
<1>8. Unsent' /\ EmulatorQueued'
  BY <1>3, <1>5 DEF IInv, Unsent, EmulatorQueued, Return, Line, waits
<1>9. Said'
  <2>1. \A l \in net' : l \in net \/ l.what = "exit"
    BY DEF Return, Line
  <2>2. UNCHANGED <<call, heard, disk, seen>>
    BY DEF Return, waits
  <2> QED
    BY <2>1, <2>2 DEF IInv, Said, Asking, Looks, Bears
<1> QED
  BY <1>6, <1>7, <1>8, <1>9 DEF IInv

LEMMA ArmInv == ASSUME IInv, Arm PROVE IInv'
<1>1. TypeOK'
  BY DEF IInv, TypeOK, Arm, jobs, waits, view
<1>2. Owners'
  BY ConsoleOwners DEF Arm, waits
<1>3. Unsent' /\ EmulatorQueued' /\ Said'
  BY DEF IInv, Unsent, EmulatorQueued, Said, Asking, Looks, Bears, Arm, waits
<1> QED
  BY <1>1, <1>2, <1>3 DEF IInv

\* A line is heard by the call whose token it bears, and only while it has the
\* slot.
LEMMA HearInv == ASSUME IInv, NEW l \in net, Hear(l) PROVE IInv'
<1>1. l.what \in Words /\ l.call \in Calls
  BY DEF IInv, TypeOK
<1>2. /\ heard' \in [Calls -> SUBSET Words]
      /\ \A d \in Calls : heard'[d] = heard[d]
           \/ (d = l.call /\ heard'[d] = heard[d] \cup {l.what})
  <2>1. heard \in [Calls -> SUBSET Words]
    BY DEF IInv, TypeOK
  <2>2. CASE l.call = slot
    BY <1>1, <2>1, <2>2 DEF Hear
  <2>3. CASE l.call # slot
    BY <2>1, <2>3 DEF Hear
  <2> QED
    BY <2>2, <2>3
<1>3. tracker' \in {"none", "starting", "running", "exited"}
  BY DEF IInv, TypeOK, Hear
<1>4. TypeOK'
  BY <1>2, <1>3 DEF IInv, TypeOK, Hear, jobs
<1>5. Owners'
  BY ConsoleOwners DEF Hear
<1>6. Unsent' /\ EmulatorQueued'
  BY <1>1, <1>2 DEF IInv, Unsent, EmulatorQueued, Hear
<1>7. Said'
  <2>1. UNCHANGED <<call, disk, seen>> /\ net' = net \ {l}
    BY DEF Hear
  <2>2. ASSUME NEW c \in Calls, Asking(c), NEW w \in heard'[c] PROVE Bears(c, w)
    BY <1>1, <1>2, <2>2 DEF IInv, Said
  <2> QED
    BY <2>1, <2>2 DEF IInv, Said, Asking, Looks, Bears
<1> QED
  BY <1>4, <1>5, <1>6, <1>7 DEF IInv

LEMMA LoseInv == ASSUME IInv, NEW l \in net, Lose(l) PROVE IInv'
<1>1. TypeOK'
  BY DEF IInv, TypeOK, Lose, jobs, waits, view
<1>2. Owners'
  BY ConsoleOwners DEF Lose, waits
<1>3. Unsent' /\ EmulatorQueued' /\ Said'
  BY DEF IInv, Unsent, EmulatorQueued, Said, Asking, Looks, Bears, Lose, waits
<1> QED
  BY <1>1, <1>2, <1>3 DEF IInv

LEMMA StutterInv == ASSUME IInv, UNCHANGED vars PROVE IInv'
<1>1. TypeOK'
  BY DEF IInv, TypeOK, vars, jobs, waits, world, view
<1>2. Owners'
  BY ConsoleOwners DEF vars, waits
<1>3. Unsent' /\ EmulatorQueued' /\ Said'
  BY DEF IInv, Unsent, EmulatorQueued, Said, Asking, Looks, Bears, vars, waits,
         world
<1> QED
  BY <1>1, <1>2, <1>3 DEF IInv

LEMMA StepInv == ASSUME IInv, NEW c \in Calls, Step(c) PROVE IInv'
<1>1. CASE Sends(c)
  BY <1>1, RefusedInv, TakeInv, SendInv, CollectInv, CommitInv, PortKnownInv,
     OpenedInv DEF Sends
<1>2. CASE Job(c)
  BY <1>2, SkipInv, FileSentInv, StepEndsInv, JobEndsInv, LaunchInv,
     LaunchEndsInv DEF Job
<1> QED
  BY <1>1, <1>2 DEF Step

LEMMA NextInv == ASSUME IInv, [Next]_vars PROVE IInv'
<1>1. ASSUME NEW c \in Calls, Step(c) \/ Recheck(c) \/ Cancel(c) PROVE IInv'
  BY <1>1, StepInv, RecheckInv, CancelInv
<1>2. ASSUME NEW c \in Calls, NEW t \in Threads, Test(c, t) \/ Wipe(c, t)
      PROVE  IInv'
  BY <1>2, TestInv, WipeInv
<1>3. ASSUME NEW c \in Calls, NEW k \in Kinds, Ask(c, k) PROVE IInv'
  BY <1>3, AskInv
<1>4. CASE Run \/ Return \/ Arm
  BY <1>4, RunInv, ReturnInv, ArmInv
<1>5. ASSUME NEW l \in net, Hear(l) \/ Lose(l) PROVE IInv'
  BY <1>5, HearInv, LoseInv
<1>6. CASE UNCHANGED vars
  BY <1>6, StutterInv
<1> QED
  BY <1>1, <1>2, <1>3, <1>4, <1>5, <1>6 DEF Next

-----------------------------------------------------------------------------

\* What is heard, and what is still to be heard, was so, and whoever has the
\* slot is still to give it back: on every path.
THEOREM Inductive == Spec => []IInv
<1>1. IInv /\ [Next]_vars => IInv'
  BY NextInv
<1> QED
  BY InitInv, <1>1, PTL DEF Spec


\* Every variable keeps its type, for any number of calls; in particular the
\* tracker knows no state but its own four (PayloadTracker, line 891).
THEOREM TypeCorrect == Spec => []TypeOK
<1>1. IInv => TypeOK
  BY DEF IInv
<1> QED
  BY Inductive, <1>1, PTL

\* A thread that tests for its slot while the lock's holder has it turns away.
LEMMA TestTurnsAway ==
  ASSUME IInv, NEW c \in Calls, NEW t \in Threads, Test(c, t),
         lock # None, slot = lock
  PROVE  giving' = [giving EXCEPT ![c][t] = "idle"]
<1>1. slot # None /\ slot \in Calls
  BY DEF IInv, TypeOK
<1>2. UnderLock(slot)
  BY <1>1 DEF IInv, Owners, LockWaits
<1>3. slot \notin pend
  BY <1>2 DEF IInv, Owners, Opens, UnderLock
<1>4. slot # Own(c)
  BY <1>1, <1>3 DEF Own
<1> QED
  BY <1>4 DEF Test

\* A step whose threads turn to nothing but a test, or to nothing at all,
\* leaves none before its clearing.
LEMMA NoneClears ==
  ASSUME TypeOK, ~Clearing, NEW c \in Calls, NEW t \in Threads,
         NEW v \in {"idle", "test"}, giving' = [giving EXCEPT ![c][t] = v]
  PROVE  ~Clearing'
<1>1. giving \in [Calls -> [Threads -> Gives]] /\ v \in Gives
  BY DEF TypeOK, Gives
<1>2. /\ giving'[c][t] = v
      /\ \A d \in Calls, u \in Threads :
           d # c \/ u # t => giving'[d][u] = giving[d][u]
  BY <1>1, ThreadGives
<1>3. ASSUME NEW d \in Calls, NEW u \in Threads PROVE giving'[d][u] # "clear"
  BY <1>2 DEF Clearing
<1> QED
  BY <1>3 DEF Clearing

Kept == lock # None /\ slot = lock /\ lock' = lock /\ ~Clearing =>
          slot' = slot /\ ~Clearing'

\* The steps of a call's script and of its job, one by one.
LEMMA StepKeeps == ASSUME IInv, NEW c \in Calls, Step(c) PROVE Kept
<1> SUFFICES ASSUME lock # None, slot = lock, lock' = lock, ~Clearing
             PROVE  slot' = slot /\ ~Clearing'
  BY DEF Kept
<1>1. TypeOK /\ "job" \in Threads
  BY DEF IInv, Threads
<1>2. ASSUME UNCHANGED giving PROVE ~Clearing'
  BY <1>2 DEF Clearing
<1>3. ASSUME NEW s \in States, GivesBack(c, s) PROVE ~Clearing'
  BY <1>1, <1>3, NoneClears DEF GivesBack
<1>4. ASSUME Fails(c) PROVE ~Clearing'
  <2>1. "failing" \in States
    BY DEF States
  <2> QED
    BY <1>2, <1>3, <1>4, <2>1 DEF Fails
<1>5. CASE Refused(c)
  BY <1>4, <1>5 DEF Refused
<1>6. CASE Take(c)
  BY <1>6 DEF Take
<1>7. CASE Send(c)
  BY <1>2, <1>7 DEF Send, waits
<1>8. CASE Collect(c) \/ PortKnown(c)
  BY <1>8 DEF Collect, PortKnown
<1>9. CASE Commit(c) \/ Opened(c)
  BY <1>2, <1>9 DEF Commit, Opened, jobs, waits
<1>10. CASE Skip(c)
  BY <1>1, <1>10, NoneClears DEF Skip, waits
<1>11. CASE FileSent(c)
  <2>1. \E s \in States : GivesBack(c, s)
    BY <1>11 DEF FileSent, States
  <2> QED
    BY <1>3, <1>11, <2>1 DEF FileSent, waits
<1>12. CASE StepEnds(c)
  <2>1. \E v \in {"idle", "test"} : giving' = [giving EXCEPT ![c]["job"] = v]
    BY <1>12 DEF StepEnds
  <2> QED
    BY <1>1, <1>12, <2>1, NoneClears DEF StepEnds, waits
<1>13. CASE JobEnds(c) \/ Launch(c) \/ LaunchEnds(c)
  BY <1>2, <1>13 DEF JobEnds, Launch, LaunchEnds, jobs
<1> QED
  BY <1>5, <1>6, <1>7, <1>8, <1>9, <1>10, <1>11, <1>12, <1>13
  DEF Step, Sends, Job

LEMMA NextKeeps == ASSUME IInv, [Next]_vars PROVE Kept
<1>1. ASSUME NEW c \in Calls, Step(c) PROVE Kept
  BY <1>1, StepKeeps
<1>2. ASSUME NEW c \in Calls, Cancel(c) PROVE Kept
  <2>1. UNCHANGED slot
    BY <1>2 DEF Cancel, waits
  <2>2. UNCHANGED giving \/ giving' = [giving EXCEPT ![c]["page"] = "test"]
    BY <1>2 DEF Cancel
  <2>3. "page" \in Threads /\ TypeOK
    BY DEF Threads, IInv
  <2>4. ASSUME ~Clearing PROVE ~Clearing'
    <3>1. CASE UNCHANGED giving
      BY <2>4, <3>1 DEF Clearing
    <3>2. CASE giving' = [giving EXCEPT ![c]["page"] = "test"]
      BY <2>3, <2>4, <3>2, NoneClears
    <3> QED
      BY <2>2, <3>1, <3>2
  <2> QED
    BY <2>1, <2>4 DEF Kept
<1>3. ASSUME NEW c \in Calls, NEW t \in Threads, Test(c, t) PROVE Kept
  <2>1. UNCHANGED slot /\ TypeOK
    BY <1>3 DEF Test, waits, IInv
  <2> QED
    BY <1>3, <2>1, TestTurnsAway, NoneClears DEF Kept
<1>4. ASSUME NEW c \in Calls, NEW t \in Threads, Wipe(c, t) PROVE Kept
  BY <1>4 DEF Wipe, Kept, Clearing
<1>5. CASE \E c \in Calls : Recheck(c) \/ \E k \in Kinds : Ask(c, k)
  BY <1>5 DEF Recheck, Ask, Enter, waits, Kept, Clearing
<1>6. CASE Run \/ Return \/ Arm \/ \E l \in net : Hear(l) \/ Lose(l)
  BY <1>6 DEF Run, Return, Arm, Hear, Lose, jobs, waits, Kept, Clearing
<1>7. CASE UNCHANGED vars
  BY <1>7 DEF vars, jobs, waits, Kept, Clearing
<1> QED
  BY <1>1, <1>2, <1>3, <1>4, <1>5, <1>6, <1>7 DEF Next

\* A call that has lock and slot, with no batch between its test and its
\* clearing, keeps the slot for as long as it has the lock, and the slot never
\* outlives its call (_console_script, BatchUpload.close and abort).
THEOREM SlotKept == Spec => SlotIsKept
<1> DEFINE Owned == slot' # None => Live(slot)'
<1>1. ASSUME IInv, IInv', [Next]_vars PROVE [Kept /\ Owned]_vars
  <2>1. Kept
    BY <1>1, NextKeeps
  <2>2. Owned
    BY <1>1 DEF IInv, Owners, SlotLive, HasSlot, UnderLock, WillGive, Live
  <2> QED
    BY <2>1, <2>2
<1> QED
  BY Inductive, <1>1, PTL DEF SlotIsKept, Spec, Kept

\* A game is reported present only if it was there, and its record forgotten
\* only if it was gone, since the script that is believed was sent, however
\* late the lines of others come and whatever runs between the answers and
\* their use (_verify_commit, delete_console).
THEOREM AnswersTrue == Spec => AnswersAreTrue
<1> DEFINE Believed ==
      /\ report' = "present" /\ report # "present" =>
           \E c \in Calls : Commits(c) /\ TRUE \in seen[c]
      /\ record /\ ~record' =>
           \E c \in Calls : Commits(c) /\ FALSE \in seen[c]
<1>1. ASSUME IInv, [Next]_vars PROVE [Believed]_vars
  <2>1. ASSUME NEW c \in Calls, Commit(c) PROVE Believed
    <3>1. call[c].st = "heard" /\ Over(c)
      BY <2>1 DEF Commit
    <3>2. call'[c].st = "over"
      BY <1>1, <3>1, OverCall DEF IInv
    <3>3. Commits(c)
      BY <3>1, <3>2 DEF Commits, Live
    <3>4. Looks(c) => \A w \in heard[c] : Bears(c, w)
      BY <1>1, <3>1 DEF IInv, Said, Asking
    <3>5. report' = "present" /\ report # "present" =>
            Looks(c) /\ "present" \in heard[c]
      BY <2>1 DEF Commit, Looks
    <3>6. record /\ ~record' => Looks(c) /\ "removed" \in heard[c]
      BY <2>1 DEF Commit, Looks
    <3> QED
      BY <3>3, <3>4, <3>5, <3>6 DEF Bears
  <2>2. ASSUME NEW c \in Calls, Step(c), ~Commit(c)
        PROVE  Believed
    <3>1. record => record'
      BY <2>2 DEF Step, Sends, Job, Refused, Take, Send, Collect, PortKnown,
                  Opened, Skip, FileSent, StepEnds, JobEnds, Launch, LaunchEnds
    <3>2. report' = report \/ report' = "unknown"
      BY <2>2 DEF Step, Sends, Job, Refused, Take, Send, Collect, PortKnown,
                  Opened, Skip, FileSent, StepEnds, JobEnds, Launch, LaunchEnds,
                  view
    <3> QED
      BY <3>1, <3>2
  <2>3. CASE \E c \in Calls : \/ Recheck(c) \/ Cancel(c)
                              \/ \E k \in Kinds : Ask(c, k)
                              \/ \E t \in Threads : Test(c, t) \/ Wipe(c, t)
    BY <2>3 DEF Recheck, Cancel, Ask, Enter, Test, Wipe, view
  <2>4. CASE \/ Run \/ Return \/ Arm
             \/ \E l \in net : Hear(l) \/ Lose(l)
    BY <2>4 DEF Run, Return, Arm, Hear, Lose, view
  <2> QED
    BY <1>1, <2>1, <2>2, <2>3, <2>4 DEF Next
<1> QED
  BY Inductive, <1>1, PTL DEF AnswersAreTrue, Spec
=============================================================================
