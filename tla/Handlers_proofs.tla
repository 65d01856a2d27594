---------------------------- MODULE Handlers_proofs ----------------------------
(***************************************************************************)
(* What the steps every component's handlers are made of do to the locals  *)
(* of a request and to its answer.  The proofs about components cite these *)
(* lemmas instead of the definitions.                                      *)
(***************************************************************************)
EXTENDS Handlers, FiniteSetTheorems, TLAPS

IsLocals(c) == \E S : c \in [pc : S, op : S, id : S, arg : S, read : S]

LEMMA LabelledLocals ==
  ASSUME NEW c, IsLocals(c), NEW label, NEW d, d = [c EXCEPT !.pc = label]
  PROVE  /\ IsLocals(d) /\ d.pc = label /\ d.read = c.read
         /\ d.op = c.op /\ d.id = c.id /\ d.arg = c.arg
  <1>1. PICK S : c \in [pc : S, op : S, id : S, arg : S, read : S]
    BY DEF IsLocals
  <1>2. PICK T : T = S \cup {label}
    OBVIOUS
  <1>3. d \in [pc : T, op : T, id : T, arg : T, read : T]
    BY <1>1, <1>2
  <1> QED
    BY <1>1, <1>3 DEF IsLocals

LEMMA NewLocals ==
  ASSUME NEW label, NEW op, NEW id, NEW arg, NEW c,
         c = [pc |-> label, op |-> op, id |-> id, arg |-> arg, read |-> Nobody]
  PROVE  IsLocals(c) /\ c.pc = label /\ c.op = op /\ c.id = id /\ c.arg = arg /\ c.read = Nobody
  <1>1. PICK T : T = {label, op, id, arg, Nobody}
    OBVIOUS
  <1>2. c \in [pc : T, op : T, id : T, arg : T, read : T]
    BY <1>1
  <1> QED
    BY <1>2 DEF IsLocals

LEMMA DoneLocals ==
  ASSUME NEW op, NEW c, c = Done(op)
  PROVE  IsLocals(c) /\ c.pc = "done" /\ c.op = op
  <1>1. PICK T : T = {"done", "none", "idle", Nobody, op}
    OBVIOUS
  <1>2. c \in [pc : T, op : T, id : T, arg : T, read : T] /\ c.pc = "done" /\ c.op = op
    BY <1>1 DEF Done, Idle
  <1> QED
    BY <1>2 DEF IsLocals

(* A request is answered when it is done, and not before.                  *)
HandlersOK ==
    /\ call = [r \in Requests |-> call[r]]
    /\ answer = [r \in Requests |-> answer[r]]
    /\ alone \subseteq Requests
    /\ \A r \in Requests : /\ IsLocals(call[r])
                           /\ call[r].pc # "done" => answer[r] = Pending

(* Of the requests, only r goes on.                                        *)
OnlyMoves(r) ==
    /\ \A q \in Requests \ {r} : call'[q] = call[q] /\ answer'[q] = answer[q]
    /\ HandlersOK'

(* The label and the command r goes on with; or the command it has.        *)
GoesAs(r, label, op, id, arg) ==
    /\ call'[r].pc = label /\ call'[r].op = op /\ call'[r].id = id /\ call'[r].arg = arg

GoesTo(r, label) == GoesAs(r, label, call[r].op, call[r].id, call[r].arg)

LEMMA InitHandlersOK == HandlersInit => HandlersOK
  BY NewLocals DEF HandlersInit, HandlersOK, Idle

LEMMA MovedOK ==
  ASSUME HandlersOK, NEW r \in Requests, NEW c, IsLocals(c), call' = [call EXCEPT ![r] = c],
         NEW status, answer' = [answer EXCEPT ![r] = status],
         c.pc # "done" => status = Pending, alone' \subseteq Requests
  PROVE  OnlyMoves(r) /\ call'[r] = c /\ answer'[r] = status
  BY DEF HandlersOK, OnlyMoves

LEMMA GotoIs ==
  ASSUME HandlersOK, NEW r \in Requests, NEW label, call[r].pc # "done", Goto(r, label)
  PROVE  /\ OnlyMoves(r) /\ GoesTo(r, label) /\ call'[r].read = call[r].read
         /\ answer' = answer /\ alone' = alone
  <1>1. PICK c : c = [call[r] EXCEPT !.pc = label]
    OBVIOUS
  <1>2. IsLocals(c) /\ c.pc = label /\ c.op = call[r].op /\ c.id = call[r].id
        /\ c.arg = call[r].arg /\ c.read = call[r].read
    BY <1>1, LabelledLocals DEF HandlersOK
  <1>3. call' = [call EXCEPT ![r] = c] /\ answer' = [answer EXCEPT ![r] = answer[r]]
        /\ alone' = alone
    BY <1>1 DEF Goto, HandlersOK
  <1>4. answer[r] = Pending
    BY DEF HandlersOK
  <1>5. OnlyMoves(r) /\ call'[r] = c
    BY <1>2, <1>3, <1>4, MovedOK DEF HandlersOK
  <1> QED
    BY <1>2, <1>5 DEF GoesTo, GoesAs, Goto

LEMMA KeepIs ==
  ASSUME HandlersOK, NEW r \in Requests, NEW label, NEW read, call[r].pc # "done",
         Keep(r, read, label)
  PROVE  /\ OnlyMoves(r) /\ GoesTo(r, label) /\ call'[r].read = read
         /\ answer' = answer /\ alone' = alone
  <1>1. PICK c : c = [call[r] EXCEPT !.pc = label, !.read = read]
    OBVIOUS
  <1>2. IsLocals(c) /\ c.pc = label /\ c.op = call[r].op /\ c.id = call[r].id
        /\ c.arg = call[r].arg /\ c.read = read
    <2>1. PICK S : call[r] \in [pc : S, op : S, id : S, arg : S, read : S]
      BY DEF HandlersOK, IsLocals
    <2>2. PICK T : T = S \cup {label, read}
      OBVIOUS
    <2>3. c \in [pc : T, op : T, id : T, arg : T, read : T]
      BY <1>1, <2>1, <2>2
    <2> QED
      BY <1>1, <2>1, <2>3 DEF IsLocals
  <1>3. call' = [call EXCEPT ![r] = c] /\ answer' = [answer EXCEPT ![r] = answer[r]]
        /\ alone' = alone
    BY <1>1 DEF Keep, HandlersOK
  <1>4. answer[r] = Pending
    BY DEF HandlersOK
  <1>5. OnlyMoves(r) /\ call'[r] = c
    BY <1>2, <1>3, <1>4, MovedOK DEF HandlersOK
  <1> QED
    BY <1>2, <1>5 DEF GoesTo, GoesAs, Keep

(* Done(op) is where a request ends, however it does.                      *)
LEMMA DoneIs ==
  ASSUME HandlersOK, NEW r \in Requests, NEW op, call' = [call EXCEPT ![r] = Done(op)],
         NEW status, answer' = [answer EXCEPT ![r] = status], alone' = alone
  PROVE  OnlyMoves(r) /\ call'[r].pc = "done" /\ call'[r].op = op /\ answer'[r] = status
  <1>1. IsLocals(Done(op)) /\ Done(op).pc = "done" /\ Done(op).op = op
    BY DoneLocals
  <1>2. OnlyMoves(r) /\ call'[r] = Done(op) /\ answer'[r] = status
    BY <1>1, MovedOK DEF HandlersOK
  <1> QED
    BY <1>1, <1>2

LEMMA ReplyIs ==
  ASSUME HandlersOK, NEW r \in Requests, NEW status, Reply(r, status)
  PROVE  /\ OnlyMoves(r) /\ call'[r].pc = "done" /\ call'[r].op = call[r].op
         /\ answer'[r] = status /\ alone' = alone
  BY DoneIs DEF Reply, HandlersOK

LEMMA RefuseIs ==
  ASSUME HandlersOK, NEW r \in Requests, NEW op, NEW status, Refuse(r, op, status)
  PROVE  /\ OnlyMoves(r) /\ call'[r].pc = "done" /\ call'[r].op = op
         /\ answer'[r] = status /\ alone' = alone
  BY DoneIs DEF Refuse

LEMMA FailIs ==
  ASSUME HandlersOK, NEW r \in Requests, NEW status, FailWith(r, status)
  PROVE  /\ OnlyMoves(r) /\ call'[r].pc = "done" /\ call'[r].op = call[r].op
         /\ answer'[r] = status /\ alone' = alone
  BY DoneIs DEF FailWith, HandlersOK

LEMMA ArriveIs ==
  ASSUME HandlersOK, NEW r \in Requests, NEW label, NEW op, NEW id, NEW arg,
         Arrive(r, label, op, id, arg)
  PROVE  /\ OnlyMoves(r) /\ answer' = answer
         /\ call[r].pc = "idle"
         /\ GoesAs(r, label, op, id, arg) /\ call'[r].read = Nobody
         /\ alone' = IF InFlight = {} THEN alone \cup {r} ELSE alone \ InFlight
  <1>1. PICK c : c = [pc |-> label, op |-> op, id |-> id, arg |-> arg, read |-> Nobody]
    OBVIOUS
  <1>2. call[r].pc = "idle" /\ answer[r] = Pending
    BY DEF Arrive, At, HandlersOK
  <1>3. alone' \subseteq Requests
    BY DEF Arrive, HandlersOK
  <1>4. call' = [call EXCEPT ![r] = c] /\ answer' = [answer EXCEPT ![r] = answer[r]]
    BY <1>1 DEF Arrive, HandlersOK
  <1>5. IsLocals(c) /\ c.pc = label /\ c.op = op /\ c.id = id /\ c.arg = arg /\ c.read = Nobody
    BY <1>1, NewLocals
  <1>6. OnlyMoves(r) /\ call'[r] = c
    BY <1>2, <1>3, <1>4, <1>5, MovedOK
  <1> QED
    BY <1>2, <1>5, <1>6 DEF Arrive, GoesAs

-----------------------------------------------------------------------------
(* A request that nothing overlapped                                       *)

(* Next to a request that runs alone nothing is in flight.                 *)
Solo ==
    /\ \A r \in alone : r \in InFlight => InFlight = {r}
    /\ \A r \in alone : ~ At(r, "idle")

LEMMA NoOtherIsAlone ==
  ASSUME Solo, NEW r \in InFlight, NEW q \in InFlight, q # r
  PROVE  q \notin alone /\ r \notin alone
  BY DEF Solo

LEMMA SoloStays ==
  ASSUME HandlersOK, Solo, NEW r \in InFlight, OnlyMoves(r), call'[r].pc # "idle", alone' = alone
  PROVE  Solo'
  <1>1. InFlight' \subseteq InFlight /\ r \in Requests
    BY DEF InFlight, OnlyMoves, At
  <1> QED
    BY <1>1 DEF Solo, OnlyMoves, At, HandlersOK, InFlight

LEMMA SoloRefuse ==
  ASSUME HandlersOK, Solo, NEW r \in Requests, OnlyMoves(r), call[r].pc = "idle",
         call'[r].pc = "done", alone' = alone
  PROVE  Solo'
  <1>1. InFlight' = InFlight
    BY DEF InFlight, OnlyMoves, At
  <1> QED
    BY <1>1 DEF Solo, OnlyMoves, At, HandlersOK

LEMMA SoloArrive ==
  ASSUME HandlersOK, Solo, NEW r \in Requests, NEW label, label \notin {"idle", "done"},
         NEW op, NEW id, NEW arg, Arrive(r, label, op, id, arg)
  PROVE  Solo' /\ alone' \subseteq alone \cup {r} /\ \A q \in InFlight : q \notin alone'
  <1>1. OnlyMoves(r) /\ call'[r].pc = label /\ call[r].pc = "idle"
    BY ArriveIs DEF GoesAs
  <1>2. InFlight' = InFlight \cup {r} /\ r \notin InFlight
    BY <1>1 DEF InFlight, OnlyMoves, At
  <1>3. alone' = IF InFlight = {} THEN alone \cup {r} ELSE alone \ InFlight
    BY ArriveIs
  <1>4. r \notin alone
    BY <1>1 DEF Solo, At
  <1> QED
    BY <1>1, <1>2, <1>3, <1>4 DEF Solo, OnlyMoves, At, HandlersOK

=============================================================================
