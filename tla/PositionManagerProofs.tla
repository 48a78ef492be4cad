----------------------- MODULE PositionManagerProofs -----------------------
(***************************************************************************)
(* Proofs about PositionManager, for any number of overlapping sweeps, any *)
(* ladders, buys, exits and faults.  The inductive invariant has parts     *)
(* that build on each other: the variables have their types and each       *)
(* caller is at a check it can be at; the saved row is the position, but   *)
(* for the two windows SavedIsCurrent names; a pending key stands for      *)
(* every exit that runs with it; and fills under way are named by their    *)
(* order, so that none counts twice in what the position and the wallet    *)
(* differ by.                                                              *)
(***************************************************************************)
EXTENDS PositionManager, FiniteSetTheorems, SequenceTheorems, TLAPS

\* Only the flatten request asks for check 0, and it evaluates nothing.
CallersInPlace ==
    /\ \A c \in Caller : caller[c].at \in {"decimals", "answer"} => caller[c].check \in Check
    /\ \A c \in Sweep : caller[c].at # "idle" => caller[c].check # ManualFlatten
    /\ caller[Flatten].at # "evaluating" /\ caller[Flatten].check = ManualFlatten

\* Exits have ids of their own, and one whose key was not dropped still has it.
ExitsNamed ==
    /\ \A x \in running : x.id <= exits
    /\ \A x, y \in running : x.id = y.id => x = y
KeysStand == \A x \in running : x.exposed \/ Reason(x.check) \in pending

\* A fill is under way once: it carries the number of a buy, or of an exit that
\* no longer runs.
Waiters == {g \in handling : g.at = "decimals"}
Travelling == {stream[i] : i \in 1..Len(stream)} \cup {h.fill : h \in Waiters}
TravelOnce ==
    /\ IsFiniteSet(handling)
    /\ \A i, j \in 1..Len(stream) : stream[i] = stream[j] => i = j
    /\ \A i \in 1..Len(stream) : [fill |-> stream[i], at |-> "decimals"] \notin handling
FillsNamed ==
    \A f \in Travelling :
        /\ f.side = "buy" => f.n \in 1..buys /\ f.qty = BuyQty
        /\ f.side = "sell" => f.n \in 1..exits /\ \A x \in running : x.id # f.n

\* Nothing is sold before the one buy has reached the position.
NothingToSell ==
    ~ missed /\ buys <= 1 /\ (buys = 0 \/ UnderWay("buy") # {}) => quantity = 0 /\ exits = 0

BaseInv == TypeOK /\ CallersInPlace
KeyInv == ExitsNamed /\ KeysStand /\ SuppressedWhilePending
HoldInv == TravelOnce /\ FillsNamed /\ NothingToSell /\ HoldingsFollowFills
IInv == BaseInv /\ SavedIsCurrent /\ KeyInv /\ HoldInv
-----------------------------------------------------------------------------
(* Total, which is defined by recursion over a chosen order, counts units *)

\* The units of the fills in S, each named.
Units(S) == UNION {{f} \X (1..f.qty) : f \in S}

LEMMA LeastNatural ==
    ASSUME NEW T, T \subseteq Nat, T # {}
    PROVE  \E n \in T : \A m \in T : n <= m
<1>1. PICK n \in T : \A m \in T : ~ (<<m, n>> \in OpToRel(<, Nat))
  BY NatLessThanWellFounded, WFMin
<1>2. \A m \in T : ~ (m < n)
  BY <1>1 DEF OpToRel
<1>. QED
  BY <1>2

LEMMA UnitsOfFill ==
    ASSUME NEW f, NEW n \in Nat
    PROVE  IsFiniteSet({f} \X (1..n)) /\ Cardinality({f} \X (1..n)) = n
<1>1. IsFiniteSet(1..n) /\ Cardinality(1..n) = n
  <2>1. IsFiniteSet(1..n) /\ Cardinality(1..n) = IF 1 > n THEN 0 ELSE n - 1 + 1
    BY FS_Interval
  <2>. QED
    BY <2>1
<1>2. IsFiniteSet({f}) /\ Cardinality({f}) = 1
  BY FS_Singleton
<1>3. /\ IsFiniteSet({f} \X (1..n))
      /\ Cardinality({f} \X (1..n)) = Cardinality({f}) * Cardinality(1..n)
  BY <1>1, <1>2, FS_Product
<1>4. 1 * n = n
  OBVIOUS
<1>. QED
  BY <1>1, <1>2, <1>3, <1>4

LEMMA UnitsFinite ==
    ASSUME NEW S, IsFiniteSet(S), \A f \in S : f.qty \in Nat
    PROVE  IsFiniteSet(Units(S))
<1>. DEFINE Of == [f \in S |-> {f} \X (1..f.qty)]
            All == {{f} \X (1..f.qty) : f \in S}
<1>1. Of \in Surjection(S, All)
  BY DEF Surjection
<1>2. IsFiniteSet(All)
  BY <1>1, FS_Surjection
<1>3. ASSUME NEW f \in S PROVE IsFiniteSet({f} \X (1..f.qty))
  BY UnitsOfFill
<1>4. \A U \in All : IsFiniteSet(U)
  BY <1>3
<1>. QED
  BY <1>2, <1>4, FS_UNION DEF Units

LEMMA UnitsOfOne ==
    ASSUME NEW S, IsFiniteSet(S), \A f \in S : f.qty \in Nat, NEW x \in S
    PROVE  Cardinality(Units(S)) = x.qty + Cardinality(Units(S \ {x}))
<1>. DEFINE X == {x} \X (1..x.qty)
            R == Units(S \ {x})
<1>1. Units(S) = X \cup R /\ X \cap R = {}
  BY DEF Units
<1>2. IsFiniteSet(X) /\ Cardinality(X) = x.qty
  BY UnitsOfFill
<1>3. IsFiniteSet(R)
  BY FS_RemoveElement, UnitsFinite
<1>. HIDE DEF X, R
<1>4. Cardinality(R) \in Nat
  BY <1>3, FS_CardinalityType
<1>5. /\ Cardinality(X \cap R) = 0
      /\ Cardinality(X \cup R) = Cardinality(X) + Cardinality(R) - Cardinality(X \cap R)
  BY <1>1, <1>2, <1>3, FS_Union, FS_EmptySet
<1>6. Cardinality(Units(S)) = x.qty + Cardinality(R)
  BY <1>1, <1>2, <1>4, <1>5
<1>. QED
  BY <1>6 DEF R

LEMMA TotalIsCount ==
    ASSUME NEW S, IsFiniteSet(S), \A f \in S : f.qty \in Nat
    PROVE  Total(S) = Cardinality(Units(S))
<1>. DEFINE Step(g, s) == IF s = {} THEN 0
                          ELSE (CHOOSE x \in s : TRUE).qty + g[s \ {CHOOSE x \in s : TRUE}]
            iter == CHOOSE g : g = [s \in SUBSET S |-> Step(g, s)]
            count == [s \in SUBSET S |-> Cardinality(Units(s))]
<1>1. Total(S) = iter[S]
  BY DEF Total, MapThenSumSet, MapThenFoldSet
<1>2. ASSUME NEW s \in SUBSET S PROVE count[s] = Step(count, s)
  <2>1. CASE s = {}
    BY <2>1, FS_EmptySet DEF Units
  <2>2. CASE s # {}
    <3>. DEFINE x == CHOOSE x \in s : TRUE
    <3>1. x \in s /\ s \ {x} \in SUBSET S
      BY <2>2
    <3>2. IsFiniteSet(s) /\ \A f \in s : f.qty \in Nat
      BY FS_Subset
    <3>3. Cardinality(Units(s)) = x.qty + Cardinality(Units(s \ {x}))
      BY <3>1, <3>2, UnitsOfOne
    <3>. QED
      BY <2>2, <3>1, <3>3
  <2>. QED
    BY <2>1, <2>2
<1>3. count = [s \in SUBSET S |-> Step(count, s)]
  BY <1>2
<1>4. iter = [s \in SUBSET S |-> Step(iter, s)]
  BY <1>3
<1>. HIDE DEF iter, count
<1>5. ASSUME NEW s \in SUBSET S, iter[s] # count[s] PROVE FALSE
  <2>. DEFINE Bad == {n \in Nat : \E t \in SUBSET S : Cardinality(t) = n /\ iter[t] # count[t]}
  <2>1. ASSUME NEW t \in SUBSET S PROVE IsFiniteSet(t) /\ Cardinality(t) \in Nat
    BY FS_Subset, FS_CardinalityType
  <2>2. Cardinality(s) \in Bad
    BY <1>5, <2>1
  <2>3. PICK n \in Bad : \A m \in Bad : n <= m
    <3>. HIDE DEF Bad
    <3>. QED
      BY <2>2, LeastNatural DEF Bad
  <2>4. PICK t \in SUBSET S : Cardinality(t) = n /\ iter[t] # count[t]
    BY <2>3
  <2>. DEFINE x == CHOOSE x \in t : TRUE
  <2>5. t # {}
    BY <1>2, <1>4, <2>4
  <2>6. x \in t /\ t \ {x} \in SUBSET S
    BY <2>5
  <2>7. Cardinality(t \ {x}) = n - 1 /\ n \in Nat
    BY <2>1, <2>4, <2>6, FS_RemoveElement
  <2>8. iter[t \ {x}] = count[t \ {x}]
    BY <2>1, <2>3, <2>6, <2>7
  <2>9. iter[t] = Step(iter, t) /\ count[t] = Step(count, t)
    BY <1>2, <1>4
  <2>. QED
    BY <2>4, <2>5, <2>8, <2>9
<1>. QED
  BY <1>1, <1>5 DEF count

\* The total without a fill, and with one that is new.
LEMMA TotalWithout ==
    ASSUME NEW S, IsFiniteSet(S), \A f \in S : f.qty \in Nat, NEW x \in S
    PROVE  /\ Total(S \ {x}) \in Nat
           /\ Total(S) = x.qty + Total(S \ {x})
<1>1. IsFiniteSet(S \ {x})
  BY FS_RemoveElement
<1>. QED
  BY <1>1, TotalIsCount, UnitsOfOne, UnitsFinite, FS_CardinalityType

LEMMA TotalWith ==
    ASSUME NEW S, IsFiniteSet(S), \A f \in S : f.qty \in Nat, NEW x, x \notin S, x.qty \in Nat
    PROVE  Total(S \cup {x}) = x.qty + Total(S)
<1>1. IsFiniteSet(S \cup {x}) /\ (S \cup {x}) \ {x} = S
  BY FS_AddElement
<1>. QED
  BY <1>1, TotalWithout

LEMMA TotalOfNone == Total({}) = 0
<1>1. Units({}) = {}
  BY DEF Units
<1>. QED
  BY <1>1, TotalIsCount, FS_EmptySet
-----------------------------------------------------------------------------
(* Types, and where the callers are *)

LEMMA Checks ==
    /\ HardStop \in Nat /\ FirstLadder \in Nat /\ Trail \in Nat
    /\ Check = 0..HardStop
    /\ 3 < FirstLadder /\ FirstLadder < Trail /\ Trail < HardStop
    /\ Trail = FirstLadder + LadderRungs /\ FirstLadder = 4 + SurvivalRungs
BY ConstantsAssumption
   DEF ConstantsAssumption, HardStop, FirstLadder, Trail, Check, ManualFlatten

LEMMA RungChecks ==
    ASSUME NEW k \in Check
    PROVE  /\ IsRung(k) => Mark(k) \in Rung /\ k # ManualFlatten /\ k + 1 \in Check \ {ManualFlatten}
           /\ Reason(k) \in Check
           /\ \A q \in Nat : Amount(k, q) \in Nat
<1>. USE ConstantsAssumption, Checks DEF ConstantsAssumption
<1>1. IsRung(k) => Mark(k) \in Rung
  BY DEF IsRung, Mark, Rung, InSurvival, InLadder, HazardTrail
<1>2. IsRung(k) => k # ManualFlatten /\ k + 1 \in Check \ {ManualFlatten}
  BY DEF IsRung, InSurvival, InLadder, HazardTrail, ManualFlatten
<1>3. Reason(k) \in Check
  BY DEF Reason, Panic, Kill, HazardTrail
<1>4. \A q \in Nat : Amount(k, q) \in Nat
  BY DEF Amount
<1>. QED
  BY <1>1, <1>2, <1>3, <1>4

Place == [at : {"idle", "evaluating", "decimals", "answer"},
          check : 0..HardStop + 1, exit : 0..MaxExits]

\* Where a caller may be: what TypeOK and CallersInPlace say of one.
PlaceOK(c, r) ==
    /\ r \in Place
    /\ r.at \in {"decimals", "answer"} => r.check \in Check
    /\ c \in Sweep => (r.at # "idle" => r.check # ManualFlatten)
    /\ c = Flatten => r.at # "evaluating" /\ r.check = ManualFlatten

LEMMA CallersOK ==
    BaseInv <=> /\ TypeOK
                /\ caller \in [Caller -> Place]
                /\ \A c \in Caller : PlaceOK(c, caller[c])
BY DEF BaseInv, TypeOK, CallersInPlace, PlaceOK, Caller, Place

\* A caller that is moved to a place it may be at leaves the others in theirs.
LEMMA OneMoves ==
    ASSUME BaseInv, NEW c \in Caller, NEW r, PlaceOK(c, r),
           caller' = [caller EXCEPT ![c] = r]
    PROVE  caller' \in [Caller -> Place] /\ CallersInPlace'
<1>1. caller \in [Caller -> Place] /\ \A d \in Caller : PlaceOK(d, caller[d])
  BY CallersOK
<1>2. caller' \in [Caller -> Place] /\ \A d \in Caller : PlaceOK(d, caller'[d])
  BY <1>1 DEF PlaceOK
<1>. QED
  BY <1>2 DEF PlaceOK, CallersInPlace, Caller

LEMMA IdleOK == \A c \in Caller : PlaceOK(c, Idle)
BY Checks, ConstantsAssumption
   DEF PlaceOK, Place, Idle, Caller, ManualFlatten, ConstantsAssumption

LEMMA EvaluatingOK ==
    ASSUME NEW c \in Sweep, NEW k \in 1..(HardStop + 1)
    PROVE  PlaceOK(c, [at |-> "evaluating", check |-> k, exit |-> 0])
BY Checks, ConstantsAssumption DEF PlaceOK, Place, ManualFlatten, ConstantsAssumption

\* triggerExit returned.
LEMMA AfterExitOK ==
    ASSUME BaseInv, NEW c \in Caller, NEW k \in Check, c = Flatten <=> k = ManualFlatten,
           AfterExit(c, k)
    PROVE  /\ hits' \in SUBSET Rung /\ trail' \in BOOLEAN /\ quantity' = quantity
           /\ saved' \in Row
           /\ caller' \in [Caller -> Place] /\ CallersInPlace'
<1>1. hits' \in SUBSET Rung /\ trail' \in BOOLEAN /\ quantity' = quantity
  BY RungChecks DEF AfterExit, BaseInv, TypeOK
<1>2. CASE IsRung(k)
  <2>1. c \in Sweep /\ k + 1 \in 1..(HardStop + 1)
    BY <1>2, RungChecks, Checks DEF Caller, ManualFlatten
  <2>2. caller' = [caller EXCEPT ![c] = [at |-> "evaluating", check |-> k + 1, exit |-> 0]]
    BY <1>2, RungChecks DEF AfterExit, Goto
  <2>3. saved' = saved
    BY <1>2, RungChecks DEF AfterExit
  <2>. QED
    BY <1>1, <2>1, <2>2, <2>3, EvaluatingOK, OneMoves DEF BaseInv, TypeOK
<1>3. CASE ~ IsRung(k)
  <2>1. caller' = [caller EXCEPT ![c] = Idle]
    <3>1. CASE k = ManualFlatten
      BY <1>3, <3>1 DEF AfterExit, Leave
    <3>2. CASE k # ManualFlatten
      BY <1>3, <3>2 DEF AfterExit, EndSweep, Leave
    <3>. QED
      BY <3>1, <3>2
  <2>2. saved' = saved \/ saved' = [quantity |-> quantity', hits |-> hits', trail |-> trail']
    BY <1>3 DEF AfterExit, EndSweep, Persist, UpsertPosition
  <2>3. saved' \in Row
    BY <1>1, <2>2 DEF Row, BaseInv, TypeOK
  <2>. QED
    BY <1>1, <2>1, <2>3, IdleOK, OneMoves
<1>. QED
  BY <1>2, <1>3

\* An exit is submitted.
LEMMA SubmitOK ==
    ASSUME BaseInv, NEW c \in Caller, NEW k \in Check, c = Flatten <=> k = ManualFlatten,
           NEW unseen \in BOOLEAN, Submit(c, k, unseen)
    PROVE  /\ exits' \in 0..MaxExits
           /\ pending' \in SUBSET Check
           /\ running' \in SUBSET Exit
           /\ fired' \in SUBSET [id : 1..MaxExits, check : Check, position : Nat]
           /\ caller' \in [Caller -> Place] /\ CallersInPlace'
<1>. USE ConstantsAssumption DEF ConstantsAssumption, Submit
<1>1. exits' \in 1..MaxExits
  BY DEF BaseInv, TypeOK
<1>2. pending' \in SUBSET Check
  BY RungChecks DEF BaseInv, TypeOK
<1>3. running' \in SUBSET Exit
  <2>1. [id |-> exits', check |-> k, amount |-> Amount(k, quantity),
         exposed |-> FALSE, unseen |-> unseen] \in Exit
    BY <1>1, RungChecks DEF BaseInv, TypeOK, Exit
  <2>. QED
    BY <2>1 DEF BaseInv, TypeOK
<1>4. fired' \in SUBSET [id : 1..MaxExits, check : Check, position : Nat]
  BY <1>1 DEF BaseInv, TypeOK
<1>5. PlaceOK(c, [at |-> "answer", check |-> k, exit |-> exits'])
  BY <1>1, Checks DEF PlaceOK, Place, Caller
<1>6. caller' = [caller EXCEPT ![c] = [at |-> "answer", check |-> k, exit |-> exits']]
  OBVIOUS
<1>7. caller' \in [Caller -> Place] /\ CallersInPlace'
  BY <1>5, <1>6, OneMoves
<1>. QED
  BY <1>1, <1>2, <1>3, <1>4, <1>7

LEMMA ExposeOK ==
    ASSUME BaseInv, NEW xs \in SUBSET running, Expose(xs)
    PROVE  running' \in SUBSET Exit
<1>1. ASSUME NEW x \in running PROVE [x EXCEPT !.exposed = TRUE] \in Exit
  BY DEF BaseInv, TypeOK, Exit
<1>. QED
  BY <1>1 DEF Expose, BaseInv, TypeOK

Handler == [fill : Fill, at : {"decimals", "solPrice"}]

LEMMA CurrentRow ==
    ASSUME quantity' \in Nat, hits' \in SUBSET Rung, trail' \in BOOLEAN, Persist
    PROVE  saved' \in Row
BY DEF Persist, UpsertPosition, Row

\* A fill is applied.
LEMMA ApplyOK ==
    ASSUME BaseInv, NEW f \in Fill, NEW others \in SUBSET Handler, Apply(f, others)
    PROVE  /\ quantity' \in Nat /\ hits' \in SUBSET Rung /\ trail' \in BOOLEAN
           /\ saved' \in Row /\ opened' \in Nat
           /\ pending' \in SUBSET Check /\ running' \in SUBSET Exit
           /\ handling' \in SUBSET Handler
<1>1. f.qty \in Nat /\ [fill |-> f, at |-> "solPrice"] \in Handler
  BY DEF Fill, Handler
<1>2. handling' \in SUBSET Handler
  BY <1>1 DEF Apply
<1>3. CASE ApplyBuy(f)
  <2>1. quantity' \in Nat /\ hits' \in SUBSET Rung /\ trail' \in BOOLEAN /\ opened' \in Nat
    BY <1>1, <1>3 DEF ApplyBuy, BaseInv, TypeOK
  <2>2. pending' \in SUBSET Check /\ running' \in SUBSET Exit
    BY <1>3, ExposeOK DEF ApplyBuy, ForgetPending
  <2>. QED
    BY <1>2, <1>3, <2>1, <2>2, CurrentRow DEF ApplyBuy
<1>4. CASE ApplySell(f)
  <2>1. quantity' \in Nat /\ hits' \in SUBSET Rung /\ trail' \in BOOLEAN /\ opened' \in Nat
    BY <1>1, <1>4 DEF ApplySell, BaseInv, TypeOK
  <2>2. pending' \in SUBSET Check /\ running' \in SUBSET Exit
    BY <1>4, ExposeOK DEF ApplySell, ForgetPending
  <2>. QED
    BY <1>2, <1>4, <2>1, <2>2, CurrentRow DEF ApplySell
<1>5. CASE ApplyClose(f)
  BY <1>2, <1>5 DEF ApplyClose, BaseInv, TypeOK
<1>. QED
  BY <1>3, <1>4, <1>5 DEF Apply

LEMMA HydrateOK ==
    ASSUME BaseInv, Hydrate
    PROVE  /\ quantity' \in Nat /\ hits' \in SUBSET Rung /\ trail' \in BOOLEAN
           /\ saved' \in Row /\ warm' \in BOOLEAN
BY DEF BaseInv, TypeOK, Hydrate, Row, OpenPositions

LEMMA RestartOK ==
    ASSUME BaseInv, Restart
    PROVE  BaseInv'
<1>1. /\ quantity' \in Nat /\ hits' \in SUBSET Rung /\ trail' \in BOOLEAN
      /\ saved' \in Row /\ warm' \in BOOLEAN
  BY HydrateOK DEF Restart
<1>2. running' \in SUBSET Exit
  BY ExposeOK DEF Restart
<1>3. caller' \in [Caller -> Place] /\ \A c \in Caller : PlaceOK(c, caller'[c])
  BY IdleOK DEF Restart, PlaceOK
<1>4. missed' \in BOOLEAN
  BY DEF Restart, BaseInv, TypeOK
<1>5. faults' \in 0..MaxFaults
  BY ConstantsAssumption DEF Restart, Fault, BaseInv, TypeOK, ConstantsAssumption
<1>6. stream' \in Seq(Fill) /\ handling' \in SUBSET Handler
  BY DEF Restart
<1>7. TypeOK'
  BY <1>1, <1>2, <1>3, <1>4, <1>5, <1>6 DEF Restart, BaseInv, TypeOK, Place, Handler
<1>. QED
  BY <1>3, <1>7 DEF BaseInv, CallersInPlace, PlaceOK, Caller

\* What holds of a fill at the head of the stream.
LEMMA StreamHead ==
    ASSUME TypeOK, stream # <<>>
    PROVE  Head(stream) \in Fill /\ Tail(stream) \in Seq(Fill)
BY DEF TypeOK

\* triggerExit is called for a check that may be asked for.
LEMMA TriggerOK ==
    ASSUME BaseInv, NEW c \in Caller, NEW k \in Check, c = Flatten <=> k = ManualFlatten,
           Trigger(c, k)
    PROVE  BaseInv'
<1>. USE DEF Trigger
<1>1. CASE AfterExit(c, k) /\ UNCHANGED <<pending, exitVars>>
  BY <1>1, AfterExitOK DEF BaseInv, TypeOK, Place, exitVars, boundVars
<1>2. CASE Submit(c, k, FALSE) /\ UNCHANGED positionVars
  BY <1>2, SubmitOK DEF BaseInv, TypeOK, Place, positionVars, boundVars
<1>3. CASE Goto(c, "decimals", k) /\ UNCHANGED <<positionVars, pending, exitVars>>
  <2>1. PlaceOK(c, [at |-> "decimals", check |-> k, exit |-> 0])
    BY Checks, ConstantsAssumption
       DEF PlaceOK, Place, ManualFlatten, Caller, ConstantsAssumption
  <2>2. caller' \in [Caller -> Place] /\ CallersInPlace'
    BY <1>3, <2>1, OneMoves DEF Goto
  <2>. QED
    BY <1>3, <2>2 DEF BaseInv, TypeOK, Place, positionVars, exitVars, boundVars
<1>. QED
  BY <1>1, <1>2, <1>3

LEMMA BaseStep ==
    ASSUME BaseInv, [Next]_vars
    PROVE  BaseInv'
<1>0. /\ caller \in [Caller -> Place] /\ \A c \in Caller : PlaceOK(c, caller[c])
      /\ Sweep \subseteq Caller /\ Flatten \in Caller /\ Flatten \notin Sweep
  BY CallersOK, ConstantsAssumption DEF Caller, ConstantsAssumption
<1>1. ASSUME NEW c \in Sweep, BeginSweep(c) PROVE BaseInv'
  <2>1. PlaceOK(c, [at |-> "evaluating", check |-> Kill, exit |-> 0])
    <3>1. Kill \in 1..(HardStop + 1)
      BY Checks DEF Kill
    <3>. QED
      BY <3>1, EvaluatingOK
  <2>2. caller' \in [Caller -> Place] /\ CallersInPlace'
    BY <1>0, <1>1, <2>1, OneMoves DEF BeginSweep, Goto
  <2>. QED
    BY <1>1, <2>2 DEF BeginSweep, BaseInv, TypeOK, Place, positionVars, idleUnchanged, exitVars,
                      boundVars
<1>2. ASSUME NEW c \in Sweep, Evaluate(c) PROVE BaseInv'
  <2>1. PICK k \in caller[c].check..HardStop : Trigger(c, k)
    BY <1>2 DEF Evaluate
  <2>2. caller[c].check \in 1..(HardStop + 1)
    BY <1>0, <1>2, Checks DEF PlaceOK, Place, Evaluate, ManualFlatten
  <2>3. k \in Check /\ k # ManualFlatten
    BY <2>2, Checks DEF ManualFlatten
  <2>. QED
    BY <1>0, <2>1, <2>3, TriggerOK
<1>3. ASSUME NEW c \in Sweep, Activate(c) PROVE BaseInv'
  <2>1. PICK k \in {HazardTrail, Trail} : caller' = [caller EXCEPT ![c] = [at |-> "evaluating", check |-> k, exit |-> 0]]
    BY <1>3 DEF Activate, Goto
  <2>2. PlaceOK(c, [at |-> "evaluating", check |-> k, exit |-> 0])
    <3>1. k \in 1..(HardStop + 1)
      BY Checks DEF HazardTrail
    <3>. QED
      BY <3>1, EvaluatingOK
  <2>3. caller' \in [Caller -> Place] /\ CallersInPlace'
    BY <1>0, <2>1, <2>2, OneMoves
  <2>. QED
    BY <1>3, <2>3 DEF Activate, BaseInv, TypeOK, Place, idleUnchanged, exitVars, boundVars
<1>4. ASSUME NEW c \in Sweep, Finish(c) PROVE BaseInv'
  <2>1. caller' \in [Caller -> Place] /\ CallersInPlace'
    BY <1>0, <1>4, IdleOK, OneMoves DEF Finish, EndSweep, Leave
  <2>2. quantity' \in Nat /\ hits' \in SUBSET Rung /\ trail' \in BOOLEAN
    BY <1>4 DEF Finish, BaseInv, TypeOK
  <2>3. saved' \in Row
    BY <1>4, <2>2, CurrentRow DEF Finish, EndSweep
  <2>. QED
    BY <1>4, <2>1, <2>2, <2>3 DEF Finish, BaseInv, TypeOK, Place, idleUnchanged, exitVars, boundVars
<1>5. ASSUME NEW c \in Caller, DecimalsForExit(c) PROVE BaseInv'
  <2>. DEFINE k == caller[c].check
  <2>1. k \in Check /\ (c = Flatten <=> k = ManualFlatten)
    BY <1>0, <1>5 DEF PlaceOK, DecimalsForExit, Caller
  <2>. HIDE DEF k
  <2>2. CASE Submit(c, k, TRUE) /\ UNCHANGED positionVars
    BY <1>5, <2>1, <2>2, SubmitOK DEF DecimalsForExit, BaseInv, TypeOK, Place, positionVars, boundVars
  <2>3. CASE AfterExit(c, k) /\ UNCHANGED <<pending, exitVars>>
    BY <1>5, <2>1, <2>3, AfterExitOK DEF DecimalsForExit, BaseInv, TypeOK, Place, exitVars, boundVars
  <2>. QED
    BY <1>5, <2>2, <2>3 DEF DecimalsForExit, k
<1>6. ASSUME NEW c \in Caller, DecimalsForExitFail(c) PROVE BaseInv'
  <2>. DEFINE k == caller[c].check
  <2>1. k \in Check /\ (c = Flatten <=> k = ManualFlatten)
    BY <1>0, <1>6 DEF PlaceOK, DecimalsForExitFail, Caller
  <2>2. \/ Leave(c)
        \/ c \in Sweep /\ \E j \in {Panic, FirstLadder} : Goto(c, "evaluating", j)
    BY <1>6, <2>1 DEF DecimalsForExitFail, Caller, Kill, ManualFlatten
  <2>3. caller' \in [Caller -> Place] /\ CallersInPlace'
    <3>1. CASE Leave(c)
      BY <3>1, IdleOK, OneMoves DEF Leave
    <3>2. ASSUME c \in Sweep, NEW j \in {Panic, FirstLadder}, Goto(c, "evaluating", j)
          PROVE  caller' \in [Caller -> Place] /\ CallersInPlace'
      <4>1. PlaceOK(c, [at |-> "evaluating", check |-> j, exit |-> 0])
        <5>1. j \in 1..(HardStop + 1)
          BY Checks DEF Panic
        <5>. QED
          BY <3>2, <5>1, EvaluatingOK
      <4>. QED
        BY <3>2, <4>1, OneMoves DEF Goto
    <3>. QED
      BY <2>2, <3>1, <3>2
  <2>. QED
    BY <1>6, <2>3 DEF DecimalsForExitFail, BaseInv, TypeOK, Place, positionVars, exitVars, boundVars
<1>7. ASSUME NEW c \in Caller, DecimalsForLadderFail(c) PROVE BaseInv'
  BY <1>7, RestartOK DEF DecimalsForLadderFail
<1>8. ASSUME NEW c \in Caller, Answer(c) PROVE BaseInv'
  <2>. DEFINE k == caller[c].check
  <2>1. k \in Check /\ (c = Flatten <=> k = ManualFlatten)
    BY <1>0, <1>8 DEF PlaceOK, Answer, Caller
  <2>2. AfterExit(c, k)
    BY <1>8 DEF Answer
  <2>. HIDE DEF k
  <2>3. faults' \in 0..MaxFaults
    BY <1>8, ConstantsAssumption DEF Answer, Fault, BaseInv, TypeOK, ConstantsAssumption
  <2>. QED
    BY <1>8, <2>1, <2>2, <2>3, AfterExitOK DEF Answer, BaseInv, TypeOK, Place, exitVars
<1>9. CASE RequestFlatten
  BY <1>0, <1>9, TriggerOK, Checks DEF RequestFlatten, ManualFlatten
<1>10. CASE Deliver
  <2>1. Head(stream) \in Fill /\ Tail(stream) \in Seq(Fill)
    BY <1>10, StreamHead DEF Deliver, BaseInv
  <2>2. handling \in SUBSET Handler
    BY DEF BaseInv, TypeOK, Handler
  <2>3. CASE Apply(Head(stream), handling)
    BY <1>10, <2>1, <2>2, <2>3, ApplyOK
       DEF Deliver, Apply, BaseInv, TypeOK, CallersInPlace, Handler
  <2>4. CASE /\ handling' = handling \cup {[fill |-> Head(stream), at |-> "decimals"]}
             /\ UNCHANGED <<positionVars, pending, caller, exitVars, opened, wallet, buys>>
    <3>1. [fill |-> Head(stream), at |-> "decimals"] \in Handler
      BY <2>1 DEF Handler
    <3>. QED
      BY <1>10, <2>1, <2>2, <2>4, <3>1
         DEF Deliver, BaseInv, TypeOK, CallersInPlace, Handler, positionVars, exitVars
  <2>. QED
    BY <1>10, <2>3, <2>4 DEF Deliver
<1>11. ASSUME NEW h \in handling, DecimalsForFill(h) PROVE BaseInv'
  <2>1. h.fill \in Fill /\ handling \ {h} \in SUBSET Handler
    BY DEF BaseInv, TypeOK, Handler
  <2>. QED
    BY <1>11, <2>1, ApplyOK DEF DecimalsForFill, Apply, BaseInv, TypeOK, CallersInPlace, Handler
<1>12. ASSUME NEW h \in handling, DecimalsForFillFail(h) PROVE BaseInv'
  BY <1>12, ConstantsAssumption
     DEF DecimalsForFillFail, Fault, lossUnchanged, BaseInv, TypeOK, CallersInPlace,
         positionVars, exitVars, ConstantsAssumption
<1>13. CASE LoseFill
  BY <1>13, StreamHead, ConstantsAssumption
     DEF LoseFill, Fault, lossUnchanged, BaseInv, TypeOK, CallersInPlace, positionVars, exitVars,
         ConstantsAssumption
<1>14. ASSUME NEW h \in handling, FinishClose(h) PROVE BaseInv'
  <2>1. pending' \in SUBSET Check /\ running' \in SUBSET Exit
    BY <1>14, ExposeOK DEF FinishClose, ForgetPending
  <2>2. saved' \in Row
    BY <1>14, CurrentRow DEF FinishClose, BaseInv, TypeOK
  <2>. QED
    BY <1>14, <2>1, <2>2 DEF FinishClose, BaseInv, TypeOK, CallersInPlace, boundVars
<1>15. ASSUME NEW r \in pending, PendingExpires(r) PROVE BaseInv'
  <2>1. running' \in SUBSET Exit
    BY <1>15, ExposeOK DEF PendingExpires
  <2>. QED
    BY <1>15, <2>1 DEF PendingExpires, BaseInv, TypeOK, CallersInPlace, positionVars, boundVars
<1>16. CASE DecimalsExpire
  BY <1>16 DEF DecimalsExpire, BaseInv, TypeOK, CallersInPlace, positionVars, exitVars, boundVars
<1>17. CASE Buy
  <2>1. [side |-> "buy", n |-> buys', qty |-> BuyQty] \in Fill
    BY <1>17, ConstantsAssumption DEF Buy, BaseInv, TypeOK, Fill, ConstantsAssumption
  <2>. QED
    BY <1>17, <2>1, ConstantsAssumption
       DEF Buy, BaseInv, TypeOK, CallersInPlace, externalUnchanged, positionVars, ConstantsAssumption
<1>18. ASSUME NEW x \in running, ExitSold(x) PROVE BaseInv'
  <2>1. x.id \in 1..MaxExits /\ x.amount \in Nat
    BY DEF BaseInv, TypeOK, Exit
  <2>2. [side |-> "sell", n |-> x.id, qty |-> x.amount] \in Fill
    BY <2>1, ConstantsAssumption DEF Fill, ConstantsAssumption
  <2>3. wallet' \in Nat
    BY <1>18, <2>1 DEF ExitSold, BaseInv, TypeOK
  <2>. QED
    BY <1>18, <2>2, <2>3 DEF ExitSold, Done, BaseInv, TypeOK, CallersInPlace, externalUnchanged, positionVars
<1>19. ASSUME NEW x \in running, ExitFails(x) PROVE BaseInv'
  BY <1>19 DEF ExitFails, Done, BaseInv, TypeOK, CallersInPlace, externalUnchanged, positionVars
<1>20. CASE Restart
  BY <1>20, RestartOK
<1>21. CASE UNCHANGED vars
  BY <1>21 DEF vars, BaseInv, TypeOK, CallersInPlace, positionVars, exitVars, boundVars
<1>. QED
  BY <1>1, <1>2, <1>3, <1>4, <1>5, <1>6, <1>7, <1>8, <1>9, <1>10, <1>11, <1>12, <1>13, <1>14, <1>15,
     <1>16, <1>17, <1>18, <1>19, <1>20, <1>21 DEF Next, SweepStep, CallerStep, FillStep
-----------------------------------------------------------------------------
(* The saved row *)

LEMMA PersistSaves ==
    ASSUME Persist
    PROVE  SavedIsCurrent'
BY DEF Persist, UpsertPosition, SavedIsCurrent

\* A step that leaves the position and those who will save it.
LEMMA SavedKept ==
    ASSUME SavedIsCurrent, UNCHANGED positionVars,
           \A h \in handling : h.at = "solPrice" => h \in handling',
           \A c \in Sweep : caller[c].at # "idle" => caller'[c].at # "idle"
    PROVE  SavedIsCurrent'
BY DEF SavedIsCurrent, positionVars

\* A step behind which sweep c will save the marks.
LEMMA SavedLater ==
    ASSUME SavedIsCurrent, quantity' = quantity, saved' = saved, handling' = handling,
           NEW c \in Sweep, caller'[c].at # "idle"
    PROVE  SavedIsCurrent'
BY DEF SavedIsCurrent

LEMMA AfterExitSaved ==
    ASSUME BaseInv, SavedIsCurrent, NEW c \in Caller, NEW k \in Check,
           c = Flatten <=> k = ManualFlatten, AfterExit(c, k), handling' = handling
    PROVE  SavedIsCurrent'
<1>1. CASE IsRung(k)
  <2>1. c \in Sweep /\ caller'[c].at = "evaluating"
    BY <1>1, RungChecks DEF AfterExit, Goto, Caller, BaseInv, TypeOK
  <2>2. saved' = saved /\ quantity' = quantity
    BY <1>1, RungChecks DEF AfterExit
  <2>. QED
    BY <2>1, <2>2, SavedLater
<1>2. CASE k = ManualFlatten
  <2>1. ~ IsRung(k) /\ Reason(k) # HazardTrail
    BY <1>2, RungChecks, Checks DEF Reason, HazardTrail, ManualFlatten, Panic
  <2>2. UNCHANGED positionVars
    BY <1>2, <2>1 DEF AfterExit, positionVars, BaseInv, TypeOK
  <2>3. \A d \in Sweep : caller'[d] = caller[d]
    BY <1>2, <2>1, ConstantsAssumption
       DEF AfterExit, Leave, BaseInv, TypeOK, Caller, ConstantsAssumption
  <2>. QED
    BY <2>2, <2>3, SavedKept
<1>3. CASE ~ IsRung(k) /\ k # ManualFlatten
  BY <1>3, PersistSaves DEF AfterExit, EndSweep
<1>. QED
  BY <1>1, <1>2, <1>3

LEMMA SubmitKeepsCallers ==
    ASSUME BaseInv, NEW c \in Caller, NEW k, NEW unseen, Submit(c, k, unseen), NEW d \in Sweep,
           caller[d].at # "idle"
    PROVE  caller'[d].at # "idle"
BY DEF Submit, BaseInv, TypeOK, Caller

LEMMA TriggerSaved ==
    ASSUME BaseInv, SavedIsCurrent, NEW c \in Caller, NEW k \in Check,
           c = Flatten <=> k = ManualFlatten, Trigger(c, k)
    PROVE  SavedIsCurrent'
<1>1. handling' = handling
  BY DEF Trigger
<1>2. CASE AfterExit(c, k)
  BY <1>1, <1>2, AfterExitSaved
<1>3. CASE Submit(c, k, FALSE) /\ UNCHANGED positionVars
  BY <1>1, <1>3, SubmitKeepsCallers, SavedKept
<1>4. CASE Goto(c, "decimals", k) /\ UNCHANGED positionVars
  <2>1. \A d \in Sweep : caller[d].at # "idle" => caller'[d].at # "idle"
    BY <1>4 DEF Goto, BaseInv, TypeOK, Caller
  <2>. QED
    BY <1>1, <1>4, <2>1, SavedKept
<1>. QED
  BY <1>2, <1>3, <1>4 DEF Trigger

LEMMA HydrateSaved ==
    ASSUME BaseInv, Hydrate
    PROVE  SavedIsCurrent'
<1>1. saved = [quantity |-> saved.quantity, hits |-> saved.hits, trail |-> saved.trail]
      /\ saved.trail \in BOOLEAN
  BY DEF BaseInv, TypeOK, Row
<1>2. saved.quantity > 0 => hits' = saved.hits /\ trail' = saved.trail
  <2>. SUFFICES ASSUME saved.quantity > 0 PROVE hits' = saved.hits /\ trail' = saved.trail
    OBVIOUS
  <2>1. OpenPositions = {saved}
    BY DEF OpenPositions
  <2>2. hits' = UNION {row.hits : row \in {saved}} /\ trail' = \E row \in {saved} : row.trail
    BY <2>1 DEF Hydrate
  <2>. QED
    BY <1>1, <2>2
<1>. QED
  BY <1>1, <1>2 DEF Hydrate, SavedIsCurrent

LEMMA ApplySaved ==
    ASSUME SavedIsCurrent, NEW f, NEW others, Apply(f, others)
    PROVE  SavedIsCurrent'
<1>1. CASE ApplyBuy(f) \/ ApplySell(f)
  BY <1>1, PersistSaves DEF ApplyBuy, ApplySell
<1>2. CASE handling' = others \cup {[fill |-> f, at |-> "solPrice"]}
  <2>1. \E h \in handling' : h.at = "solPrice"
    <3>1. [fill |-> f, at |-> "solPrice"] \in handling'
      BY <1>2
    <3>. QED
      BY <3>1
  <2>. QED
    BY <2>1 DEF SavedIsCurrent
<1>. QED
  BY <1>1, <1>2 DEF Apply

LEMMA SavedStep ==
    ASSUME BaseInv, SavedIsCurrent, [Next]_vars
    PROVE  SavedIsCurrent'
<1>0. /\ \A c \in Caller : PlaceOK(c, caller[c])
      /\ Sweep \subseteq Caller /\ Flatten \in Caller /\ Flatten \notin Sweep
  BY CallersOK, ConstantsAssumption DEF Caller, ConstantsAssumption
<1>1. ASSUME NEW c \in Sweep, BeginSweep(c) PROVE SavedIsCurrent'
  BY <1>0, <1>1, SavedKept DEF BeginSweep, Goto, idleUnchanged, BaseInv, TypeOK
<1>2. ASSUME NEW c \in Sweep, Evaluate(c) PROVE SavedIsCurrent'
  <2>1. PICK k \in caller[c].check..HardStop : Trigger(c, k)
    BY <1>2 DEF Evaluate
  <2>2. caller[c].check \in 1..(HardStop + 1)
    BY <1>0, <1>2, Checks DEF PlaceOK, Place, Evaluate, ManualFlatten
  <2>3. k \in Check /\ k # ManualFlatten
    BY <2>2, Checks DEF ManualFlatten
  <2>. QED
    BY <1>0, <2>1, <2>3, TriggerSaved
<1>3. ASSUME NEW c \in Sweep, Activate(c) PROVE SavedIsCurrent'
  <2>1. caller'[c].at = "evaluating"
    BY <1>0, <1>3 DEF Activate, Goto, BaseInv, TypeOK
  <2>. QED
    BY <1>3, <2>1, SavedLater DEF Activate, idleUnchanged
<1>4. ASSUME NEW c \in Sweep, Finish(c) PROVE SavedIsCurrent'
  BY <1>4, PersistSaves DEF Finish, EndSweep
<1>5. ASSUME NEW c \in Caller, DecimalsForExit(c) PROVE SavedIsCurrent'
  <2>. DEFINE k == caller[c].check
  <2>1. k \in Check /\ (c = Flatten <=> k = ManualFlatten)
    BY <1>0, <1>5 DEF PlaceOK, DecimalsForExit, Caller
  <2>. HIDE DEF k
  <2>2. handling' = handling
    BY <1>5 DEF DecimalsForExit
  <2>3. CASE Submit(c, k, TRUE) /\ UNCHANGED positionVars
    BY <2>2, <2>3, SubmitKeepsCallers, SavedKept
  <2>4. CASE AfterExit(c, k)
    BY <2>1, <2>2, <2>4, AfterExitSaved
  <2>. QED
    BY <1>5, <2>3, <2>4 DEF DecimalsForExit, k
<1>6. ASSUME NEW c \in Caller, DecimalsForExitFail(c) PROVE SavedIsCurrent'
  <2>. DEFINE k == caller[c].check
  <2>1. k \in Check /\ (c = Flatten <=> k = ManualFlatten)
    BY <1>0, <1>6 DEF PlaceOK, DecimalsForExitFail, Caller
  <2>2. \/ Leave(c) /\ k = ManualFlatten
        \/ \E j \in {Panic, FirstLadder} : Goto(c, "evaluating", j)
    BY <1>6, <2>1 DEF DecimalsForExitFail, Kill, ManualFlatten
  <2>3. \A d \in Sweep : caller[d].at # "idle" => caller'[d].at # "idle"
    BY <1>0, <2>1, <2>2 DEF Leave, Goto, BaseInv, TypeOK, Caller
  <2>. QED
    BY <1>6, <2>3, SavedKept DEF DecimalsForExitFail
<1>7. ASSUME NEW c \in Caller, DecimalsForLadderFail(c) PROVE SavedIsCurrent'
  BY <1>7, HydrateSaved DEF DecimalsForLadderFail, Restart
<1>8. ASSUME NEW c \in Caller, Answer(c) PROVE SavedIsCurrent'
  <2>. DEFINE k == caller[c].check
  <2>1. k \in Check /\ (c = Flatten <=> k = ManualFlatten)
    BY <1>0, <1>8 DEF PlaceOK, Answer, Caller
  <2>2. AfterExit(c, k) /\ handling' = handling
    BY <1>8 DEF Answer
  <2>. HIDE DEF k
  <2>. QED
    BY <2>1, <2>2, AfterExitSaved
<1>9. CASE RequestFlatten
  BY <1>0, <1>9, TriggerSaved, Checks DEF RequestFlatten, ManualFlatten
<1>10. CASE Deliver
  <2>1. CASE Apply(Head(stream), handling)
    BY <2>1, ApplySaved
  <2>2. CASE /\ handling' = handling \cup {[fill |-> Head(stream), at |-> "decimals"]}
             /\ UNCHANGED <<positionVars, caller>>
    BY <2>2, SavedKept
  <2>. QED
    BY <1>10, <2>1, <2>2 DEF Deliver
<1>11. ASSUME NEW h \in handling, DecimalsForFill(h) PROVE SavedIsCurrent'
  BY <1>11, ApplySaved DEF DecimalsForFill
<1>12. ASSUME NEW h \in handling, DecimalsForFillFail(h) PROVE SavedIsCurrent'
  BY <1>12, SavedKept DEF DecimalsForFillFail, lossUnchanged
<1>13. CASE LoseFill
  BY <1>13, SavedKept DEF LoseFill, lossUnchanged
<1>14. ASSUME NEW h \in handling, FinishClose(h) PROVE SavedIsCurrent'
  BY <1>14, PersistSaves DEF FinishClose
<1>15. ASSUME UNCHANGED <<positionVars, handling, caller>> PROVE SavedIsCurrent'
  BY <1>15, SavedKept
<1>16. CASE \/ \E r \in pending : PendingExpires(r)
            \/ DecimalsExpire \/ Buy
            \/ \E x \in running : ExitSold(x) \/ ExitFails(x)
            \/ UNCHANGED vars
  BY <1>15, <1>16 DEF PendingExpires, DecimalsExpire, Buy, ExitSold, ExitFails,
                      externalUnchanged, vars
<1>17. CASE Restart
  BY <1>17, HydrateSaved DEF Restart
<1>. QED
  BY <1>1, <1>2, <1>3, <1>4, <1>5, <1>6, <1>7, <1>8, <1>9, <1>10, <1>11, <1>12, <1>13, <1>14,
     <1>16, <1>17 DEF Next, SweepStep, CallerStep, FillStep
-----------------------------------------------------------------------------
(* Pending keys *)

\* Every step does one of these to the running exits and their keys.
LEMMA KeyKinds ==
    ASSUME BaseInv, [Next]_vars
    PROVE  \/ UNCHANGED <<pending, running, exits>>
           \/ \E c \in Caller, k \in Check, unseen \in BOOLEAN :
                 Submit(c, k, unseen) /\ (~ unseen => Reason(k) \notin pending)
           \/ pending' = {} /\ Expose(running) /\ exits' = exits
           \/ \E r \in pending : /\ pending' = pending \ {r}
                                 /\ Expose({x \in running : Reason(x.check) = r})
                                 /\ exits' = exits
           \/ \E x \in running : running' = running \ {x} /\ UNCHANGED <<pending, exits>>
<1>. DEFINE Same == UNCHANGED <<pending, running, exits>>
            Submits == \E c \in Caller, k \in Check, unseen \in BOOLEAN :
                          Submit(c, k, unseen) /\ (~ unseen => Reason(k) \notin pending)
            Forgets == pending' = {} /\ Expose(running) /\ exits' = exits
<1>0. /\ \A c \in Caller : PlaceOK(c, caller[c])
      /\ Sweep \subseteq Caller /\ Flatten \in Caller
  BY CallersOK DEF Caller
<1>1. ASSUME NEW c \in Caller, NEW k \in Check, Trigger(c, k) PROVE Same \/ Submits
  BY <1>1 DEF Trigger, Suppressed, exitVars
<1>2. ASSUME NEW c \in Sweep, SweepStep(c) PROVE Same \/ Submits
  <2>1. CASE Evaluate(c)
    <3>1. PICK k \in caller[c].check..HardStop : Trigger(c, k)
      BY <2>1 DEF Evaluate
    <3>2. k \in Check
      BY <1>0, <3>1, Checks DEF PlaceOK, Place
    <3>. HIDE DEF Same, Submits
    <3>. QED
      BY <1>0, <1>1, <3>1, <3>2
  <2>. QED
    BY <1>2, <2>1 DEF SweepStep, BeginSweep, Activate, Finish, idleUnchanged, exitVars
<1>3. ASSUME NEW c \in Caller, CallerStep(c) PROVE Same \/ Submits \/ Forgets
  <2>1. CASE DecimalsForExit(c)
    <3>1. caller[c].check \in Check
      BY <1>0, <2>1 DEF DecimalsForExit, PlaceOK
    <3>2. CASE Submit(c, caller[c].check, TRUE)
      BY <3>1, <3>2
    <3>. QED
      BY <2>1, <3>2 DEF DecimalsForExit, exitVars
  <2>2. CASE DecimalsForExitFail(c) \/ Answer(c)
    BY <2>2 DEF DecimalsForExitFail, Answer, exitVars
  <2>3. CASE DecimalsForLadderFail(c)
    BY <2>3 DEF DecimalsForLadderFail, Restart
  <2>. QED
    BY <1>3, <2>1, <2>2, <2>3 DEF CallerStep
<1>4. ASSUME RequestFlatten PROVE Same \/ Submits
  <2>1. Trigger(Flatten, 0) /\ 0 \in Check /\ Flatten \in Caller
    BY <1>0, <1>4, Checks DEF RequestFlatten, ManualFlatten
  <2>. HIDE DEF Same, Submits
  <2>. QED
    BY <1>1, <2>1
<1>5. ASSUME NEW f, NEW others, Apply(f, others) PROVE Same \/ Forgets
  BY <1>5 DEF Apply, ApplyBuy, ApplySell, ApplyClose, ForgetPending
<1>6. ASSUME FillStep PROVE Same \/ Forgets
  <2>1. CASE Deliver
    BY <1>5, <2>1 DEF Deliver, exitVars
  <2>2. CASE LoseFill
    BY <2>2 DEF LoseFill, lossUnchanged, exitVars
  <2>3. ASSUME NEW h \in handling, DecimalsForFill(h) \/ DecimalsForFillFail(h) \/ FinishClose(h)
        PROVE  Same \/ Forgets
    BY <1>5, <2>3 DEF DecimalsForFill, DecimalsForFillFail, FinishClose, ForgetPending,
                      lossUnchanged, exitVars
  <2>. QED
    BY <1>6, <2>1, <2>2, <2>3 DEF FillStep
<1>7. ASSUME Restart \/ DecimalsExpire \/ Buy \/ UNCHANGED vars PROVE Same \/ Forgets
  BY <1>7 DEF Restart, DecimalsExpire, Buy, externalUnchanged, vars, exitVars
<1>8. ASSUME NEW r \in pending, PendingExpires(r)
      PROVE  /\ pending' = pending \ {r}
             /\ Expose({x \in running : Reason(x.check) = r})
             /\ exits' = exits
  BY <1>8 DEF PendingExpires
<1>9. ASSUME NEW x \in running, ExitSold(x) \/ ExitFails(x)
      PROVE  running' = running \ {x} /\ UNCHANGED <<pending, exits>>
  BY <1>9 DEF ExitSold, ExitFails, Done, externalUnchanged
<1>. HIDE DEF Same, Submits, Forgets
<1>10. Same \/ Submits \/ Forgets
       \/ (\E r \in pending : PendingExpires(r)) \/ (\E x \in running : ExitSold(x) \/ ExitFails(x))
  BY <1>2, <1>3, <1>4, <1>6, <1>7 DEF Next
<1>. QED
  BY <1>8, <1>9, <1>10 DEF Same, Submits, Forgets

\* Exposing exits changes nothing else of them.
LEMMA ExposeKeeps ==
    ASSUME BaseInv, NEW xs \in SUBSET running, Expose(xs), NEW x \in running'
    PROVE  \E y \in running : /\ x.id = y.id /\ x.check = y.check /\ x.unseen = y.unseen
                              /\ y.exposed => x.exposed
                              /\ y \in xs => x.exposed
                              /\ (\A z \in running : y.id = z.id => y = z)
                                    => x = IF y \in xs THEN [y EXCEPT !.exposed = TRUE] ELSE y
<1>1. ASSUME NEW y \in running
      PROVE  /\ [y EXCEPT !.exposed = TRUE].id = y.id
             /\ [y EXCEPT !.exposed = TRUE].check = y.check
             /\ [y EXCEPT !.exposed = TRUE].unseen = y.unseen
             /\ [y EXCEPT !.exposed = TRUE].exposed
  BY DEF BaseInv, TypeOK, Exit
<1>2. CASE x \in running \ xs
  BY <1>2
<1>3. CASE x \in {[y EXCEPT !.exposed = TRUE] : y \in xs}
  BY <1>1, <1>3
<1>. QED
  BY <1>2, <1>3 DEF Expose

LEMMA ExposedKeys ==
    ASSUME BaseInv, KeyInv, NEW xs \in SUBSET running, Expose(xs), exits' = exits,
           \A x \in running \ xs : Reason(x.check) \in pending => Reason(x.check) \in pending'
    PROVE  KeyInv'
<1>1. ASSUME NEW x \in running'
      PROVE  \E y \in running : /\ x.id = y.id /\ x.check = y.check /\ x.unseen = y.unseen
                                /\ y.exposed => x.exposed
                                /\ y \in xs => x.exposed
                                /\ x = IF y \in xs THEN [y EXCEPT !.exposed = TRUE] ELSE y
  BY ExposeKeeps DEF KeyInv, ExitsNamed
<1>2. ExitsNamed'
  <2>1. ASSUME NEW x \in running' PROVE x.id <= exits'
    BY <1>1, <2>1 DEF KeyInv, ExitsNamed
  <2>2. ASSUME NEW x \in running', NEW z \in running', x.id = z.id PROVE x = z
    <3>1. PICK y \in running : /\ x.id = y.id
                               /\ x = IF y \in xs THEN [y EXCEPT !.exposed = TRUE] ELSE y
      BY <1>1
    <3>2. PICK y2 \in running : /\ z.id = y2.id
                                /\ z = IF y2 \in xs THEN [y2 EXCEPT !.exposed = TRUE] ELSE y2
      BY <1>1
    <3>3. y = y2
      BY <2>2, <3>1, <3>2 DEF KeyInv, ExitsNamed
    <3>. QED
      BY <3>1, <3>2, <3>3
  <2>. QED
    BY <2>1, <2>2 DEF ExitsNamed
<1>3. KeysStand'
  BY <1>1 DEF KeyInv, KeysStand
<1>4. SuppressedWhilePending'
  BY <1>1 DEF KeyInv, SuppressedWhilePending
<1>. QED
  BY <1>2, <1>3, <1>4 DEF KeyInv

LEMMA SubmittedKeys ==
    ASSUME BaseInv, KeyInv, NEW c \in Caller, NEW k \in Check, NEW unseen \in BOOLEAN,
           Submit(c, k, unseen), ~ unseen => Reason(k) \notin pending
    PROVE  KeyInv'
<1>. DEFINE new == [id |-> exits', check |-> k, amount |-> Amount(k, quantity),
                    exposed |-> FALSE, unseen |-> unseen]
<1>1. /\ exits' = exits + 1 /\ exits \in Nat
      /\ pending' = pending \cup {Reason(k)}
      /\ running' = running \cup {new}
  BY ConstantsAssumption DEF Submit, BaseInv, TypeOK, ConstantsAssumption
<1>2. new.id = exits + 1 /\ new.check = k /\ new.unseen = unseen /\ new.exposed = FALSE
  BY <1>1
<1>3. \A x \in running : x.id \in Nat /\ x.id < new.id
  BY <1>1, <1>2 DEF KeyInv, ExitsNamed, BaseInv, TypeOK, Exit
<1>. HIDE DEF new
<1>4. ExitsNamed'
  BY <1>1, <1>2, <1>3 DEF KeyInv, ExitsNamed
<1>5. KeysStand'
  BY <1>1, <1>2 DEF KeyInv, KeysStand
<1>6. SuppressedWhilePending'
  <2>. SUFFICES ASSUME NEW x \in running', NEW y \in running', x.id < y.id,
                       Reason(x.check) = Reason(y.check)
                PROVE  x.exposed \/ y.unseen
    BY DEF SuppressedWhilePending
  <2>1. x \in running
    BY <1>1, <1>2, <1>3
  <2>2. CASE y = new
    BY <1>2, <2>1, <2>2 DEF KeyInv, KeysStand
  <2>3. CASE y \in running
    BY <2>1, <2>3 DEF KeyInv, SuppressedWhilePending
  <2>. QED
    BY <1>1, <2>2, <2>3
<1>. QED
  BY <1>4, <1>5, <1>6 DEF KeyInv

LEMMA KeyStep ==
    ASSUME BaseInv, KeyInv, [Next]_vars
    PROVE  KeyInv'
<1>1. CASE UNCHANGED <<pending, running, exits>>
  BY <1>1 DEF KeyInv, ExitsNamed, KeysStand, SuppressedWhilePending
<1>2. CASE \E c \in Caller, k \in Check, unseen \in BOOLEAN :
              Submit(c, k, unseen) /\ (~ unseen => Reason(k) \notin pending)
  BY <1>2, SubmittedKeys
<1>3. CASE pending' = {} /\ Expose(running) /\ exits' = exits
  BY <1>3, ExposedKeys
<1>4. ASSUME NEW r \in pending, pending' = pending \ {r},
             Expose({x \in running : Reason(x.check) = r}), exits' = exits
      PROVE  KeyInv'
  <2>. DEFINE xs == {x \in running : Reason(x.check) = r}
  <2>1. \A x \in running \ xs : Reason(x.check) \in pending => Reason(x.check) \in pending'
    BY <1>4
  <2>2. xs \in SUBSET running /\ Expose(xs)
    BY <1>4
  <2>. HIDE DEF xs
  <2>. QED
    BY <1>4, <2>1, <2>2, ExposedKeys
<1>5. CASE \E x \in running : running' = running \ {x} /\ UNCHANGED <<pending, exits>>
  BY <1>5 DEF KeyInv, ExitsNamed, KeysStand, SuppressedWhilePending
<1>. QED
  BY <1>1, <1>2, <1>3, <1>4, <1>5, KeyKinds
-----------------------------------------------------------------------------
(* Fills under way: how each kind of step changes them, and the holdings *)

LEMMA TravellersTyped ==
    ASSUME BaseInv, TravelOnce
    PROVE  /\ \A f \in Travelling : f \in Fill
           /\ IsFiniteSet(Travelling)
<1>1. \A i \in 1..Len(stream) : stream[i] \in Fill
  BY DEF BaseInv, TypeOK
<1>2. \A h \in handling : h.fill \in Fill
  BY DEF BaseInv, TypeOK
<1>3. IsFiniteSet({stream[i] : i \in 1..Len(stream)})
  <2>. DEFINE at == [i \in 1..Len(stream) |-> stream[i]]
  <2>1. Len(stream) \in Nat
    BY DEF BaseInv, TypeOK
  <2>2. IsFiniteSet(1..Len(stream))
    BY <2>1, FS_Interval
  <2>3. at \in Surjection(1..Len(stream), {stream[i] : i \in 1..Len(stream)})
    BY DEF Surjection
  <2>. QED
    BY <2>2, <2>3, FS_Surjection
<1>4. IsFiniteSet({h.fill : h \in Waiters})
  <2>. DEFINE of == [h \in Waiters |-> h.fill]
  <2>1. IsFiniteSet(Waiters)
    BY FS_Subset DEF TravelOnce, Waiters
  <2>2. of \in Surjection(Waiters, {h.fill : h \in Waiters})
    BY DEF Surjection
  <2>. QED
    BY <2>1, <2>2, FS_Surjection
<1>5. IsFiniteSet(Travelling)
  BY <1>3, <1>4, FS_Union DEF Travelling
<1>6. \A f \in Travelling : f \in Fill
  BY <1>1, <1>2 DEF Travelling, Waiters
<1>. QED
  BY <1>5, <1>6

\* One side of a set of fills, and its total, with a fill more or less.
Sided(T, side) == {f \in T : f.side = side}

LEMMA UnderWaySided ==
    \A side : UnderWay(side) = Sided(Travelling, side) /\ UnderWay(side)' = Sided(Travelling', side)
BY DEF UnderWay, Travelling, Waiters, Sided

LEMMA SidedTotal ==
    ASSUME NEW T, IsFiniteSet(T), \A f \in T : f \in Fill, NEW side
    PROVE  /\ IsFiniteSet(Sided(T, side)) /\ \A f \in Sided(T, side) : f.qty \in Nat
           /\ Total(Sided(T, side)) \in Nat
<1>1. IsFiniteSet(Sided(T, side)) /\ \A f \in Sided(T, side) : f.qty \in Nat
  <2>1. Sided(T, side) \subseteq T
    BY DEF Sided
  <2>2. \A f \in T : f.qty \in Nat
    BY DEF Fill
  <2>. QED
    BY <2>1, <2>2, FS_Subset
<1>2. Total(Sided(T, side)) \in Nat
  BY <1>1, TotalIsCount, UnitsFinite, FS_CardinalityType
<1>. QED
  BY <1>1, <1>2

LEMMA SidedWithout ==
    ASSUME NEW T, IsFiniteSet(T), \A f \in T : f \in Fill, NEW f \in T, NEW side
    PROVE  Total(Sided(T, side)) =
               IF f.side = side THEN f.qty + Total(Sided(T \ {f}, side))
                                ELSE Total(Sided(T \ {f}, side))
<1>1. CASE f.side = side
  <2>1. f \in Sided(T, side) /\ Sided(T \ {f}, side) = Sided(T, side) \ {f}
    BY <1>1 DEF Sided
  <2>2. IsFiniteSet(Sided(T, side)) /\ \A g \in Sided(T, side) : g.qty \in Nat
    BY SidedTotal
  <2>3. Total(Sided(T, side)) = f.qty + Total(Sided(T, side) \ {f})
    BY <2>1, <2>2, TotalWithout
  <2>. QED
    BY <1>1, <2>1, <2>3
<1>2. CASE f.side # side
  <2>1. Sided(T \ {f}, side) = Sided(T, side)
    BY <1>2 DEF Sided
  <2>. QED
    BY <1>2, <2>1
<1>. QED
  BY <1>1, <1>2

LEMMA SidedWith ==
    ASSUME NEW T, IsFiniteSet(T), \A f \in T : f \in Fill, NEW f \in Fill, f \notin T, NEW side
    PROVE  Total(Sided(T \cup {f}, side)) =
               IF f.side = side THEN f.qty + Total(Sided(T, side)) ELSE Total(Sided(T, side))
<1>1. CASE f.side = side
  <2>1. f \notin Sided(T, side) /\ Sided(T \cup {f}, side) = Sided(T, side) \cup {f}
    BY <1>1 DEF Sided
  <2>2. f.qty \in Nat
    BY DEF Fill
  <2>. QED
    BY <1>1, <2>1, <2>2, SidedTotal, TotalWith
<1>2. CASE f.side # side
  <2>1. Sided(T \cup {f}, side) = Sided(T, side)
    BY <1>2 DEF Sided
  <2>. QED
    BY <1>2, <2>1
<1>. QED
  BY <1>1, <1>2

\* What a step does to the exits that run, as far as holdings go.
IdsKept == \A x \in running' : x.id > exits \/ \E y \in running : x.id = y.id

\* A step that moves no tokens; an exit is submitted only for a position.
LEMMA HoldQuiet ==
    ASSUME BaseInv, HoldInv, TravelOnce', Travelling' = Travelling, IdsKept,
           exits' = exits \/ (exits' = exits + 1 /\ quantity > 0),
           UNCHANGED <<quantity, wallet, buys, missed>>
    PROVE  HoldInv'
<1>1. exits \in Nat /\ quantity \in Nat /\ buys \in Nat
  BY ConstantsAssumption DEF BaseInv, TypeOK, ConstantsAssumption
<1>2. FillsNamed'
  BY <1>1 DEF HoldInv, FillsNamed, IdsKept
<1>3. \A side : UnderWay(side)' = UnderWay(side)
  BY UnderWaySided
<1>4. NothingToSell'
  BY <1>1, <1>3 DEF HoldInv, NothingToSell
<1>5. HoldingsFollowFills'
  BY <1>3 DEF HoldInv, HoldingsFollowFills
<1>. QED
  BY <1>2, <1>4, <1>5 DEF HoldInv

\* A step that loses fills.
LEMMA HoldMissed ==
    ASSUME BaseInv, HoldInv, TravelOnce', Travelling' \subseteq Travelling, IdsKept,
           missed' = TRUE, UNCHANGED <<buys, exits>>
    PROVE  HoldInv'
<1>1. exits \in Nat
  BY ConstantsAssumption DEF BaseInv, TypeOK, ConstantsAssumption
<1>2. FillsNamed'
  BY <1>1 DEF HoldInv, FillsNamed, IdsKept
<1>. QED
  BY <1>2 DEF HoldInv, NothingToSell, HoldingsFollowFills

\* A buy: its fill and the tokens come together.
LEMMA HoldBought ==
    ASSUME BaseInv, HoldInv, TravelOnce', NEW f, f = [side |-> "buy", n |-> buys', qty |-> BuyQty],
           Travelling' = Travelling \cup {f}, buys' = buys + 1, wallet' = wallet + BuyQty,
           UNCHANGED <<running, exits, quantity, missed>>
    PROVE  HoldInv'
<1>1. exits \in Nat /\ quantity \in Nat /\ buys \in Nat /\ wallet \in Nat /\ BuyQty \in Nat
  BY ConstantsAssumption DEF BaseInv, TypeOK, ConstantsAssumption
<1>2. f \in Fill /\ f.side = "buy" /\ f.n = buys + 1 /\ f.qty = BuyQty
  BY <1>1 DEF Fill
<1>3. f \notin Travelling
  BY <1>1, <1>2 DEF HoldInv, FillsNamed
<1>4. IsFiniteSet(Travelling) /\ \A g \in Travelling : g \in Fill
  BY TravellersTyped DEF HoldInv
<1>5. /\ Total(UnderWay("buy")') = BuyQty + Total(UnderWay("buy"))
      /\ Total(UnderWay("sell")') = Total(UnderWay("sell"))
      /\ Total(UnderWay("buy")) \in Nat /\ Total(UnderWay("sell")) \in Nat
  <2>1. \A side : Total(Sided(Travelling, side)) \in Nat
    BY <1>4, SidedTotal
  <2>2. /\ Total(Sided(Travelling', "buy")) = BuyQty + Total(Sided(Travelling, "buy"))
        /\ Total(Sided(Travelling', "sell")) = Total(Sided(Travelling, "sell"))
    BY <1>2, <1>3, <1>4, SidedWith
  <2>. QED
    BY <2>1, <2>2, UnderWaySided
<1>6. FillsNamed'
  BY <1>1, <1>2 DEF HoldInv, FillsNamed
<1>7. NothingToSell'
  BY <1>1 DEF HoldInv, NothingToSell
<1>8. HoldingsFollowFills'
  BY <1>1, <1>5 DEF HoldInv, HoldingsFollowFills
<1>. QED
  BY <1>6, <1>7, <1>8 DEF HoldInv

\* An exit is sold: its amount leaves the wallet and its fill is under way.
LEMMA HoldSold ==
    ASSUME BaseInv, HoldInv, KeyInv, TravelOnce', NEW x \in running, NEW f,
           f = [side |-> "sell", n |-> x.id, qty |-> x.amount],
           Travelling' = Travelling \cup {f}, running' = running \ {x},
           x.amount <= wallet, wallet' = wallet - x.amount,
           UNCHANGED <<buys, exits, quantity, missed>>
    PROVE  HoldInv'
<1>1. exits \in Nat /\ quantity \in Nat /\ buys \in Nat /\ wallet \in Nat
  BY ConstantsAssumption DEF BaseInv, TypeOK, ConstantsAssumption
<1>2. x.id \in 1..exits /\ x.amount \in Nat
  BY <1>1, ConstantsAssumption
     DEF BaseInv, TypeOK, Exit, KeyInv, ExitsNamed, ConstantsAssumption
<1>3. f \in Fill /\ f.side = "sell" /\ f.n = x.id /\ f.qty = x.amount
  BY <1>2 DEF Fill
<1>4. f \notin Travelling
  BY <1>3 DEF HoldInv, FillsNamed
<1>5. IsFiniteSet(Travelling) /\ \A g \in Travelling : g \in Fill
  BY TravellersTyped DEF HoldInv
<1>6. /\ UnderWay("buy")' = UnderWay("buy")
      /\ Total(UnderWay("sell")') = x.amount + Total(UnderWay("sell"))
      /\ Total(UnderWay("buy")) \in Nat /\ Total(UnderWay("sell")) \in Nat
  <2>1. \A side : Total(Sided(Travelling, side)) \in Nat
    BY <1>5, SidedTotal
  <2>2. Total(Sided(Travelling', "sell")) = x.amount + Total(Sided(Travelling, "sell"))
    BY <1>3, <1>4, <1>5, SidedWith
  <2>3. Sided(Travelling', "buy") = Sided(Travelling, "buy")
    BY <1>3 DEF Sided
  <2>. QED
    BY <2>1, <2>2, <2>3, UnderWaySided
<1>7. FillsNamed'
  BY <1>2, <1>3 DEF HoldInv, FillsNamed, KeyInv, ExitsNamed
<1>8. NothingToSell'
  BY <1>6 DEF HoldInv, NothingToSell
<1>9. HoldingsFollowFills'
  BY <1>1, <1>2, <1>6 DEF HoldInv, HoldingsFollowFills
<1>. QED
  BY <1>7, <1>8, <1>9 DEF HoldInv

\* The position takes in a fill.
LEMMA HoldApplied ==
    ASSUME BaseInv, HoldInv, TravelOnce', NEW f \in Travelling, Travelling' = Travelling \ {f},
           IdsKept, ApplyBuy(f) \/ ApplySell(f) \/ ApplyClose(f),
           UNCHANGED <<wallet, buys, exits, missed>>
    PROVE  HoldInv'
<1>. DEFINE B == Total(UnderWay("buy"))
            S == Total(UnderWay("sell"))
<1>1. exits \in Nat /\ quantity \in Nat /\ buys \in Nat /\ wallet \in Nat /\ BuyQty \in Nat
  BY ConstantsAssumption DEF BaseInv, TypeOK, ConstantsAssumption
<1>2. IsFiniteSet(Travelling) /\ \A g \in Travelling : g \in Fill
  BY TravellersTyped DEF HoldInv
<1>3. f.qty \in Nat /\ f.side \in {"buy", "sell"}
  BY <1>2 DEF Fill
<1>4. /\ B \in Nat /\ S \in Nat /\ B' \in Nat /\ S' \in Nat
      /\ f.side = "buy" => B = f.qty + B' /\ S' = S
      /\ f.side = "sell" => S = f.qty + S' /\ B' = B
  <2>1. IsFiniteSet(Travelling') /\ \A g \in Travelling' : g \in Fill
    BY <1>2, FS_RemoveElement
  <2>2. \A side : /\ Total(Sided(Travelling, side)) \in Nat
                  /\ Total(Sided(Travelling', side)) \in Nat
    BY <1>2, <2>1, SidedTotal
  <2>3. \A side : Total(Sided(Travelling, side)) =
                     IF f.side = side THEN f.qty + Total(Sided(Travelling', side))
                                      ELSE Total(Sided(Travelling', side))
    BY <1>2, SidedWithout
  <2>. QED
    BY <2>2, <2>3, UnderWaySided
<1>5. FillsNamed'
  BY <1>1 DEF HoldInv, FillsNamed, IdsKept
<1>6. ~ missed => quantity + B >= wallet + S /\ (buys <= 1 => quantity + B = wallet + S)
  BY DEF HoldInv, HoldingsFollowFills
<1>. SUFFICES ASSUME ~ missed
              PROVE  /\ NothingToSell'
                     /\ quantity' + B' >= wallet + S'
                     /\ buys <= 1 => quantity' + B' = wallet + S'
  BY <1>5 DEF HoldInv, NothingToSell, HoldingsFollowFills
<1>. HIDE DEF B, S
<1>7. CASE ApplyBuy(f)
  <2>1. f.side = "buy" /\ quantity' = quantity + f.qty
    BY <1>7 DEF ApplyBuy
  <2>2. f.n \in 1..buys
    BY <2>1 DEF HoldInv, FillsNamed
  <2>3. buys <= 1 => buys = 1 /\ UnderWay("buy")' = {}
    <3>1. ASSUME buys <= 1, NEW g \in UnderWay("buy")' PROVE FALSE
      <4>1. g \in Travelling /\ g # f /\ g.side = "buy"
        BY UnderWaySided DEF Sided
      <4>2. g.n = f.n /\ g.qty = f.qty
        BY <1>1, <2>1, <2>2, <3>1, <4>1 DEF HoldInv, FillsNamed
      <4>3. g \in Fill /\ f \in Fill
        BY <1>2, <4>1
      <4>. QED
        BY <2>1, <4>1, <4>2, <4>3 DEF Fill
    <3>. QED
      BY <1>1, <2>2, <3>1
  <2>4. NothingToSell'
    BY <2>3 DEF NothingToSell
  <2>. QED
    BY <1>1, <1>3, <1>4, <1>6, <2>1, <2>4
<1>8. ASSUME f.side = "sell", buys <= 1 PROVE buys = 1 /\ UnderWay("buy") = {} /\ B = 0
  <2>1. exits # 0
    BY <1>1, <1>8 DEF HoldInv, FillsNamed
  <2>2. buys = 1 /\ UnderWay("buy") = {}
    BY <1>1, <1>8, <2>1 DEF HoldInv, NothingToSell
  <2>. QED
    BY <2>2, TotalOfNone DEF B
<1>9. f.side = "sell" => UnderWay("buy")' = UnderWay("buy")
  BY UnderWaySided DEF Sided
<1>10. CASE ApplySell(f)
  <2>1. f.side = "sell" /\ f.qty < quantity /\ quantity' = quantity - f.qty
    BY <1>10 DEF ApplySell
  <2>2. NothingToSell'
    BY <1>8, <1>9, <2>1 DEF NothingToSell
  <2>. QED
    BY <1>1, <1>3, <1>4, <1>6, <2>1, <2>2
<1>11. CASE ApplyClose(f)
  <2>1. f.side = "sell" /\ f.qty >= quantity /\ quantity' = 0
    BY <1>11 DEF ApplyClose
  <2>2. NothingToSell'
    BY <1>8, <1>9, <2>1 DEF NothingToSell
  <2>. DEFINE cut == f.qty
              b == B'
              s == S'
  <2>3. /\ cut \in Nat /\ b \in Nat /\ s \in Nat
        /\ cut >= quantity
        /\ quantity + b >= wallet + (cut + s)
        /\ buys <= 1 => b = 0 /\ quantity + b = wallet + (cut + s)
    BY <1>3, <1>4, <1>6, <1>8, <2>1
  <2>. HIDE DEF cut, b, s
  <2>4. b >= wallet + s /\ (buys <= 1 => b = wallet + s)
    BY <1>1, <2>3
  <2>5. quantity' + b = b
    BY <2>1, <2>3
  <2>. QED
    BY <2>2, <2>4, <2>5 DEF b, s
<1>. QED
  BY <1>7, <1>10, <1>11

\* Where fills are, when the stream or the waiting handlers change.
LEMMA StreamTyped ==
    ASSUME BaseInv, stream # <<>>
    PROVE  /\ Len(stream) \in Nat \ {0} /\ Head(stream) = stream[1]
           /\ Len(Tail(stream)) = Len(stream) - 1
           /\ \A i \in 1..Len(Tail(stream)) : i + 1 \in 1..Len(stream) /\ Tail(stream)[i] = stream[i + 1]
           /\ \A i \in 1..Len(stream) : stream[i] \in Fill
BY DEF BaseInv, TypeOK

LEMMA FillsStay ==
    ASSUME TravelOnce, stream' = stream, Waiters' = Waiters, IsFiniteSet(handling')
    PROVE  TravelOnce' /\ Travelling' = Travelling
<1>1. \A f : [fill |-> f, at |-> "decimals"] \in handling <=> [fill |-> f, at |-> "decimals"] \in Waiters
  BY DEF Waiters
<1>2. \A f : [fill |-> f, at |-> "decimals"] \in handling'
               <=> [fill |-> f, at |-> "decimals"] \in Waiters'
  BY DEF Waiters
<1>. QED
  BY <1>1, <1>2 DEF TravelOnce, Travelling

LEMMA FillEnters ==
    ASSUME BaseInv, TravelOnce, NEW f \in Fill, f \notin Travelling,
           stream' = Append(stream, f), handling' = handling
    PROVE  TravelOnce' /\ Travelling' = Travelling \cup {f}
<1>1. /\ Len(stream) \in Nat /\ Len(stream') = Len(stream) + 1
      /\ \A i \in 1..Len(stream) : stream'[i] = stream[i]
      /\ stream'[Len(stream) + 1] = f
  BY DEF BaseInv, TypeOK
<1>2. 1..(Len(stream) + 1) = 1..Len(stream) \cup {Len(stream) + 1}
  BY <1>1
<1>3. \A i \in 1..Len(stream) : stream[i] # f
  BY DEF Travelling
<1>4. [fill |-> f, at |-> "decimals"] \notin handling
  <2>1. \A h \in Waiters : h.fill # f
    BY DEF Travelling
  <2>2. [fill |-> f, at |-> "decimals"].fill = f /\ [fill |-> f, at |-> "decimals"].at = "decimals"
    OBVIOUS
  <2>. QED
    BY <2>1, <2>2 DEF Waiters
<1>5. TravelOnce'
  BY <1>1, <1>2, <1>3, <1>4 DEF TravelOnce
<1>6. {stream'[i] : i \in 1..Len(stream')} = {stream[i] : i \in 1..Len(stream)} \cup {f}
  BY <1>1, <1>2
<1>7. Waiters' = Waiters
  BY DEF Waiters
<1>. QED
  BY <1>5, <1>6, <1>7 DEF Travelling

\* The head of the stream is gone from it, and nowhere else.
LEMMA HeadGoes ==
    ASSUME BaseInv, TravelOnce, stream # <<>>
    PROVE  /\ {stream[i] : i \in 1..Len(stream)} =
                  {Tail(stream)[i] : i \in 1..Len(Tail(stream))} \cup {Head(stream)}
           /\ \A i \in 1..Len(Tail(stream)) : Tail(stream)[i] # Head(stream)
           /\ \A i, j \in 1..Len(Tail(stream)) : Tail(stream)[i] = Tail(stream)[j] => i = j
           /\ \A i \in 1..Len(Tail(stream)) : [fill |-> Tail(stream)[i], at |-> "decimals"] \notin handling
           /\ \A h \in Waiters : h.fill # Head(stream)
<1>1. \A i \in 1..Len(stream) : i = 1 \/ (i - 1 \in 1..Len(Tail(stream)) /\ stream[i] = Tail(stream)[i - 1])
  <2>1. ASSUME NEW i \in 1..Len(stream), i # 1
        PROVE  i - 1 \in 1..Len(Tail(stream)) /\ stream[i] = Tail(stream)[i - 1]
    <3>1. i - 1 \in 1..Len(Tail(stream)) /\ i - 1 + 1 = i
      BY <2>1, StreamTyped
    <3>. QED
      BY <3>1, StreamTyped
  <2>. QED
    BY <2>1
<1>2. {stream[i] : i \in 1..Len(stream)} =
          {Tail(stream)[i] : i \in 1..Len(Tail(stream))} \cup {Head(stream)}
  <2>. DEFINE T == Tail(stream)
              n == Len(stream)
              m == Len(T)
  <2>1. \A i \in 1..n : i = 1 \/ (i - 1 \in 1..m /\ stream[i] = T[i - 1])
    BY <1>1
  <2>2. \A i \in 1..m : i + 1 \in 1..n /\ T[i] = stream[i + 1]
    BY StreamTyped
  <2>3. 1 \in 1..n /\ Head(stream) = stream[1]
    BY StreamTyped
  <2>. HIDE DEF T, n, m
  <2>4. {stream[i] : i \in 1..n} = {T[i] : i \in 1..m} \cup {Head(stream)}
    BY <2>1, <2>2, <2>3
  <2>. QED
    BY <2>4 DEF T, n, m
<1>3. \A i \in 1..Len(Tail(stream)) : Tail(stream)[i] # Head(stream)
  BY StreamTyped DEF TravelOnce
<1>4. \A i, j \in 1..Len(Tail(stream)) : Tail(stream)[i] = Tail(stream)[j] => i = j
  BY StreamTyped DEF TravelOnce
<1>5. \A i \in 1..Len(Tail(stream)) : [fill |-> Tail(stream)[i], at |-> "decimals"] \notin handling
  BY StreamTyped DEF TravelOnce
<1>6. ASSUME NEW h \in Waiters, h.fill = Head(stream) PROVE FALSE
  <2>1. h = [fill |-> h.fill, at |-> "decimals"]
    BY DEF Waiters, BaseInv, TypeOK
  <2>. QED
    BY <1>6, <2>1, StreamTyped DEF TravelOnce, Waiters
<1>. QED
  BY <1>2, <1>3, <1>4, <1>5, <1>6

LEMMA HeadLeaves ==
    ASSUME BaseInv, TravelOnce, stream # <<>>, stream' = Tail(stream), Waiters' = Waiters,
           IsFiniteSet(handling')
    PROVE  /\ Head(stream) \in Travelling
           /\ TravelOnce' /\ Travelling' = Travelling \ {Head(stream)}
<1>1. \A f : [fill |-> f, at |-> "decimals"] \in handling' <=> [fill |-> f, at |-> "decimals"] \in handling
  <2>1. \A f : [fill |-> f, at |-> "decimals"] \in handling <=> [fill |-> f, at |-> "decimals"] \in Waiters
    BY DEF Waiters
  <2>2. \A f : [fill |-> f, at |-> "decimals"] \in handling'
                 <=> [fill |-> f, at |-> "decimals"] \in Waiters'
    BY DEF Waiters
  <2>. QED
    BY <2>1, <2>2
<1>2. TravelOnce'
  BY <1>1, HeadGoes DEF TravelOnce
<1>3. Travelling = Travelling' \cup {Head(stream)} /\ Head(stream) \notin Travelling'
  BY HeadGoes DEF Travelling
<1>. QED
  BY <1>2, <1>3

LEMMA HeadWaits ==
    ASSUME BaseInv, TravelOnce, stream # <<>>, stream' = Tail(stream),
           handling' = handling \cup {[fill |-> Head(stream), at |-> "decimals"]}
    PROVE  TravelOnce' /\ Travelling' = Travelling
<1>. DEFINE h == [fill |-> Head(stream), at |-> "decimals"]
<1>1. h.fill = Head(stream) /\ h.at = "decimals"
  OBVIOUS
<1>2. \A f : [fill |-> f, at |-> "decimals"] = h => f = Head(stream)
  OBVIOUS
<1>3. handling' = handling \cup {h}
  OBVIOUS
<1>. HIDE DEF h
<1>4. Waiters' = Waiters \cup {h}
  BY <1>1, <1>3 DEF Waiters
<1>5. IsFiniteSet(handling')
  BY <1>3, FS_AddElement DEF TravelOnce
<1>6. TravelOnce'
  BY <1>2, <1>3, <1>5, HeadGoes DEF TravelOnce
<1>7. Travelling' = Travelling
  <2>1. {g.fill : g \in Waiters'} = {g.fill : g \in Waiters} \cup {Head(stream)}
    BY <1>1, <1>4
  <2>2. Travelling' = {Tail(stream)[i] : i \in 1..Len(Tail(stream))} \cup {g.fill : g \in Waiters'}
    BY DEF Travelling
  <2>3. {stream[i] : i \in 1..Len(stream)} =
            {Tail(stream)[i] : i \in 1..Len(Tail(stream))} \cup {Head(stream)}
    BY HeadGoes
  <2>. QED
    BY <2>1, <2>2, <2>3 DEF Travelling
<1>. QED
  BY <1>6, <1>7

\* A handler that waited for the decimals is done waiting.
LEMMA WaiterLeaves ==
    ASSUME BaseInv, TravelOnce, NEW h \in Waiters, stream' = stream, Waiters' = Waiters \ {h},
           IsFiniteSet(handling')
    PROVE  /\ h.fill \in Travelling
           /\ TravelOnce' /\ Travelling' = Travelling \ {h.fill}
<1>1. \A g \in Waiters : g = [fill |-> g.fill, at |-> "decimals"]
  BY DEF Waiters, BaseInv, TypeOK
<1>2. \A g \in Waiters : g.fill = h.fill => g = h
  BY <1>1
<1>3. \A i \in 1..Len(stream) : stream[i] # h.fill
  BY <1>1 DEF TravelOnce, Waiters
<1>4. \A f : [fill |-> f, at |-> "decimals"] \in handling' => [fill |-> f, at |-> "decimals"] \in handling
  <2>1. \A f : [fill |-> f, at |-> "decimals"] \in handling'
                 => [fill |-> f, at |-> "decimals"] \in Waiters'
    BY DEF Waiters
  <2>. QED
    BY <2>1 DEF Waiters
<1>5. TravelOnce'
  BY <1>4 DEF TravelOnce
<1>6. {g.fill : g \in Waiters'} = {g.fill : g \in Waiters} \ {h.fill}
  BY <1>2
<1>. QED
  BY <1>3, <1>5, <1>6 DEF Travelling
-----------------------------------------------------------------------------
(* Every step *)

LEMMA ExposedIds ==
    ASSUME BaseInv, NEW xs \in SUBSET running, Expose(xs)
    PROVE  IdsKept
BY ExposeKeeps DEF IdsKept

\* Nothing arrives or leaves, and no tokens move.
LEMMA NothingMoves ==
    ASSUME BaseInv, HoldInv, IdsKept, UNCHANGED <<stream, handling, quantity, wallet, buys, missed>>,
           exits' = exits \/ (exits' = exits + 1 /\ quantity > 0)
    PROVE  HoldInv'
<1>1. Waiters' = Waiters /\ IsFiniteSet(handling') /\ stream' = stream
  BY DEF Waiters, HoldInv, TravelOnce
<1>2. TravelOnce' /\ Travelling' = Travelling
  BY <1>1, FillsStay DEF HoldInv
<1>. QED
  BY <1>2, HoldQuiet

LEMMA TriggerHolds ==
    ASSUME BaseInv, HoldInv, NEW c, NEW k, Trigger(c, k)
    PROVE  HoldInv'
<1>0. exits \in Nat /\ quantity \in Nat
  BY ConstantsAssumption DEF BaseInv, TypeOK, ConstantsAssumption
<1>1. UNCHANGED <<stream, handling, quantity, wallet, buys, missed>>
  BY DEF Trigger, AfterExit, positionVars, boundVars
<1>2. CASE UNCHANGED exitVars
  <2>1. IdsKept /\ exits' = exits
    BY <1>2 DEF IdsKept, exitVars
  <2>. QED
    BY <1>1, <2>1, NothingMoves
<1>3. CASE Submit(c, k, FALSE) /\ ~ Suppressed(k)
  <2>1. IdsKept /\ exits' = exits + 1
    BY <1>0, <1>3 DEF IdsKept, Submit
  <2>2. quantity > 0
    BY <1>0, <1>3 DEF Suppressed
  <2>. QED
    BY <1>1, <2>1, <2>2, NothingMoves
<1>. QED
  BY <1>2, <1>3 DEF Trigger

LEMMA ApplyHolds ==
    ASSUME BaseInv, HoldInv, NEW f \in Travelling, NEW others, Apply(f, others), missed' = missed,
           TravelOnce', Travelling' = Travelling \ {f}
    PROVE  HoldInv'
<1>1. /\ ApplyBuy(f) \/ ApplySell(f) \/ ApplyClose(f)
      /\ UNCHANGED <<wallet, buys, exits, missed>>
  BY DEF Apply
<1>2. IdsKept
  <2>1. CASE ApplyBuy(f) \/ ApplySell(f)
    <3>1. Expose(running)
      BY <2>1 DEF ApplyBuy, ApplySell, ForgetPending
    <3>. QED
      BY <3>1, ExposedIds
  <2>2. CASE ApplyClose(f)
    BY <2>2 DEF ApplyClose, IdsKept
  <2>. QED
    BY <1>1, <2>1, <2>2
<1>. QED
  BY <1>1, <1>2, HoldApplied

\* Handlers that wait for the SOL price carry no fill any more.
LEMMA ApplyWaiters ==
    ASSUME NEW f, NEW others, Apply(f, others), IsFiniteSet(others)
    PROVE  /\ Waiters' = {g \in others : g.at = "decimals"}
           /\ IsFiniteSet(handling')
<1>. DEFINE h == [fill |-> f, at |-> "solPrice"]
<1>1. handling' = others \/ handling' = others \cup {h}
  BY DEF Apply
<1>2. h.at # "decimals"
  OBVIOUS
<1>. HIDE DEF h
<1>3. IsFiniteSet(handling')
  BY <1>1, FS_AddElement
<1>. QED
  BY <1>1, <1>2, <1>3 DEF Waiters

LEMMA DeliverHolds ==
    ASSUME BaseInv, HoldInv, Deliver
    PROVE  HoldInv'
<1>0. TravelOnce /\ IsFiniteSet(handling)
  BY DEF HoldInv, TravelOnce
<1>1. stream # <<>> /\ stream' = Tail(stream) /\ missed' = missed
  BY DEF Deliver
<1>2. CASE Apply(Head(stream), handling)
  <2>1. Waiters' = Waiters /\ IsFiniteSet(handling')
    BY <1>0, <1>2, ApplyWaiters DEF Waiters
  <2>2. /\ Head(stream) \in Travelling
        /\ TravelOnce' /\ Travelling' = Travelling \ {Head(stream)}
    BY <1>0, <1>1, <2>1, HeadLeaves
  <2>. QED
    BY <1>1, <1>2, <2>2, ApplyHolds
<1>3. CASE ~ Apply(Head(stream), handling)
  <2>1. /\ handling' = handling \cup {[fill |-> Head(stream), at |-> "decimals"]}
        /\ UNCHANGED <<quantity, wallet, buys, missed, exits, running>>
    BY <1>3 DEF Deliver, positionVars, exitVars
  <2>2. TravelOnce' /\ Travelling' = Travelling
    BY <1>0, <1>1, <2>1, HeadWaits
  <2>3. IdsKept
    BY <2>1 DEF IdsKept
  <2>. QED
    BY <2>1, <2>2, <2>3, HoldQuiet
<1>. QED
  BY <1>2, <1>3

LEMMA FillHolds ==
    ASSUME BaseInv, KeyInv, HoldInv, FillStep
    PROVE  HoldInv'
<1>0. TravelOnce /\ IsFiniteSet(handling)
  BY DEF HoldInv, TravelOnce
<1>1. CASE LoseFill
  <2>1. /\ stream # <<>> /\ stream' = Tail(stream) /\ handling' = handling /\ missed' = TRUE
        /\ UNCHANGED <<buys, exits, running>>
    BY <1>1 DEF LoseFill, lossUnchanged, exitVars
  <2>2. Waiters' = Waiters /\ IsFiniteSet(handling')
    BY <1>0, <2>1 DEF Waiters
  <2>3. TravelOnce' /\ Travelling' \subseteq Travelling
    BY <1>0, <2>1, <2>2, HeadLeaves
  <2>4. IdsKept
    BY <2>1 DEF IdsKept
  <2>. QED
    BY <2>1, <2>3, <2>4, HoldMissed
<1>2. ASSUME NEW h \in handling, DecimalsForFill(h) PROVE HoldInv'
  <2>1. /\ h \in Waiters /\ stream' = stream /\ missed' = missed
        /\ Apply(h.fill, handling \ {h})
    BY <1>2 DEF DecimalsForFill, Waiters
  <2>2. IsFiniteSet(handling \ {h})
    BY <1>0, FS_RemoveElement
  <2>3. Waiters' = Waiters \ {h} /\ IsFiniteSet(handling')
    BY <2>1, <2>2, ApplyWaiters DEF Waiters
  <2>4. /\ h.fill \in Travelling
        /\ TravelOnce' /\ Travelling' = Travelling \ {h.fill}
    BY <1>0, <2>1, <2>3, WaiterLeaves
  <2>. QED
    BY <2>1, <2>4, ApplyHolds
<1>3. ASSUME NEW h \in handling, DecimalsForFillFail(h) PROVE HoldInv'
  <2>1. /\ h \in Waiters /\ stream' = stream /\ missed' = TRUE /\ handling' = handling \ {h}
        /\ UNCHANGED <<buys, exits, running>>
    BY <1>3 DEF DecimalsForFillFail, lossUnchanged, exitVars, Waiters
  <2>2. Waiters' = Waiters \ {h} /\ IsFiniteSet(handling')
    BY <1>0, <2>1, FS_RemoveElement DEF Waiters
  <2>3. TravelOnce' /\ Travelling' \subseteq Travelling
    BY <1>0, <2>1, <2>2, WaiterLeaves
  <2>4. IdsKept
    BY <2>1 DEF IdsKept
  <2>. QED
    BY <2>1, <2>3, <2>4, HoldMissed
<1>4. ASSUME NEW h \in handling, FinishClose(h) PROVE HoldInv'
  <2>1. /\ h.at = "solPrice" /\ handling' = handling \ {h} /\ stream' = stream
        /\ Expose(running)
        /\ UNCHANGED <<quantity, wallet, buys, missed, exits>>
    BY <1>4 DEF FinishClose, ForgetPending, boundVars
  <2>2. Waiters' = Waiters /\ IsFiniteSet(handling')
    BY <1>0, <2>1, FS_RemoveElement DEF Waiters
  <2>3. TravelOnce' /\ Travelling' = Travelling
    BY <1>0, <2>1, <2>2, FillsStay
  <2>4. IdsKept
    BY <2>1, ExposedIds
  <2>. QED
    BY <2>1, <2>3, <2>4, HoldQuiet
<1>. QED
  BY <1>1, <1>2, <1>3, <1>4, DeliverHolds DEF FillStep

\* The process starts again: with nothing under way, on what was saved.
LEMMA RestartHolds ==
    ASSUME BaseInv, SavedIsCurrent, HoldInv, Restart
    PROVE  HoldInv'
<1>1. /\ stream' = <<>> /\ handling' = {} /\ quantity' = saved.quantity
      /\ missed' = (missed \/ stream # <<>> \/ handling # {})
      /\ Expose(running)
      /\ UNCHANGED <<exits, wallet, buys>>
  BY DEF Restart, Hydrate
<1>2. TravelOnce' /\ Travelling' = {}
  <2>1. 1..Len(stream') = {} /\ IsFiniteSet(handling') /\ Waiters' = {}
    BY <1>1, FS_EmptySet DEF Waiters
  <2>. QED
    BY <1>1, <2>1 DEF TravelOnce, Travelling
<1>3. IdsKept
  BY <1>1, ExposedIds
<1>4. CASE missed' = TRUE
  BY <1>1, <1>2, <1>3, <1>4, HoldMissed
<1>5. CASE missed' # TRUE
  <2>1. stream = <<>> /\ handling = {} /\ missed' = missed
    BY <1>1, <1>5 DEF BaseInv, TypeOK
  <2>2. quantity' = quantity
    BY <1>1, <2>1 DEF SavedIsCurrent
  <2>3. Travelling' = Travelling
    <3>1. 1..Len(stream) = {} /\ Waiters = {}
      BY <2>1 DEF Waiters
    <3>. QED
      BY <1>2, <3>1 DEF Travelling
  <2>. QED
    BY <1>1, <1>2, <1>3, <2>1, <2>2, <2>3, HoldQuiet
<1>. QED
  BY <1>4, <1>5

LEMMA HoldStep ==
    ASSUME BaseInv, SavedIsCurrent, KeyInv, HoldInv, [Next]_vars
    PROVE  HoldInv'
<1>. DEFINE Still == /\ running' = running /\ exits' = exits
                     /\ UNCHANGED <<stream, handling, quantity, wallet, buys, missed>>
<1>0. ASSUME Still PROVE HoldInv'
  BY <1>0, NothingMoves DEF IdsKept
<1>1. ASSUME NEW c \in Sweep, SweepStep(c) PROVE HoldInv'
  <2>1. CASE Evaluate(c)
    BY <2>1, TriggerHolds DEF Evaluate
  <2>2. CASE BeginSweep(c) \/ Activate(c) \/ Finish(c)
    <3>1. Still
      BY <2>2 DEF BeginSweep, Activate, Finish, idleUnchanged, exitVars, positionVars, boundVars
    <3>. QED
      BY <1>0, <3>1
  <2>. QED
    BY <1>1, <2>1, <2>2 DEF SweepStep
<1>2. ASSUME NEW c \in Caller, CallerStep(c) PROVE HoldInv'
  <2>1. CASE DecimalsForExit(c)
    <3>1. CASE quantity > 0 /\ Submit(c, caller[c].check, TRUE) /\ UNCHANGED positionVars
      <4>1. exits \in Nat
        BY ConstantsAssumption DEF BaseInv, TypeOK, ConstantsAssumption
      <4>2. /\ UNCHANGED <<stream, handling, quantity, wallet, buys, missed>>
            /\ exits' = exits + 1
        BY <2>1, <3>1 DEF DecimalsForExit, Submit, positionVars, boundVars
      <4>3. IdsKept
        BY <3>1, <4>1 DEF IdsKept, Submit
      <4>. QED
        BY <3>1, <4>2, <4>3, NothingMoves
    <3>2. CASE AfterExit(c, caller[c].check) /\ UNCHANGED <<pending, exitVars>>
      <4>1. Still
        BY <2>1, <3>2 DEF DecimalsForExit, AfterExit, exitVars, boundVars
      <4>. QED
        BY <1>0, <4>1
    <3>. QED
      BY <2>1, <3>1, <3>2 DEF DecimalsForExit
  <2>2. CASE DecimalsForExitFail(c) \/ Answer(c)
    <3>1. Still
      BY <2>2 DEF DecimalsForExitFail, Answer, AfterExit, exitVars, positionVars, boundVars
    <3>. QED
      BY <1>0, <3>1
  <2>3. CASE DecimalsForLadderFail(c)
    BY <2>3, RestartHolds DEF DecimalsForLadderFail
  <2>. QED
    BY <1>2, <2>1, <2>2, <2>3 DEF CallerStep
<1>3. CASE RequestFlatten
  BY <1>3, TriggerHolds DEF RequestFlatten
<1>4. CASE FillStep
  BY <1>4, FillHolds
<1>5. ASSUME NEW r \in pending, PendingExpires(r) PROVE HoldInv'
  <2>1. Expose({x \in running : Reason(x.check) = r})
    BY <1>5 DEF PendingExpires
  <2>2. IdsKept
    <3>. DEFINE xs == {x \in running : Reason(x.check) = r}
    <3>1. xs \in SUBSET running /\ Expose(xs)
      BY <2>1
    <3>. HIDE DEF xs
    <3>. QED
      BY <3>1, ExposedIds
  <2>3. UNCHANGED <<stream, handling, quantity, wallet, buys, missed, exits>>
    BY <1>5 DEF PendingExpires, positionVars, boundVars
  <2>. QED
    BY <2>2, <2>3, NothingMoves
<1>6. CASE Buy
  <2>. DEFINE f == [side |-> "buy", n |-> buys', qty |-> BuyQty]
  <2>1. /\ buys' = buys + 1 /\ wallet' = wallet + BuyQty /\ stream' = Append(stream, f)
        /\ UNCHANGED <<running, exits, quantity, missed, handling>>
    BY <1>6 DEF Buy, externalUnchanged, positionVars
  <2>2. buys \in Nat /\ BuyQty \in Nat
    BY ConstantsAssumption DEF BaseInv, TypeOK, ConstantsAssumption
  <2>3. f \in Fill /\ f.side = "buy" /\ f.n = buys + 1
    BY <2>1, <2>2 DEF Fill
  <2>4. f \notin Travelling
    BY <2>2, <2>3 DEF HoldInv, FillsNamed
  <2>5. f = [side |-> "buy", n |-> buys', qty |-> BuyQty]
    OBVIOUS
  <2>. HIDE DEF f
  <2>6. TravelOnce' /\ Travelling' = Travelling \cup {f}
    BY <2>1, <2>3, <2>4, FillEnters DEF HoldInv
  <2>. QED
    BY <2>1, <2>5, <2>6, HoldBought
<1>7. ASSUME NEW x \in running, ExitSold(x) PROVE HoldInv'
  <2>. DEFINE f == [side |-> "sell", n |-> x.id, qty |-> x.amount]
  <2>1. /\ x.amount <= wallet /\ running' = running \ {x} /\ wallet' = wallet - x.amount
        /\ stream' = Append(stream, f)
        /\ UNCHANGED <<buys, exits, quantity, missed, handling>>
    BY <1>7 DEF ExitSold, Done, externalUnchanged, positionVars
  <2>2. x.id \in Nat /\ x.amount \in Nat
    BY DEF BaseInv, TypeOK, Exit
  <2>3. f \in Fill /\ f.side = "sell" /\ f.n = x.id
    BY <2>2 DEF Fill
  <2>4. f \notin Travelling
    BY <2>3 DEF HoldInv, FillsNamed
  <2>5. f = [side |-> "sell", n |-> x.id, qty |-> x.amount]
    OBVIOUS
  <2>. HIDE DEF f
  <2>6. TravelOnce' /\ Travelling' = Travelling \cup {f}
    BY <2>1, <2>3, <2>4, FillEnters DEF HoldInv
  <2>. QED
    BY <2>1, <2>5, <2>6, HoldSold
<1>8. ASSUME NEW x \in running, ExitFails(x) PROVE HoldInv'
  <2>1. /\ running' = running \ {x}
        /\ UNCHANGED <<stream, handling, quantity, wallet, buys, missed, exits>>
    BY <1>8 DEF ExitFails, Done, externalUnchanged, positionVars
  <2>2. IdsKept
    BY <2>1 DEF IdsKept
  <2>. QED
    BY <2>1, <2>2, NothingMoves
<1>9. CASE DecimalsExpire \/ UNCHANGED vars
  <2>1. Still
    BY <1>9 DEF DecimalsExpire, vars, exitVars, positionVars, boundVars
  <2>. QED
    BY <1>0, <2>1
<1>10. CASE Restart
  BY <1>10, RestartHolds
<1>. QED
  BY <1>1, <1>2, <1>3, <1>4, <1>5, <1>6, <1>7, <1>8, <1>9, <1>10 DEF Next
-----------------------------------------------------------------------------
(* The theorems *)

LEMMA InitIInv == Init => IInv
<1>. SUFFICES ASSUME Init PROVE IInv
  OBVIOUS
<1>. USE ConstantsAssumption DEF Init, ConstantsAssumption
<1>1. TypeOK
  <2>1. caller \in [Caller -> Place]
    BY IdleOK DEF PlaceOK
  <2>2. stream \in Seq(Fill) /\ saved \in Row
    BY DEF Row
  <2>3. /\ quantity \in Nat /\ hits \in SUBSET Rung /\ trail \in BOOLEAN
        /\ pending \in SUBSET Check /\ warm \in BOOLEAN /\ opened \in Nat /\ wallet \in Nat
        /\ missed \in BOOLEAN
    OBVIOUS
  <2>4. exits \in 0..MaxExits /\ buys \in 0..MaxBuys /\ faults \in 0..MaxFaults
    OBVIOUS
  <2>5. /\ handling \in SUBSET [fill : Fill, at : {"decimals", "solPrice"}]
        /\ running \in SUBSET Exit
        /\ fired \in SUBSET [id : 1..MaxExits, check : Check, position : Nat]
    OBVIOUS
  <2>. HIDE DEF Init
  <2>. QED
    BY <2>1, <2>2, <2>3, <2>4, <2>5 DEF TypeOK, Place
<1>2. CallersInPlace
  BY DEF CallersInPlace, Caller, Idle, ManualFlatten
<1>3. SavedIsCurrent
  BY DEF SavedIsCurrent
<1>4. KeyInv
  BY DEF KeyInv, ExitsNamed, KeysStand, SuppressedWhilePending
<1>5. Travelling = {} /\ TravelOnce
  <2>1. 1..Len(stream) = {} /\ Waiters = {} /\ IsFiniteSet(handling)
    BY FS_EmptySet DEF Waiters
  <2>. QED
    BY <2>1 DEF Travelling, TravelOnce
<1>6. FillsNamed /\ NothingToSell
  BY <1>5 DEF FillsNamed, NothingToSell
<1>7. HoldingsFollowFills
  <2>1. UnderWay("buy") = {} /\ UnderWay("sell") = {}
    BY <1>5, UnderWaySided DEF Sided
  <2>2. Total(UnderWay("buy")) = 0 /\ Total(UnderWay("sell")) = 0
    BY <2>1, TotalOfNone
  <2>3. quantity = 0 /\ wallet = 0
    OBVIOUS
  <2>. QED
    BY <2>2, <2>3 DEF HoldingsFollowFills
<1>. QED
  BY <1>1, <1>2, <1>3, <1>4, <1>5, <1>6, <1>7 DEF IInv, BaseInv, HoldInv

LEMMA SpecIInv == Spec => []IInv
<1>1. IInv /\ [Next]_vars => IInv'
  BY BaseStep, SavedStep, KeyStep, HoldStep DEF IInv
<1>. QED
  BY <1>1, InitIInv, PTL DEF Spec

\* Every variable keeps its type: the position never holds less than nothing,
\* whatever sells arrive, and its marks are those of rungs there are.
THEOREM TypeCorrect == Spec => []TypeOK
BY SpecIInv, PTL DEF IInv, BaseInv

\* The row of the positions table is what the position is: a restart loses a
\* mark, or finds a closed position, only if it falls into an evaluation or
\* between a close and the answer of the price oracle.
THEOREM SavedFollows == Spec => []SavedIsCurrent
BY SpecIInv, PTL DEF IInv

\* Of two exits that run for one reason, the first had lost its key in
\* pendingCache, or the second was let past it by its wait for the decimals.
THEOREM OneExitPerReason == Spec => []SuppressedWhilePending
BY SpecIInv, PTL DEF IInv, KeyInv

\* While no fill was missed, the position accounts for every token of the
\* wallet: sells of several exits, fills that wait for decimals and restarts
\* neither apply a fill twice nor drop one; with one buy the two agree exactly.
THEOREM PositionFollowsWallet == Spec => []HoldingsFollowFills
BY SpecIInv, PTL DEF IInv, HoldInv
=============================================================================
