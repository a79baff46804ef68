------------------------------ MODULE WorldProofs ------------------------------
(***************************************************************************)
(* What keeps jacks alive and what opens doors, for any number of players, *)
(* doors, items and pictures.                                              *)
(*                                                                         *)
(* Vitals: energy stays in its range and screens say the state of their    *)
(* jacks, whatever measures there are and whatever damage a weapon or an   *)
(* enemy does.  Whoever touches a jack gives it one of a few next states   *)
(* (Hit, Fed, NextJack, ...), so a step is right if those are: the lemmas  *)
(* about one jack come first.                                              *)
(*                                                                         *)
(* Doors: a door is in one of eight states (DoorOK), which say what events *)
(* are still to come for it and in which order.  Only the events about the *)
(* door count, not the slots they are in (Transfer): that is what an item  *)
(* that adds events needs.  What a frame does is found slot by slot        *)
(* (UpTo), and at most one event of a door changes its state in a frame.   *)
(***************************************************************************)
EXTENDS MCWorld, ListLemmas

\* A jack that is sound: its record has its type, no more tanks are full than
\* it has, and it has energy unless it is dead.
Sound(j) ==
  /\ j \in JackType
  /\ j.f <= j.n
  /\ ~j.dead => j.energy \in (IF Kills THEN 0 ELSE 1)..Full

\* The program of the player is still to be told of j, or j has no energy.
Owed(j) == j.changed \/ j.dead \/ j.energy <= 0

\* A step from j to k forgets no announcement, and whatever a screen shows of
\* the jack has one when it changes.
Announced(j, k) ==
  /\ Owed(j) => Owed(k)
  /\ StateOf(k) # StateOf(j) => Owed(k)

Step(j, k) == Sound(k) /\ Announced(j, k)

\* The measures lie in the ranges of the fields they are assigned to.
LEMMA InRange ==
  /\ Full \in -Full..Full /\ 0 \in -Full..Full /\ Full \in (IF Kills THEN 0 ELSE 1)..Full
  /\ 0 \in 0..MaxTanks /\ 0 \in 0..MaxPower
  /\ -1 \in -1..Duration /\ Duration \in -1..Duration
BY VitalsAssumption

LEMMA NewJackSound == Sound(NewJack) /\ NewJack.changed
BY VitalsAssumption DEF NewJack, Sound, JackType

\* What a fresh value of some fields leaves to be known of a record.
Fields(k, e, f, b, n) ==
  k.energy = e /\ k.f = f /\ k.dead = b /\ k.n = n /\ k.changed

\* A jack with another energy and number of full tanks, which is told.
LEMMA Refilled ==
  ASSUME NEW j, Sound(j), NEW k \in JackType, k.n = j.n, k.f <= j.n, k.changed,
         ~k.dead => k.energy \in (IF Kills THEN 0 ELSE 1)..Full
  PROVE  Step(j, k)
BY DEF Step, Announced, Owed, Sound

\* srv_hit_jack keeps a jack sound and says what it did.
LEMMA HitSound ==
  ASSUME NEW j, Sound(j), NEW d \in Damage
  PROVE  Step(j, Hit(j, d))
<1>1. d \in 1..Full /\ Full \in Nat \ {0}
  BY VitalsAssumption
<1>2. CASE j.invincible >= 0
  BY <1>2 DEF Hit, Step, Announced, Owed, Sound, StateOf
<1>3. CASE ~(j.invincible >= 0)
  <2> DEFINE left == IF j.energy - d < -Full THEN -Full ELSE j.energy - d
  <2>1. left \in -Full..Full
    BY <1>1 DEF Sound, JackType
  <2>2. ~j.dead => left \in (IF Kills THEN -Full ELSE 1 - Full)..Full
    BY <1>1 DEF Sound, JackType
  <2>3. j.n \in 0..MaxTanks /\ j.f \in 0..MaxTanks /\ j.f <= j.n /\ j.dead \in BOOLEAN
    BY DEF Sound, JackType
  <2>4. CASE left > 0
    <3>1. Hit(j, d) = [j EXCEPT !.energy = left, !.changed = TRUE]
      BY <1>3, <2>4 DEF Hit
    <3>2. ~j.dead => left \in (IF Kills THEN 0 ELSE 1)..Full
      BY <2>2, <2>4
    <3> HIDE DEF left
    <3>3. Hit(j, d) \in JackType
      BY <2>1, <3>1 DEF Sound, JackType
    <3>4. Fields(Hit(j, d), left, j.f, j.dead, j.n)
      BY <2>3, <3>1 DEF Fields, Sound, JackType
    <3> QED
      BY <2>3, <3>2, <3>3, <3>4, Refilled DEF Fields
  <2>5. CASE ~(left > 0) /\ j.f > 0
    <3>1. Hit(j, d) = [j EXCEPT !.energy = left + Full, !.f = j.f - 1,
                                !.changed = TRUE]
      BY <1>3, <2>5 DEF Hit
    <3>2. left + Full \in -Full..Full
          /\ (~j.dead => left + Full \in (IF Kills THEN 0 ELSE 1)..Full)
      BY <1>1, <2>1, <2>2, <2>5
    <3>3. j.f - 1 \in 0..MaxTanks /\ j.f - 1 <= j.n
      BY <2>3, <2>5, VitalsAssumption
    <3> HIDE DEF left
    <3>4. Hit(j, d) \in JackType
      BY <3>1, <3>2, <3>3 DEF Sound, JackType
    <3>5. Fields(Hit(j, d), left + Full, j.f - 1, j.dead, j.n)
      BY <2>3, <3>1 DEF Fields, Sound, JackType
    <3> QED
      BY <2>3, <3>2, <3>3, <3>4, <3>5, Refilled DEF Fields
  <2>6. CASE ~(left > 0) /\ ~(j.f > 0)
    <3>1. Hit(j, d) = [j EXCEPT !.energy = left, !.dead = TRUE, !.changed = TRUE]
      BY <1>3, <2>6 DEF Hit
    <3> HIDE DEF left
    <3>2. Hit(j, d) \in JackType
      BY <2>1, <3>1 DEF Sound, JackType
    <3>3. Fields(Hit(j, d), left, j.f, TRUE, j.n)
      BY <2>3, <3>1 DEF Fields, Sound, JackType
    <3> QED
      BY <2>3, <3>2, <3>3, Refilled DEF Fields
  <2> QED
    BY <2>4, <2>5, <2>6
<1> QED
  BY <1>2, <1>3

\* srv_jack_get_energy keeps a jack sound and says what it did.
LEMMA FedSound ==
  ASSUME NEW j, Sound(j)
  PROVE  Step(j, Fed(j))
<1> DEFINE e == j.energy + EnergyItem
<1>1. Full \in Nat \ {0} /\ EnergyItem \in 0..Full /\ MaxTanks \in Nat
  BY VitalsAssumption
<1>2. /\ j.n \in 0..MaxTanks /\ j.f \in 0..MaxTanks /\ j.f <= j.n /\ j.dead \in BOOLEAN
      /\ j.energy \in -Full..Full /\ (~j.dead => j.energy \in (IF Kills THEN 0 ELSE 1)..Full)
  BY DEF Sound, JackType
<1>3. CASE e <= Full
  <2>1. Fed(j) = [j EXCEPT !.energy = e, !.changed = TRUE]
    BY <1>3 DEF Fed
  <2>2. e \in -Full..Full /\ (~j.dead => e \in (IF Kills THEN 0 ELSE 1)..Full)
    BY <1>1, <1>2, <1>3
  <2> HIDE DEF e
  <2>3. Fed(j) \in JackType
    BY <2>1, <2>2 DEF Sound, JackType
  <2>4. Fields(Fed(j), e, j.f, j.dead, j.n)
    BY <1>2, <2>1 DEF Fields, Sound, JackType
  <2> QED
    BY <1>2, <2>2, <2>3, <2>4, Refilled DEF Fields
<1>4. CASE ~(e <= Full) /\ j.f < j.n
  <2>1. Fed(j) = [j EXCEPT !.energy = e - Full, !.f = j.f + 1, !.changed = TRUE]
    BY <1>4 DEF Fed
  <2>2. e - Full \in -Full..Full /\ e - Full \in 1..Full /\ j.f + 1 \in 0..MaxTanks /\ j.f + 1 <= j.n
    BY <1>1, <1>2, <1>4
  <2> HIDE DEF e
  <2>3. Fed(j) \in JackType
    BY <2>1, <2>2 DEF Sound, JackType
  <2>4. Fields(Fed(j), e - Full, j.f + 1, j.dead, j.n)
    BY <1>2, <2>1 DEF Fields, Sound, JackType
  <2>5. 1..Full \subseteq (IF Kills THEN 0 ELSE 1)..Full
    BY <1>1
  <2> QED
    BY <1>1, <1>2, <2>2, <2>3, <2>4, <2>5, Refilled DEF Fields
<1>5. CASE ~(e <= Full) /\ ~(j.f < j.n)
  <2>1. Fed(j) = [j EXCEPT !.energy = Full, !.changed = TRUE]
    BY <1>5 DEF Fed
  <2>2. Fed(j) \in JackType
    BY InRange, <2>1 DEF Sound, JackType
  <2>3. Fields(Fed(j), Full, j.f, j.dead, j.n)
    BY <1>2, <2>1 DEF Fields, Sound, JackType
  <2>4. Fed(j).energy \in (IF Kills THEN 0 ELSE 1)..Full
    BY <1>1, <2>3 DEF Fields
  <2> QED
    BY <1>2, <2>2, <2>3, <2>4, Refilled DEF Fields
<1> QED
  BY <1>3, <1>4, <1>5

\* Scores are announced and change nothing else.
LEMMA ScoredSound ==
  ASSUME NEW j, Sound(j), NEW by \in Nat
  PROVE  Step(j, Scored(j, by))
<1> DEFINE k == Scored(j, by)
<1>1. (j.score + by) % ScoreWrap \in 0..(ScoreWrap - 1)
  BY VitalsAssumption DEF Sound, JackType
<1>2. k = [j EXCEPT !.score = (j.score + by) % ScoreWrap, !.changed = TRUE]
  BY DEF Scored
<1>3. k \in JackType
  BY <1>1, <1>2 DEF Sound, JackType
<1>4. k.energy = j.energy /\ k.f = j.f /\ k.n = j.n /\ k.dead = j.dead /\ k.changed
  BY <1>2 DEF Sound, JackType
<1> HIDE DEF k
<1>5. Sound(k) /\ Owed(k)
  BY <1>3, <1>4 DEF Sound, Owed
<1> QED
  BY <1>5 DEF Step, Announced, k
LEMMA StepTrans ==
  ASSUME NEW j, NEW k, NEW l, Step(j, k), Step(k, l)
  PROVE  Step(j, l)
BY DEF Step, Announced

LEMMA StepSame ==
  ASSUME NEW j, Sound(j)
  PROVE  Step(j, j)
BY DEF Step, Announced

\* calc_client keeps a jack sound, and a jack that returns is announced.
LEMMA NextJackSound ==
  ASSUME NEW j, Sound(j)
  PROVE  Step(j, NextJack(j))
<1> DEFINE k == [j EXCEPT !.start = 0]
           l == NextJack(j)
<1>1. /\ Full \in Nat \ {0} /\ Duration \in Nat /\ MaxPower \in Nat
      /\ ScoreWrap \in Nat \ {0}
  BY VitalsAssumption
<1>2. /\ k \in JackType /\ k.f <= k.n /\ Sound(k) /\ StateOf(k) = StateOf(j)
      /\ k.dead = j.dead /\ k.changed = j.changed /\ k.energy = j.energy
  BY DEF Sound, JackType, StateOf
<1>3. CASE j.dead
  <2> DEFINE m == Scored(k, ScoreWrap - 1)
  <2>1. Step(k, m)
    BY <1>1, <1>2, ScoredSound
  <2>2. m.changed
    BY <1>2 DEF Scored, JackType
  <2>3. l = [m EXCEPT !.dead = FALSE, !.energy = Full, !.invincible = -1, !.power = 0]
    BY <1>3 DEF NextJack
  <2> HIDE DEF m, l
  <2>4. l \in JackType
    BY InRange, <2>1, <2>3 DEF Step, Sound, JackType
  <2>5. l.f = m.f /\ l.n = m.n /\ l.energy = Full /\ l.changed
    BY <2>1, <2>2, <2>3 DEF Step, Sound, JackType
  <2>6. Sound(l) /\ Owed(l)
    BY <1>1, <2>1, <2>4, <2>5 DEF Step, Sound, Owed
  <2> QED
    BY <2>6 DEF Step, Announced, l
<1>4. CASE ~j.dead /\ j.invincible >= 0
  <2> DEFINE s == IF j.invincible = 0 THEN -1 ELSE 0
  <2>1. l = [k EXCEPT !.invincible = @ - 1, !.start = s]
    BY <1>4 DEF NextJack
  <2>2. k.invincible - 1 \in -1..Duration /\ s \in {-1, 0, 1}
    BY <1>1, <1>2, <1>4 DEF Sound, JackType
  <2> HIDE DEF l, s, k
  <2>3. l \in JackType
    BY <1>2, <2>1, <2>2 DEF JackType
  <2>4. /\ l.f = k.f /\ l.n = k.n /\ l.energy = k.energy /\ l.changed = k.changed
        /\ l.dead = k.dead /\ l.power = k.power /\ l.score = k.score
    BY <1>2, <2>1 DEF JackType
  <2>5. Sound(l) /\ StateOf(l) = StateOf(k) /\ (Owed(j) => Owed(l))
    BY <1>2, <2>3, <2>4 DEF Sound, StateOf, Owed
  <2> QED
    BY <1>2, <2>5 DEF Step, Announced, l
<1>5. CASE ~j.dead /\ ~(j.invincible >= 0)
  <2>1. l = k
    BY <1>5 DEF NextJack
  <2> QED
    BY <1>2, <2>1 DEF Step, Announced, Owed
<1> QED
  BY <1>3, <1>4, <1>5

\* Whatever an enemy does to a jack.
LEMMA TouchedSound ==
  ASSUME NEW j, Sound(j), NEW k \in Touched(j)
  PROVE  Step(j, k)
<1>1. CASE k = j
  BY <1>1, StepSame
<1>2. CASE \E d \in Damage : k = Hit(j, d)
  BY <1>2, HitSound
<1>3. CASE Kills /\ k = Drained(j)
  <2>1. k \in JackType /\ k.f = 0 /\ k.n = j.n /\ k.energy = 0 /\ k.dead = j.dead
    BY <1>3, InRange DEF Drained, Sound, JackType
  <2>2. j.n \in Nat /\ 0 \in 0..Full
    BY VitalsAssumption DEF Sound, JackType
  <2> QED
    BY <1>3, <2>1, <2>2 DEF Step, Announced, Owed, Sound
<1>4. CASE \E d \in Damage : k = Killed(Hit(j, d))
  <2>1. PICK d \in Damage : k = Killed(Hit(j, d))
    BY <1>4
  <2> DEFINE h == Hit(j, d)
  <2>2. Step(j, h)
    BY HitSound
  <2> HIDE DEF h
  <2>3. k = Killed(h)
    BY <2>1 DEF h
  <2>4. k \in JackType /\ k.f = 0 /\ k.n = h.n /\ k.energy = 0 /\ k.dead
    BY <2>2, <2>3, InRange DEF Killed, Step, Sound, JackType
  <2>5. h.n \in Nat
    BY <2>2, VitalsAssumption DEF Step, Sound, JackType
  <2> QED
    BY <2>4, <2>5 DEF Step, Announced, Owed, Sound
<1> QED
  BY <1>1, <1>2, <1>3, <1>4 DEF Touched

\* Whatever an item gives a jack.
LEMMA GivenSound ==
  ASSUME NEW j, Sound(j), NEW k \in Given(j)
  PROVE  Step(j, k)
<1>1. CASE k = j
  BY <1>1, StepSame
<1>2. CASE k = Fed(j)
  BY <1>2, FedSound
<1>3. CASE k = [j EXCEPT !.start = 1, !.invincible = Duration]
  <2>1. k \in JackType
    BY <1>3, InRange DEF Sound, JackType
  <2>2. /\ k.f = j.f /\ k.n = j.n /\ k.energy = j.energy /\ k.changed = j.changed
        /\ k.dead = j.dead /\ k.power = j.power /\ k.score = j.score
    BY <1>3 DEF Sound, JackType
  <2> QED
    BY <2>1, <2>2 DEF Step, Announced, Owed, Sound, StateOf
<1>4. CASE \E d \in Damage : k = Hit(j, d)
  BY <1>4, HitSound
<1>5. CASE j.n < MaxTanks /\ k = [j EXCEPT !.n = @ + 1, !.f = @ + 1, !.changed = TRUE]
  <2>1. j.n \in 0..MaxTanks /\ j.f \in 0..MaxTanks /\ j.f <= j.n /\ MaxTanks \in Nat
    BY VitalsAssumption DEF Sound, JackType
  <2>2. j.n + 1 \in 0..MaxTanks /\ j.f + 1 \in 0..MaxTanks
    BY <1>5, <2>1
  <2>3. k \in JackType
    BY <1>5, <2>2 DEF Sound, JackType
  <2>4. k.f = j.f + 1 /\ k.n = j.n + 1 /\ k.energy = j.energy /\ k.dead = j.dead /\ k.changed
    BY <1>5 DEF Sound, JackType
  <2> QED
    BY <2>1, <2>3, <2>4 DEF Step, Announced, Owed, Sound
<1>6. CASE j.power < MaxPower /\ k = [j EXCEPT !.power = @ + 1, !.changed = TRUE]
  <2>1. j.power + 1 \in 0..MaxPower
    BY <1>6, VitalsAssumption DEF Sound, JackType
  <2>2. k \in JackType
    BY <1>6, <2>1 DEF Sound, JackType
  <2>3. k.f = j.f /\ k.n = j.n /\ k.energy = j.energy /\ k.dead = j.dead /\ k.changed
    BY <1>6 DEF Sound, JackType
  <2> QED
    BY <2>2, <2>3 DEF Step, Announced, Owed, Sound
<1> QED
  BY <1>1, <1>2, <1>3, <1>4, <1>5, <1>6 DEF Given
-----------------------------------------------------------------------------
\* The inductive invariant: all jacks are sound; a screen that does not say the
\* state of its jack is going to be told, unless the jack has no energy; and
\* once a frame was sent it has been told.
IInv ==
  /\ phase \in Phases /\ in \subseteq Player /\ weapon \subseteq Player
  /\ told \subseteq Player /\ shield \in [Player -> SUBSET Player]
  /\ DOMAIN jack = Player /\ jack = [p \in Player |-> jack[p]]
  /\ \A p \in Player : Sound(jack[p]) /\ (p \in told \/ Owed(jack[p]))
  /\ ScreensSayTheState

LEMMA IInvImplies == IInv => TypeOK /\ EnergyInRange /\ ScreensSayTheState
<1> SUFFICES ASSUME IInv PROVE TypeOK /\ EnergyInRange
  BY DEF IInv
<1>1. jack \in [Player -> JackType]
  BY DEF IInv, Sound
<1>2. TypeOK
  BY <1>1 DEF IInv, TypeOK
<1>3. EnergyInRange
  BY DEF IInv, Sound, EnergyInRange
<1> QED
  BY <1>2, <1>3

\* What a phase of the calculation that sends nothing does to all jacks.
LEMMA JacksMove ==
  ASSUME IInv, NEW f, jack' = [p \in Player |-> f[p]], StillTold,
         \A p \in Player : Step(jack[p], f[p])
  PROVE  /\ DOMAIN jack' = Player /\ jack' = [p \in Player |-> jack'[p]]
         /\ told' \subseteq Player
         /\ \A p \in Player : Sound(jack'[p]) /\ (p \in told' \/ Owed(jack'[p]))
<1>1. \A p \in Player : jack'[p] = f[p]
  OBVIOUS
<1>2. told' \subseteq Player
  BY DEF StillTold, IInv
<1>3. ASSUME NEW p \in Player
      PROVE  Sound(jack'[p]) /\ (p \in told' \/ Owed(jack'[p]))
  <2>1. Step(jack[p], jack'[p])
    BY <1>1
  <2>2. CASE p \in told /\ StateOf(jack'[p]) = StateOf(jack[p])
    BY <2>1, <2>2 DEF StillTold, Step
  <2>3. CASE StateOf(jack'[p]) # StateOf(jack[p])
    BY <2>1, <2>3 DEF Step, Announced
  <2>4. CASE p \notin told
    BY <2>1, <2>4 DEF Step, Announced, IInv
  <2> QED
    BY <2>2, <2>3, <2>4
<1> QED
  BY <1>1, <1>2, <1>3

\* The same for one jack.
LEMMA JackMoves ==
  ASSUME IInv, NEW p \in Player, NEW k, jack' = [jack EXCEPT ![p] = k], StillTold,
         Step(jack[p], k)
  PROVE  /\ DOMAIN jack' = Player /\ jack' = [q \in Player |-> jack'[q]]
         /\ told' \subseteq Player
         /\ \A q \in Player : Sound(jack'[q]) /\ (q \in told' \/ Owed(jack'[q]))
<1> DEFINE f == [q \in Player |-> IF q = p THEN k ELSE jack[q]]
<1>1. jack' = [q \in Player |-> f[q]]
  BY DEF IInv
<1>2. \A q \in Player : Step(jack[q], f[q])
  BY StepSame DEF IInv
<1> HIDE DEF f
<1> QED
  BY <1>1, <1>2, JacksMove

THEOREM InitIInv == Init => IInv
<1> SUFFICES ASSUME Init PROVE IInv
  OBVIOUS
<1>1. \A p \in Player : jack[p] = NewJack
  BY DEF Init
<1>2. \A p \in Player : Sound(jack[p])
  BY <1>1, NewJackSound
<1> QED
  BY <1>2 DEF Init, IInv, Phases, ScreensSayTheState

\* Everybody is sent what changed.
LEMMA SendKeeps == IInv /\ Send => IInv'
<1> SUFFICES ASSUME IInv, Send PROVE IInv'
  OBVIOUS
<1> DEFINE g == [p \in Player |-> IF p \in in THEN [jack[p] EXCEPT !.changed = FALSE] ELSE jack[p]]
<1>1. jack' = g /\ phase' = "jacks" /\ in' = in /\ told' = told \cup {p \in in : jack[p].changed}
  BY DEF Send
<1>2. ASSUME NEW p \in Player
      PROVE  /\ Sound(jack'[p])
             /\ p \in told' \/ Owed(jack'[p])
             /\ p \in in /\ ~jack'[p].dead /\ jack'[p].energy > 0 => p \in told'
  <2>1. Sound(jack[p]) /\ (p \in told \/ Owed(jack[p]))
    BY DEF IInv
  <2>2. CASE p \notin in
    BY <1>1, <2>1, <2>2
  <2>3. CASE p \in in
    <3>1. jack'[p] = [jack[p] EXCEPT !.changed = FALSE]
      BY <1>1, <2>3
    <3>2. jack'[p] \in JackType
      BY <2>1, <3>1 DEF Sound, JackType
    <3>3. /\ jack'[p].f = jack[p].f /\ jack'[p].n = jack[p].n
          /\ jack'[p].energy = jack[p].energy /\ jack'[p].dead = jack[p].dead
      BY <2>1, <3>1 DEF Sound, JackType
    <3>4. jack[p].energy \in Int
      BY <2>1, VitalsAssumption DEF Sound, JackType
    <3> QED
      BY <1>1, <2>1, <2>3, <3>2, <3>3, <3>4 DEF Sound, Owed
  <2> QED
    BY <2>2, <2>3
<1>3. shield' \in [Player -> SUBSET Player]
  BY DEF Send, IInv
<1> QED
  BY <1>1, <1>2, <1>3 DEF IInv, Phases, ScreensSayTheState, Send

\* A record that was freed is one that nobody has to be told of.
LEMMA LeaveKeeps ==
  ASSUME IInv, NEW p \in Player, Leave(p)
  PROVE  IInv'
<1>1. /\ jack' = [jack EXCEPT ![p] = NewJack] /\ told' = told \cup {p}
      /\ in' = in \ {p} /\ phase' = phase /\ weapon' = weapon
  BY DEF Leave
<1>2. \A q \in Player : Sound(jack'[q]) /\ (q \in told' \/ Owed(jack'[q]))
  BY <1>1, NewJackSound DEF IInv
<1>3. shield' \in [Player -> SUBSET Player]
  BY DEF Leave, IInv
<1>4. ScreensSayTheState'
  BY <1>1 DEF IInv, ScreensSayTheState
<1> QED
  BY <1>1, <1>2, <1>3, <1>4 DEF IInv

\* calc_client for all players.
LEMMA JacksKeep ==
  ASSUME IInv, NEW S \in SUBSET Player, Jacks(S)
  PROVE  IInv'
<1> DEFINE f == [p \in Player |-> IF p \in in THEN NextJack(jack[p]) ELSE jack[p]]
<1>1. jack' = [p \in Player |-> f[p]]
  BY DEF Jacks
<1>2. \A p \in Player : Step(jack[p], f[p])
  BY NextJackSound, StepSame DEF IInv
<1> HIDE DEF f
<1>3. StillTold
  BY DEF Jacks
<1> QED
  BY <1>1, <1>2, <1>3, JacksMove DEF IInv, Jacks, Phases, ScreensSayTheState

\* A weapon takes energy from those it hits and scores for its creator.
LEMMA WeaponHitsKeeps ==
  ASSUME IInv, NEW w \in Player, NEW H \in SUBSET Player, NEW d \in Damage,
         WeaponHits(w, H, d)
  PROVE  IInv'
<1> DEFINE hit == [p \in Player |-> IF p \in H THEN Hit(jack[p], d) ELSE jack[p]]
           killed == Cardinality({p \in H : hit[p].dead})
           f == Rewarded(hit, w, killed)
<1>1. \A p \in Player : Step(jack[p], hit[p])
  BY HitSound, StepSame DEF IInv
<1>2. killed \in Nat
  <2>1. IsFiniteSet({p \in H : hit[p].dead})
    BY FS_Subset, VitalsAssumption
  <2> QED
    BY <2>1, FS_CardinalityType
<1>3. DOMAIN hit = Player /\ hit = [p \in Player |-> hit[p]]
  OBVIOUS
<1>4. jack' = f /\ StillTold /\ phase' = phase /\ in' = in /\ weapon' = weapon \ {w}
      /\ shield' = shield /\ phase = "weapons"
  BY DEF WeaponHits
<1> HIDE DEF hit, killed
<1>5. \A p \in Player : Step(jack[p], f[p])
  <2>1. CASE w \in in /\ killed > 0
    <3>1. Step(hit[w], Scored(hit[w], killed))
      BY <1>1, <1>2, ScoredSound DEF Step
    <3> QED
      BY <1>1, <1>3, <2>1, <3>1, StepTrans DEF Rewarded
  <2> QED
    BY <1>1, <2>1 DEF Rewarded
<1>6. f = [p \in Player |-> f[p]]
  BY <1>3 DEF Rewarded
<1> HIDE DEF f
<1>7. jack' = [p \in Player |-> f[p]]
  BY <1>4, <1>6
<1> QED
  BY <1>4, <1>5, <1>7, JacksMove DEF IInv, ScreensSayTheState

\* A weapon is gone, and its creator scores for the enemies it destroyed.
LEMMA WeaponLostKeeps ==
  ASSUME IInv, NEW w \in Player, NEW killed \in 0..ScoreWrap, WeaponLost(w, killed)
  PROVE  IInv'
<1> DEFINE f == Rewarded(jack, w, killed)
<1>1. /\ jack' = f /\ StillTold /\ phase' = phase /\ in' = in /\ weapon' = weapon \ {w}
      /\ shield' = shield /\ phase = "weapons"
  BY DEF WeaponLost
<1>2. killed \in Nat /\ DOMAIN jack = Player /\ \A p \in Player : Step(jack[p], jack[p])
  BY VitalsAssumption, StepSame DEF IInv
<1>3. Step(jack[w], Scored(jack[w], killed))
  BY <1>2, ScoredSound DEF IInv
<1>4. \A p \in Player : Step(jack[p], f[p])
  BY <1>2, <1>3 DEF Rewarded
<1>5. f = [p \in Player |-> f[p]]
  BY DEF Rewarded, IInv
<1> HIDE DEF f
<1>6. jack' = [p \in Player |-> f[p]]
  BY <1>1, <1>5
<1> QED
  BY <1>1, <1>4, <1>6, JacksMove DEF IInv, ScreensSayTheState

\* An enemy touches a jack, or a jack takes an item.
LEMMA TouchKeeps ==
  ASSUME IInv, NEW p \in Player, EnemyTouches(p) \/ ItemTaken(p)
  PROVE  IInv'
<1>1. PICK k : jack' = [jack EXCEPT ![p] = k] /\ k \in Touched(jack[p]) \cup Given(jack[p])
  BY DEF EnemyTouches, ItemTaken
<1>2. Step(jack[p], k)
  BY <1>1, TouchedSound, GivenSound DEF IInv
<1>3. StillTold /\ UNCHANGED <<phase, in, weapon, shield>> /\ phase # "jacks"
  BY DEF EnemyTouches, ItemTaken
<1> QED
  BY <1>1, <1>2, <1>3, JackMoves DEF IInv, ScreensSayTheState

THEOREM NextIInv == IInv /\ [Next]_vars => IInv'
<1> SUFFICES ASSUME IInv, [Next]_vars PROVE IInv'
  OBVIOUS
<1>1. CASE Send
  BY <1>1, SendKeeps
<1>2. CASE EndPhase
  BY <1>2 DEF EndPhase, IInv, Phases, ScreensSayTheState
<1>3. CASE \E p \in Player : Join(p)
  BY <1>3 DEF Join, IInv, ScreensSayTheState
<1>4. CASE \E p \in Player : Leave(p)
  BY <1>4, LeaveKeeps
<1>5. CASE \E p \in Player : EnemyTouches(p) \/ ItemTaken(p)
  BY <1>5, TouchKeeps
<1>6. CASE \E w \in Player, killed \in 0..ScoreWrap : WeaponLost(w, killed)
  BY <1>6, WeaponLostKeeps
<1>7. CASE \E S \in SUBSET Player : Jacks(S)
  BY <1>7, JacksKeep
<1>8. CASE \E w \in Player, H \in SUBSET Player, d \in Damage : WeaponHits(w, H, d)
  BY <1>8, WeaponHitsKeeps
<1>9. CASE UNCHANGED vars
  BY <1>9 DEF vars, IInv, ScreensSayTheState
<1> QED
  BY <1>1, <1>2, <1>3, <1>4, <1>5, <1>6, <1>7, <1>8, <1>9 DEF Next

\* Every variable keeps its type: energy never leaves its byte, tanks and power
\* never pass their limits.
THEOREM VitalsTypeCorrect == Spec => []TypeOK
<1>1. Spec => []IInv
  BY InitIInv, NextIInv, PTL DEF Spec
<1> QED
  BY <1>1, IInvImplies, PTL

\* A jack that is not dead has energy, and no more than a full measure
\* (srv_hit_jack, srv_jack_get_energy, kill_npcs).
THEOREM EnergyStaysInRange == Spec => []EnergyInRange
<1>1. Spec => []IInv
  BY InitIInv, NextIInv, PTL DEF Spec
<1> QED
  BY <1>1, IInvImplies, PTL

\* After a frame was sent the players' screens say what the server holds of
\* their jacks (the flag `changed').
THEOREM ScreensAreRight == Spec => []ScreensSayTheState
<1>1. Spec => []IInv
  BY InitIInv, NextIInv, PTL DEF Spec
<1> QED
  BY <1>1, IInvImplies, PTL
-----------------------------------------------------------------------------
Turning == {"open", "close", "starOpen", "starClose"}
Funcs == {"none", "pic", "sleep", "doorPic", "sound"} \cup Turning
Value == {D!Block, D!Free} \cup Int
Event == [left : Nat, func : Funcs, item : Door \cup Nat, arg : Value]
States == {D!Moving, D!Closed, D!Open}
DoorRecord == [state : States, data : Value, pic : Value]

\* The pictures that are still to be shown of door d, and the changes of its
\* state: the slots where ev holds them.
PicsIn(ev, d) == {s \in DOMAIN ev : ev[s].func = "doorPic" /\ ev[s].item = d}
TurnsIn(ev, d) == {s \in DOMAIN ev : ev[s].func \in Turning /\ ev[s].item = d}
Before(ev, d, c) == \A s \in PicsIn(ev, d) : ev[s].left < ev[c].left
\* The last picture, or the one that is shown, is a.
Ends(ev, d, p, a) ==
  \/ PicsIn(ev, d) = {} /\ p = a
  \/ \E s \in PicsIn(ev, d) : ev[s].arg = a /\ \A t \in PicsIn(ev, d) \ {s} : ev[t].left < ev[s].left

Starred(d) == OpenFor >= 0 /\ \E i \in DOMAIN Items : Items[i].kind = "star" /\ Items[i].door = d

\* What a door may be doing: r is its record, t the tile where it stands.
Idle(ev, d) == PicsIn(ev, d) = {} /\ TurnsIn(ev, d) = {}
IsClosed(ev, d, r, t) == Idle(ev, d) /\ r.state = D!Closed /\ t = D!Block /\ r.pic = 0
IsOpen(ev, d, r, t) ==
  Idle(ev, d) /\ r.state = D!Open /\ t = D!Free /\ r.data = D!Block /\ r.pic = DoorPics - 1
OpensByLever(ev, d, r) ==
  /\ r.state = D!Moving /\ r.data = D!Block
  /\ \E c \in DOMAIN ev : /\ TurnsIn(ev, d) = {c} /\ ev[c].func = "open"
                          /\ Before(ev, d, c) /\ Ends(ev, d, r.pic, DoorPics - 1)
ClosesByLever(ev, d, r) ==
  /\ r.state = D!Moving
  /\ \E c \in DOMAIN ev : /\ TurnsIn(ev, d) = {c} /\ ev[c].func = "close" /\ ev[c].arg = D!Block
                          /\ Before(ev, d, c) /\ Ends(ev, d, r.pic, 0)
OpensForEver(ev, d, r, t) ==
  /\ r.state = D!Moving /\ t = D!Block
  /\ \E c \in DOMAIN ev : /\ TurnsIn(ev, d) = {c} /\ ev[c].func = "starOpen"
                          /\ Before(ev, d, c) /\ Ends(ev, d, r.pic, DoorPics - 1)
OpensByStar(ev, d, r, t) ==
  /\ Starred(d) /\ r.state = D!Moving /\ t = D!Block
  /\ \E b, c \in DOMAIN ev :
       /\ TurnsIn(ev, d) = {b, c} /\ ev[b].func = "starOpen" /\ ev[c].func = "starClose"
       /\ ev[b].left < ev[c].left /\ Before(ev, d, c) /\ Ends(ev, d, r.pic, 0)
ClosesByStar(ev, d, r, t) ==
  /\ Starred(d) /\ r.state = D!Open /\ t = D!Free /\ r.data = D!Block
  /\ \E c \in DOMAIN ev : /\ TurnsIn(ev, d) = {c} /\ ev[c].func = "starClose"
                          /\ Before(ev, d, c) /\ Ends(ev, d, r.pic, 0)
\* A door outside the map, after a star lever was touched.
Jammed(ev, d, r) == Idle(ev, d) /\ r.state = D!Moving
DoorOK(ev, d, r, t) ==
  \/ IsClosed(ev, d, r, t) \/ IsOpen(ev, d, r, t) \/ Jammed(ev, d, r)
  \/ OpensByLever(ev, d, r) \/ ClosesByLever(ev, d, r)
  \/ OpensForEver(ev, d, r, t) \/ OpensByStar(ev, d, r, t) \/ ClosesByStar(ev, d, r, t)

Due(ev) == \A s \in DOMAIN ev : ev[s].func # "none" => ev[s].left >= 1
NonePending(ev) == \A s \in DOMAIN ev : ev[s].func = "none"
\* The events are gone and the new map is not there yet.
Abandoned(r, t) == /\ r.state = D!Closed => t = D!Block /\ r.pic = 0
                   /\ r.state = D!Open => t = D!Free

DoorTypes ==
  /\ pc \in {"lobby", "keys", "items"} /\ changeMap \in 0..2
  /\ event \in Seq(Event)
  /\ door \in [Door -> DoorRecord] /\ tile \in [Door -> Value]
  /\ pic \in [DOMAIN Items -> Value] /\ awake \in SUBSET DOMAIN Items
  /\ passed \in [Player -> Nat]

DoorsIInv ==
  /\ DoorTypes /\ Due(event)
  /\ pc = "lobby" \/ changeMap = 1 => NonePending(event)
  /\ pc = "items" => changeMap # 1 /\ cur \in 1..(Len(Items) + 1)
  /\ pc # "lobby" =>
       \A d \in Door : IF changeMap = 1 THEN Abandoned(door[d], tile[d])
                       ELSE DoorOK(event, d, door[d], tile[d])
  /\ \A j \in Player : passed[j] = 0 \/ (passed[j] = 1 /\ j \notin using)

-----------------------------------------------------------------------------
\* Where the events of E are in the list g that ev has become: q[s] is the
\* place in E of what slot s was given, or 0.
Placed(ev, g, E, k) ==
  /\ DOMAIN ev \subseteq DOMAIN g
  /\ \E q \in [DOMAIN g -> 0..k] :
       /\ \A s \in DOMAIN g : q[s] = 0 => g[s] = IF s \in DOMAIN ev THEN ev[s] ELSE D!NoEvent
       /\ \A s \in DOMAIN g : q[s] # 0 => g[s] = E[q[s]] /\ (s \in DOMAIN ev => ev[s].func = "none")
       /\ \A i \in 1..k : \E s \in DOMAIN g : q[s] = i
       /\ \A s, t \in DOMAIN g : q[s] = q[t] /\ q[s] # 0 => s = t

LEMMA NoEventIs == D!NoEvent \in Event /\ D!NoEvent.func = "none"
BY DEF D!NoEvent, Event, Funcs, Value

\* h is g with e put into a slot of its own.
Put(g, e, h) ==
  /\ h \in Seq(Event) /\ DOMAIN g \subseteq DOMAIN h
  /\ \E n \in DOMAIN h :
       /\ h[n] = e /\ (n \in DOMAIN g => g[n].func = "none")
       /\ \A s \in DOMAIN h \ {n} : h[s] = IF s \in DOMAIN g THEN g[s] ELSE D!NoEvent

\* srv_allocate_event finds a free slot, or makes one, and touches no other.
LEMMA PutEventPuts == \A g \in Seq(Event), e \in Event : Put(g, e, D!PutEvent(g, e))
<1> SUFFICES ASSUME NEW g \in Seq(Event), NEW e \in Event,
                    NEW h, h = D!PutEvent(g, e)
             PROVE  /\ h \in Seq(Event) /\ DOMAIN g \subseteq DOMAIN h
                    /\ \E n \in DOMAIN h :
                         /\ h[n] = e /\ (n \in DOMAIN g => g[n].func = "none")
                         /\ \A s \in DOMAIN h \ {n} :
                              h[s] = IF s \in DOMAIN g THEN g[s] ELSE D!NoEvent
  BY DEF Put
<1> DEFINE free == {s \in DOMAIN g : g[s].func = "none"}
           fresh == [s \in 1..EventBlock |-> D!NoEvent]
           more == g \o fresh
<1>1. DOMAIN g = 1..Len(g) /\ Len(g) \in Nat /\ EventBlock \in Nat \ {0}
  BY LenProperties, DoorsAssumption DEF D!DoorsAssumption
<1>2. CASE free = {}
  <2>1. fresh \in Seq(Event) /\ Len(fresh) = EventBlock
    BY <1>1, NoEventIs
  <2>2. /\ more \in Seq(Event) /\ Len(more) = Len(g) + EventBlock
        /\ \A i \in 1..(Len(g) + EventBlock) : more[i] = IF i <= Len(g) THEN g[i] ELSE fresh[i - Len(g)]
    <3> HIDE DEF fresh
    <3> QED
      BY <2>1, ConcatProperties
  <2>3. DOMAIN more = 1..(Len(g) + EventBlock)
    BY <2>2, LenProperties
  <2>4. h = [more EXCEPT ![Len(g) + 1] = e]
    BY <1>2 DEF D!PutEvent
  <2>5. Len(g) + 1 \in DOMAIN more /\ Len(g) + 1 \notin DOMAIN g /\ DOMAIN g \subseteq DOMAIN more
    BY <1>1, <2>3
  <2>6. \A s \in DOMAIN more : more[s] = IF s \in DOMAIN g THEN g[s] ELSE D!NoEvent
    <3> SUFFICES ASSUME NEW s \in 1..(Len(g) + EventBlock)
                 PROVE  more[s] = IF s \in DOMAIN g THEN g[s] ELSE D!NoEvent
      BY <2>3
    <3>1. CASE s <= Len(g)
      <4>1. s \in DOMAIN g
        BY <1>1, <3>1
      <4> QED
        BY <2>2, <3>1, <4>1
    <3>2. CASE ~(s <= Len(g))
      <4>1. s \notin DOMAIN g /\ s - Len(g) \in 1..EventBlock
        BY <1>1, <3>2
      <4>2. more[s] = fresh[s - Len(g)]
        BY <2>2, <3>2
      <4> QED
        BY <4>1, <4>2
    <3> QED
      BY <3>1, <3>2
  <2> HIDE DEF more
  <2>7. h \in Seq(Event) /\ DOMAIN h = DOMAIN more
    BY <2>2, <2>4, <2>5, ExceptSeq
  <2>8. h[Len(g) + 1] = e /\ \A s \in DOMAIN h \ {Len(g) + 1} : h[s] = more[s]
    BY <2>4, <2>5
  <2> QED
    BY <2>5, <2>6, <2>7, <2>8
<1>3. CASE free # {}
  <2>1. free \in SUBSET Nat
    BY <1>1
  <2>2. \E m \in free : \A k \in free : m <= k
    <3> HIDE DEF free
    <3> QED
      BY <1>3, <2>1, LeastNumber
  <2> DEFINE n == CHOOSE s \in free : \A t \in free : s <= t
  <2>3. n \in free
    BY <2>2
  <2>4. h = [g EXCEPT ![n] = e]
    BY <1>3 DEF D!PutEvent
  <2> HIDE DEF n
  <2>5. h \in Seq(Event) /\ DOMAIN h = DOMAIN g
    BY <2>3, <2>4, ExceptSeq
  <2>6. h[n] = e /\ \A s \in DOMAIN h \ {n} : h[s] = g[s]
    BY <2>3, <2>4
  <2> QED
    BY <2>3, <2>5, <2>6
<1> QED
  BY <1>2, <1>3

LEMMA PlacedOne ==
  ASSUME NEW ev \in Seq(Event), NEW E \in Seq(Event), NEW k \in Nat, k + 1 \in 1..Len(E),
         NEW g \in Seq(Event), Placed(ev, g, E, k), \A i \in 1..Len(E) : E[i].func # "none"
  PROVE  Placed(ev, D!PutEvent(g, E[k + 1]), E, k + 1) /\ D!PutEvent(g, E[k + 1]) \in Seq(Event)
<1> PICK e : e = E[k + 1]
  OBVIOUS
<1> PICK h : h = D!PutEvent(g, e)
  OBVIOUS
<1>1. e \in Event
  BY ElementOfSeq
<1>2. Put(g, e, h)
  BY <1>1, PutEventPuts
<1>3. /\ h \in Seq(Event) /\ DOMAIN g \subseteq DOMAIN h
      /\ \E n \in DOMAIN h :
           /\ h[n] = e /\ (n \in DOMAIN g => g[n].func = "none")
           /\ \A s \in DOMAIN h \ {n} : h[s] = IF s \in DOMAIN g THEN g[s] ELSE D!NoEvent
  BY <1>2 DEF Put
<1> PICK n \in DOMAIN h :
      /\ h[n] = e /\ (n \in DOMAIN g => g[n].func = "none")
      /\ \A s \in DOMAIN h \ {n} : h[s] = IF s \in DOMAIN g THEN g[s] ELSE D!NoEvent
  BY <1>3
<1>4. PICK q \in [DOMAIN g -> 0..k] :
        /\ \A s \in DOMAIN g : q[s] = 0 => g[s] = IF s \in DOMAIN ev THEN ev[s] ELSE D!NoEvent
        /\ \A s \in DOMAIN g : q[s] # 0 => g[s] = E[q[s]] /\ (s \in DOMAIN ev => ev[s].func = "none")
        /\ \A i \in 1..k : \E s \in DOMAIN g : q[s] = i
        /\ \A s, t \in DOMAIN g : q[s] = q[t] /\ q[s] # 0 => s = t
  BY DEF Placed
<1>5. DOMAIN ev \subseteq DOMAIN g
  BY DEF Placed
<1>6. \A i \in 1..k : E[i].func # "none"
  <2>1. \A i \in 1..k : i \in 1..Len(E)
    BY LenProperties
  <2> QED
    BY <2>1
<1> DEFINE p == [s \in DOMAIN h |-> IF s = n THEN k + 1 ELSE IF s \in DOMAIN g THEN q[s] ELSE 0]
<1>7. p \in [DOMAIN h -> 0..(k + 1)]
  OBVIOUS
<1>8. \A s \in DOMAIN h : p[s] = 0 => h[s] = IF s \in DOMAIN ev THEN ev[s] ELSE D!NoEvent
  BY <1>3, <1>4, <1>5
<1>9. \A s \in DOMAIN h : p[s] # 0 => h[s] = E[p[s]] /\ (s \in DOMAIN ev => ev[s].func = "none")
  <2> SUFFICES ASSUME NEW s \in DOMAIN h, p[s] # 0
               PROVE  h[s] = E[p[s]] /\ (s \in DOMAIN ev => ev[s].func = "none")
    OBVIOUS
  <2>1. CASE s = n
    <3>1. h[s] = E[p[s]]
      BY <2>1, <1>3
    <3>2. ASSUME s \in DOMAIN ev PROVE ev[s].func = "none"
      <4>1. s \in DOMAIN g /\ g[s].func = "none"
        BY <3>2, <2>1, <1>3, <1>5
      <4> QED
        BY <4>1, <1>4, <3>2
    <3> QED
      BY <3>1, <3>2
  <2>2. CASE s # n
    BY <2>2, <1>3, <1>4
  <2> QED
    BY <2>1, <2>2
<1>10. \A i \in 1..(k + 1) : \E s \in DOMAIN h : p[s] = i
  <2> SUFFICES ASSUME NEW i \in 1..(k + 1) PROVE \E s \in DOMAIN h : p[s] = i
    OBVIOUS
  <2>1. CASE i = k + 1
    BY <2>1, <1>3
  <2>2. CASE i # k + 1
    <3>1. i \in 1..k
      BY <2>2
    <3>2. PICK s \in DOMAIN g : q[s] = i
      BY <3>1, <1>4
    <3>3. CASE s # n
      BY <3>2, <3>3, <1>3
    <3>4. CASE s = n
      <4>1. q[s] # 0 /\ q[s] = i /\ g[s].func = "none"
        BY <3>1, <3>2, <3>4
      <4>2. g[s] = E[i]
        BY <4>1, <1>4
      <4> QED
        BY <4>1, <4>2, <3>1, <1>6
    <3> QED
      BY <3>3, <3>4
  <2> QED
    BY <2>1, <2>2
<1>11. \A s, t \in DOMAIN h : p[s] = p[t] /\ p[s] # 0 => s = t
  <2> SUFFICES ASSUME NEW s \in DOMAIN h, NEW t \in DOMAIN h, p[s] = p[t], p[s] # 0
               PROVE  s = t
    OBVIOUS
  <2>1. \A x \in DOMAIN h : x # n => p[x] \in 0..k
    BY <1>4
  <2>2. s = n <=> t = n
    BY <2>1
  <2> QED
    BY <1>4, <2>2
<1>12. DOMAIN ev \subseteq DOMAIN h
  BY <1>3, <1>5
<1> HIDE DEF p
<1>13. Placed(ev, h, E, k + 1)
  BY <1>7, <1>8, <1>9, <1>10, <1>11, <1>12 DEF Placed
<1> QED
  BY <1>3, <1>13

\* What a list becomes when events are added to it one by one.
AddedTo(ev, E, n) ==
  {g \in [0..n -> Seq(Event)] :
     g = [k \in 0..n |-> IF k = 0 THEN ev ELSE D!PutEvent(g[k - 1], E[k])]}

LEMMA AddedExists ==
  ASSUME NEW ev \in Seq(Event), NEW E \in Seq(Event)
  PROVE  AddedTo(ev, E, Len(E)) # {}
<1> DEFINE T == {n \in Nat : n <= Len(E) => AddedTo(ev, E, n) # {}}
<1>1. 0 \in T
  <2>1. [k \in 0..0 |-> ev] \in AddedTo(ev, E, 0)
    <3>1. \A k \in 0..0 : k = 0
      OBVIOUS
    <3>2. [k \in 0..0 |-> ev]
          = [k \in 0..0 |-> IF k = 0 THEN ev ELSE D!PutEvent([j \in 0..0 |-> ev][k - 1], E[k])]
      BY <3>1
    <3> QED
      BY <3>2 DEF AddedTo
  <2> QED
    BY <2>1
<1>2. ASSUME NEW n \in Nat, n \in T PROVE n + 1 \in T
  <2> SUFFICES ASSUME n + 1 <= Len(E) PROVE AddedTo(ev, E, n + 1) # {}
    OBVIOUS
  <2>1. Len(E) \in Nat /\ n <= Len(E)
    BY LenProperties
  <2>2. PICK g \in [0..n -> Seq(Event)] :
          g = [k \in 0..n |-> IF k = 0 THEN ev ELSE D!PutEvent(g[k - 1], E[k])]
    BY <1>2, <2>1 DEF AddedTo
  <2>3. n + 1 \in 1..Len(E) /\ E[n + 1] \in Event /\ g[n] \in Seq(Event)
    <3>1. n + 1 \in 1..Len(E)
      BY <2>1
    <3> QED
      BY <3>1, ElementOfSeq
  <2> PICK more : more = D!PutEvent(g[n], E[n + 1])
    OBVIOUS
  <2>4. more \in Seq(Event)
    BY <2>3, PutEventPuts DEF Put
  <2> DEFINE h == [k \in 0..(n + 1) |-> IF k = n + 1 THEN more ELSE g[k]]
  <2>5. h \in [0..(n + 1) -> Seq(Event)]
    BY <2>4
  <2>6. ASSUME NEW k \in 0..(n + 1)
        PROVE  h[k] = IF k = 0 THEN ev ELSE D!PutEvent(h[k - 1], E[k])
    <3>1. CASE k = 0
      BY <3>1, <2>2
    <3>2. CASE k # 0
      <4>1. k - 1 \in 0..n /\ h[k - 1] = g[k - 1]
        BY <3>2
      <4>2. CASE k = n + 1
        <5>1. h[k] = more /\ k - 1 = n
          BY <4>2
        <5> QED
          BY <3>2, <4>1, <4>2, <5>1
      <4>3. CASE k # n + 1
        <5>1. k \in 0..n /\ h[k] = g[k]
          BY <4>3
        <5> QED
          BY <3>2, <4>1, <5>1, <2>2
      <4> QED
        BY <4>2, <4>3
    <3> QED
      BY <3>1, <3>2
  <2>7. h \in AddedTo(ev, E, n + 1)
    <3>1. h = [k \in 0..(n + 1) |-> h[k]]
      OBVIOUS
    <3> HIDE DEF h
    <3>2. h = [k \in 0..(n + 1) |-> IF k = 0 THEN ev ELSE D!PutEvent(h[k - 1], E[k])]
      BY <3>1, <2>6
    <3> QED
      BY <2>5, <3>2 DEF AddedTo
  <2> QED
    BY <2>7
<1>3. \A n \in Nat : n \in T
  <2> HIDE DEF T
  <2> QED
    BY <1>1, <1>2, SetInduction
<1> QED
  BY <1>3, LenProperties

\* Every event that is added has a slot of its own then; the others keep theirs.
LEMMA AddEventsPlaces ==
  ASSUME NEW ev \in Seq(Event), NEW E \in Seq(Event), \A i \in 1..Len(E) : E[i].func # "none"
  PROVE  D!AddEvents(ev, E) \in Seq(Event) /\ Placed(ev, D!AddEvents(ev, E), E, Len(E))
<1> DEFINE g == CHOOSE g : g = [k \in 0..Len(E) |-> IF k = 0 THEN ev ELSE D!PutEvent(g[k - 1], E[k])]
<1>1. Len(E) \in Nat
  BY LenProperties
<1>2. \E h : h = [k \in 0..Len(E) |-> IF k = 0 THEN ev ELSE D!PutEvent(h[k - 1], E[k])]
  BY AddedExists DEF AddedTo
<1>3. g = [k \in 0..Len(E) |-> IF k = 0 THEN ev ELSE D!PutEvent(g[k - 1], E[k])]
  BY <1>2
<1>4. D!AddEvents(ev, E) = g[Len(E)]
  BY DEF D!AddEvents
<1> HIDE DEF g
<1> DEFINE T == {k \in Nat : k <= Len(E) => g[k] \in Seq(Event) /\ Placed(ev, g[k], E, k)}
<1>5. 0 \in T
  <2>1. g[0] = ev
    BY <1>1, <1>3
  <2>2. Placed(ev, ev, E, 0)
    <3> DEFINE q == [s \in DOMAIN ev |-> 0]
    <3>1. q \in [DOMAIN ev -> 0..0]
      OBVIOUS
    <3>2. \A i \in 1..0 : FALSE
      OBVIOUS
    <3> QED
      BY <3>1, <3>2 DEF Placed
  <2> QED
    BY <2>1, <2>2
<1>6. ASSUME NEW k \in Nat, k \in T PROVE k + 1 \in T
  <2> SUFFICES ASSUME k + 1 <= Len(E)
               PROVE  g[k + 1] \in Seq(Event) /\ Placed(ev, g[k + 1], E, k + 1)
    OBVIOUS
  <2>1. k + 1 \in 1..Len(E) /\ k + 1 \in 0..Len(E) /\ k + 1 # 0 /\ k + 1 - 1 = k /\ k <= Len(E)
    BY <1>1
  <2>2. g[k + 1] = D!PutEvent(g[k], E[k + 1])
    BY <1>3, <2>1
  <2>3. g[k] \in Seq(Event) /\ Placed(ev, g[k], E, k)
    BY <1>6, <2>1
  <2> QED
    BY <2>1, <2>2, <2>3, PlacedOne
<1>7. \A k \in Nat : k \in T
  <2> HIDE DEF T
  <2> QED
    BY <1>5, <1>6, SetInduction
<1> QED
  BY <1>1, <1>4, <1>7

-----------------------------------------------------------------------------
\* The slots of ev that are about door d.
About(ev, d) == PicsIn(ev, d) \cup TurnsIn(ev, d)

\* Only the events about a door matter to it, not the slots they are in.
LEMMA Transfer ==
  ASSUME NEW ev, NEW g, NEW d, NEW r, NEW t, DoorOK(ev, d, r, t),
         NEW f \in [About(ev, d) -> DOMAIN g],
         \A s \in About(ev, d) : g[f[s]] = ev[s],
         \A s, u \in About(ev, d) : f[s] = f[u] => s = u,
         \A u \in About(g, d) : \E s \in About(ev, d) : f[s] = u
  PROVE  DoorOK(g, d, r, t)
<1>1. \A u \in PicsIn(g, d) : \E s \in PicsIn(ev, d) : f[s] = u
  BY DEF About, PicsIn, TurnsIn, Turning
<1>2. \A u \in TurnsIn(g, d) : \E s \in TurnsIn(ev, d) : f[s] = u
  BY DEF About, PicsIn, TurnsIn, Turning
<1>3. \A s \in PicsIn(ev, d) : f[s] \in PicsIn(g, d) /\ g[f[s]] = ev[s]
  BY DEF About, PicsIn, TurnsIn
<1>4. \A s \in TurnsIn(ev, d) : f[s] \in TurnsIn(g, d) /\ g[f[s]] = ev[s] /\ f[s] \in DOMAIN g
  BY DEF About, PicsIn, TurnsIn
<1>5. \A c \in TurnsIn(ev, d) : Before(ev, d, c) => Before(g, d, f[c])
  BY <1>1, <1>3, <1>4 DEF Before
<1>6. \A a : Ends(ev, d, r.pic, a) => Ends(g, d, r.pic, a)
  <2> SUFFICES ASSUME NEW a, Ends(ev, d, r.pic, a) PROVE Ends(g, d, r.pic, a)
    OBVIOUS
  <2>1. CASE PicsIn(ev, d) = {} /\ r.pic = a
    BY <1>1, <2>1 DEF Ends
  <2>2. CASE \E s \in PicsIn(ev, d) :
               ev[s].arg = a /\ \A u \in PicsIn(ev, d) \ {s} : ev[u].left < ev[s].left
    <3> PICK s \in PicsIn(ev, d) :
          ev[s].arg = a /\ \A u \in PicsIn(ev, d) \ {s} : ev[u].left < ev[s].left
      BY <2>2
    <3>1. f[s] \in PicsIn(g, d) /\ g[f[s]].arg = a
      BY <1>3
    <3>2. ASSUME NEW u \in PicsIn(g, d) \ {f[s]} PROVE g[u].left < g[f[s]].left
      <4> PICK v \in PicsIn(ev, d) : f[v] = u
        BY <1>1, <3>2
      <4>1. v # s
        BY <3>2
      <4> QED
        BY <1>3, <4>1
    <3> QED
      BY <3>1, <3>2 DEF Ends
  <2> QED
    BY <2>1, <2>2 DEF Ends
<1>7. \A c : TurnsIn(ev, d) = {c} => TurnsIn(g, d) = {f[c]} /\ c \in TurnsIn(ev, d)
  BY <1>2, <1>4
<1>8. ASSUME Idle(ev, d) PROVE Idle(g, d)
  BY <1>1, <1>2, <1>8 DEF Idle
<1>9. CASE OpensByLever(ev, d, r)
  BY <1>4, <1>5, <1>6, <1>7, <1>9 DEF OpensByLever, DoorOK
<1>10. CASE ClosesByLever(ev, d, r)
  BY <1>4, <1>5, <1>6, <1>7, <1>10 DEF ClosesByLever, DoorOK
<1>11. CASE OpensForEver(ev, d, r, t)
  BY <1>4, <1>5, <1>6, <1>7, <1>11 DEF OpensForEver, DoorOK
<1>12. CASE ClosesByStar(ev, d, r, t)
  BY <1>4, <1>5, <1>6, <1>7, <1>12 DEF ClosesByStar, DoorOK
<1>13. CASE OpensByStar(ev, d, r, t)
  <2> PICK b \in DOMAIN ev, c \in DOMAIN ev :
       /\ TurnsIn(ev, d) = {b, c} /\ ev[b].func = "starOpen" /\ ev[c].func = "starClose"
       /\ ev[b].left < ev[c].left /\ Before(ev, d, c) /\ Ends(ev, d, r.pic, 0)
    BY <1>13 DEF OpensByStar
  <2>1. TurnsIn(g, d) = {f[b], f[c]} /\ b \in TurnsIn(ev, d) /\ c \in TurnsIn(ev, d)
    BY <1>2, <1>4
  <2>2. g[f[b]] = ev[b] /\ g[f[c]] = ev[c] /\ f[b] \in DOMAIN g /\ f[c] \in DOMAIN g
    BY <1>4, <2>1
  <2>3. Before(g, d, f[c]) /\ Ends(g, d, r.pic, 0)
    BY <1>5, <1>6, <2>1
  <2> QED
    BY <1>13, <2>1, <2>2, <2>3 DEF OpensByStar, DoorOK
<1> QED
  BY <1>8, <1>9, <1>10, <1>11, <1>12, <1>13 DEF DoorOK, IsClosed, IsOpen, Jammed

\* A door that no new event is about is where it was.
LEMMA OthersKeep ==
  ASSUME NEW ev, NEW g, NEW E, NEW k \in Nat, Placed(ev, g, E, k), NEW d, NEW r, NEW t,
         \A i \in 1..k : ~(E[i].func \in Turning \cup {"doorPic"} /\ E[i].item = d),
         DoorOK(ev, d, r, t)
  PROVE  DoorOK(g, d, r, t)
<1> PICK q \in [DOMAIN g -> 0..k] :
      /\ \A s \in DOMAIN g : q[s] = 0 => g[s] = IF s \in DOMAIN ev THEN ev[s] ELSE D!NoEvent
      /\ \A s \in DOMAIN g : q[s] # 0 => g[s] = E[q[s]] /\ (s \in DOMAIN ev => ev[s].func = "none")
  BY DEF Placed
<1>1. DOMAIN ev \subseteq DOMAIN g
  BY DEF Placed
<1>2. ASSUME NEW s \in About(ev, d) PROVE s \in DOMAIN g /\ g[s] = ev[s]
  BY <1>1 DEF About, PicsIn, TurnsIn, Turning
<1>3. ASSUME NEW u \in About(g, d) PROVE u \in About(ev, d)
  <2>1. u \in DOMAIN g /\ g[u].func \in Turning \cup {"doorPic"} /\ g[u].item = d
    BY DEF About, PicsIn, TurnsIn
  <2>2. CASE q[u] # 0
    <3>1. q[u] \in 1..k /\ g[u] = E[q[u]]
      BY <2>1, <2>2
    <3> QED
      BY <2>1, <3>1
  <2>3. CASE q[u] = 0
    <3>1. g[u].func # "none"
      BY <2>1 DEF Turning
    <3> QED
      BY <2>1, <2>3, <3>1, NoEventIs DEF About, PicsIn, TurnsIn
  <2> QED
    BY <2>2, <2>3
<1> DEFINE f == [s \in About(ev, d) |-> s]
<1>4. f \in [About(ev, d) -> DOMAIN g] /\ \A s \in About(ev, d) : f[s] = s
  BY <1>2
<1> HIDE DEF f
<1> QED
  BY <1>2, <1>3, <1>4, Transfer

\* A door that nothing was about does what the new events say.
LEMMA NewOnesCount ==
  ASSUME NEW ev, NEW g, NEW E, NEW k \in Nat, Placed(ev, g, E, k), NEW d, NEW r, NEW t,
         DOMAIN E = 1..k, Idle(ev, d), DoorOK(E, d, r, t)
  PROVE  DoorOK(g, d, r, t)
<1> PICK q \in [DOMAIN g -> 0..k] :
      /\ \A s \in DOMAIN g : q[s] = 0 => g[s] = IF s \in DOMAIN ev THEN ev[s] ELSE D!NoEvent
      /\ \A s \in DOMAIN g : q[s] # 0 => g[s] = E[q[s]] /\ (s \in DOMAIN ev => ev[s].func = "none")
      /\ \A i \in 1..k : \E s \in DOMAIN g : q[s] = i
      /\ \A s, u \in DOMAIN g : q[s] = q[u] /\ q[s] # 0 => s = u
  BY DEF Placed
<1> DEFINE f == [i \in About(E, d) |-> CHOOSE s \in DOMAIN g : q[s] = i]
<1>1. ASSUME NEW i \in About(E, d) PROVE f[i] \in DOMAIN g /\ q[f[i]] = i /\ i # 0
  <2>1. i \in 1..k
    BY DEF About, PicsIn, TurnsIn
  <2>2. \E s \in DOMAIN g : q[s] = i
    BY <2>1
  <2> QED
    BY <2>1, <2>2
<1>2. f \in [About(E, d) -> DOMAIN g]
  BY <1>1
<1> HIDE DEF f
<1>3. \A i \in About(E, d) : g[f[i]] = E[i]
  BY <1>1
<1>4. \A i, j \in About(E, d) : f[i] = f[j] => i = j
  BY <1>1
<1>5. ASSUME NEW u \in About(g, d) PROVE \E i \in About(E, d) : f[i] = u
  <2>1. u \in DOMAIN g /\ g[u].func \in Turning \cup {"doorPic"} /\ g[u].item = d
    BY DEF About, PicsIn, TurnsIn
  <2>2. q[u] # 0
    <3>1. g[u].func # "none"
      BY <2>1 DEF Turning
    <3> SUFFICES ASSUME q[u] = 0 PROVE FALSE
      OBVIOUS
    <3>2. u \in DOMAIN ev /\ g[u] = ev[u]
      BY <2>1, <3>1, NoEventIs
    <3> QED
      BY <2>1, <3>2 DEF Idle, PicsIn, TurnsIn
  <2>3. q[u] \in 1..k /\ g[u] = E[q[u]]
    BY <2>1, <2>2
  <2>4. q[u] \in About(E, d)
    BY <2>1, <2>3 DEF About, PicsIn, TurnsIn
  <2> QED
    BY <1>1, <2>1, <2>2, <2>4
<1> QED
  BY <1>2, <1>3, <1>4, <1>5, Transfer

\* What is added keeps every event due at some frame.
LEMMA DueKept ==
  ASSUME NEW ev, NEW g, NEW E, NEW k \in Nat, Placed(ev, g, E, k), Due(ev),
         \A i \in 1..k : E[i].left >= 1
  PROVE  Due(g)
<1> PICK q \in [DOMAIN g -> 0..k] :
      /\ \A s \in DOMAIN g : q[s] = 0 => g[s] = IF s \in DOMAIN ev THEN ev[s] ELSE D!NoEvent
      /\ \A s \in DOMAIN g : q[s] # 0 => g[s] = E[q[s]] /\ (s \in DOMAIN ev => ev[s].func = "none")
  BY DEF Placed
<1> SUFFICES ASSUME NEW s \in DOMAIN g, g[s].func # "none" PROVE g[s].left >= 1
  BY DEF Due
<1>1. CASE q[s] = 0
  BY <1>1, NoEventIs DEF Due
<1>2. CASE q[s] # 0
  BY <1>2
<1> QED
  BY <1>1, <1>2

-----------------------------------------------------------------------------
\* What srv_process_events works on.
Level == [event : Seq(Event), door : [Door -> DoorRecord], pic : [DOMAIN Items -> Value],
          awake : SUBSET DOMAIN Items, tile : [Door -> Value]]

\* One frame later: an event is nearer, or its slot is free.
Aged(e) ==
  IF e.func = "none" THEN e
  ELSE IF e.left > 1 THEN [e EXCEPT !.left = @ - 1] ELSE D!NoEvent
Fires(e) == e.func # "none" /\ ~(e.left > 1)
Shows(e, d) == Fires(e) /\ e.func = "doorPic" /\ e.item = d
Turns(e, d) == Fires(e) /\ e.func \in Turning /\ e.item = d

\* What the event e makes of a door: its record was r and its tile t.
Stays(r, t, r2, t2) == r2.state = r.state /\ r2.data = r.data /\ t2 = t
Turned(e, r, t, r2, t2) ==
  /\ e.func = "open" => r2.state = D!Open /\ t2 = D!Free /\ r2.data = r.data
  /\ e.func = "close" => r2.state = D!Closed /\ t2 = e.arg /\ r2.data = r.data
  /\ e.func = "starOpen" => r2.state = D!Open /\ t2 = D!Free /\ r2.data = t
  /\ e.func = "starClose" => r2.state = D!Closed /\ t2 = r.data /\ r2.data = r.data

LEMMA RunEventDoes ==
  ASSUME NEW L \in Level, NEW e \in Event, e.func # "none"
  PROVE  LET M == D!RunEvent(L, e)
         IN  /\ M \in Level /\ M.event = L.event
             /\ \A d \in Door :
                  /\ M.door[d].pic = IF e.func = "doorPic" /\ e.item = d THEN e.arg ELSE L.door[d].pic
                  /\ IF e.func \in Turning /\ e.item = d
                     THEN Turned(e, L.door[d], L.tile[d], M.door[d], M.tile[d])
                     ELSE Stays(L.door[d], L.tile[d], M.door[d], M.tile[d])
<1> DEFINE M == D!RunEvent(L, e)
<1>1. /\ L.event \in Seq(Event) /\ L.door \in [Door -> DoorRecord] /\ L.pic \in [DOMAIN Items -> Value]
      /\ L.awake \in SUBSET DOMAIN Items /\ L.tile \in [Door -> Value]
  BY DEF Level
<1>2. e.arg \in Value /\ e.func \in Funcs /\ e.item \in Door \cup Nat
  BY DEF Event
<1>3. D!Free \in Value /\ D!Open \in States /\ D!Closed \in States
  BY DEF Value, States
<1>4. CASE e.func = "pic"
  <2>1. M = [L EXCEPT !.pic[e.item] = e.arg]
    BY <1>4 DEF D!RunEvent
  <2> HIDE DEF M
  <2>2. M \in Level /\ M.event = L.event /\ M.door = L.door /\ M.tile = L.tile
    BY <1>1, <1>2, <2>1 DEF Level
  <2> QED
    BY <1>4, <2>2 DEF M, Stays, Turning
<1>5. CASE e.func = "sleep"
  <2>1. M = [L EXCEPT !.awake = @ \ {e.item}]
    BY <1>5 DEF D!RunEvent
  <2> HIDE DEF M
  <2>2. M \in Level /\ M.event = L.event /\ M.door = L.door /\ M.tile = L.tile
    BY <1>1, <1>2, <2>1 DEF Level
  <2> QED
    BY <1>5, <2>2 DEF M, Stays, Turning
<1>6. CASE e.func = "sound"
  <2>1. M = L
    BY <1>6 DEF D!RunEvent
  <2> QED
    BY <1>6, <2>1 DEF Stays, Turning
<1>7. CASE e.func = "doorPic"
  <2>1. M = [L EXCEPT !.door[e.item].pic = e.arg]
    BY <1>7 DEF D!RunEvent
  <2> HIDE DEF M
  <2>2. M.event = L.event /\ M.door = [L.door EXCEPT ![e.item].pic = e.arg] /\ M.tile = L.tile
    BY <1>1, <2>1 DEF Level
  <2>3. M.door \in [Door -> DoorRecord]
    <3>1. \A r \in DoorRecord : [r EXCEPT !.pic = e.arg] \in DoorRecord
      BY <1>2 DEF DoorRecord
    <3>2. [L.door EXCEPT ![e.item].pic = e.arg] \in [Door -> DoorRecord]
      BY <1>1, <3>1
    <3> QED
      BY <2>2, <3>2
  <2>4. M \in Level
    BY <1>1, <2>1, <2>2, <2>3 DEF Level
  <2>5. ASSUME NEW d \in Door
        PROVE  /\ M.door[d].pic = IF e.item = d THEN e.arg ELSE L.door[d].pic
               /\ M.door[d].state = L.door[d].state /\ M.door[d].data = L.door[d].data
    BY <1>1, <2>2 DEF DoorRecord
  <2> QED
    BY <1>7, <2>2, <2>4, <2>5 DEF M, Stays, Turning
<1>8. CASE e.func = "open"
  <2>1. M = [L EXCEPT !.door[e.item].state = D!Open, !.tile[e.item] = D!Free]
    BY <1>8 DEF D!RunEvent
  <2> HIDE DEF M
  <2>2. M.event = L.event /\ M.door = [L.door EXCEPT ![e.item].state = D!Open]
        /\ M.tile = [L.tile EXCEPT ![e.item] = D!Free]
    BY <1>1, <2>1 DEF Level
  <2>a. e.item \in Door => L.tile[e.item] \in Value
    BY <1>1
  <2>3. M.door \in [Door -> DoorRecord] /\ M.tile \in [Door -> Value]
    <3>1. \A r \in DoorRecord : [r EXCEPT !.state = D!Open] \in DoorRecord
      BY <1>3 DEF DoorRecord
    <3>2. [L.door EXCEPT ![e.item].state = D!Open] \in [Door -> DoorRecord]
      BY <1>1, <3>1
    <3>3. M.tile \in [Door -> Value]
      BY <1>1, <1>3, <2>2
    <3> QED
      BY <2>2, <3>2, <3>3
  <2>4. M \in Level
    BY <1>1, <2>1, <2>2, <2>3 DEF Level
  <2>5. ASSUME NEW d \in Door
        PROVE  /\ M.door[d].pic = L.door[d].pic /\ M.door[d].data = L.door[d].data
               /\ M.door[d].state = IF e.item = d THEN D!Open ELSE L.door[d].state
               /\ M.tile[d] = IF e.item = d THEN D!Free ELSE L.tile[d]
    BY <1>1, <2>2 DEF DoorRecord
  <2> QED
    BY <1>8, <2>2, <2>4, <2>5 DEF M, Stays, Turned, Turning
<1>9. CASE e.func = "close"
  <2>1. M = [L EXCEPT !.door[e.item].state = D!Closed, !.tile[e.item] = e.arg]
    BY <1>9 DEF D!RunEvent
  <2> HIDE DEF M
  <2>2. M.event = L.event /\ M.door = [L.door EXCEPT ![e.item].state = D!Closed]
        /\ M.tile = [L.tile EXCEPT ![e.item] = e.arg]
    BY <1>1, <2>1 DEF Level
  <2>3. M.door \in [Door -> DoorRecord] /\ M.tile \in [Door -> Value]
    <3>1. \A r \in DoorRecord : [r EXCEPT !.state = D!Closed] \in DoorRecord
      BY <1>3 DEF DoorRecord
    <3>2. [L.door EXCEPT ![e.item].state = D!Closed] \in [Door -> DoorRecord]
      BY <1>1, <3>1
    <3>3. M.tile \in [Door -> Value]
      BY <1>1, <1>2, <2>2
    <3> QED
      BY <2>2, <3>2, <3>3
  <2>4. M \in Level
    BY <1>1, <2>1, <2>2, <2>3 DEF Level
  <2>5. ASSUME NEW d \in Door
        PROVE  /\ M.door[d].pic = L.door[d].pic /\ M.door[d].data = L.door[d].data
               /\ M.door[d].state = IF e.item = d THEN D!Closed ELSE L.door[d].state
               /\ M.tile[d] = IF e.item = d THEN e.arg ELSE L.tile[d]
    BY <1>1, <2>2 DEF DoorRecord
  <2> QED
    BY <1>9, <2>2, <2>4, <2>5 DEF M, Stays, Turned, Turning
<1>10. CASE e.func = "starOpen"
  <2> DEFINE t == L.tile[e.item]
  <2>1. M = [L EXCEPT !.door[e.item].state = D!Open, !.door[e.item].data = t, !.tile[e.item] = D!Free]
    BY <1>10 DEF D!RunEvent
  <2> HIDE DEF M
  <2>2. M.event = L.event
        /\ M.door = [L.door EXCEPT ![e.item].state = D!Open, ![e.item].data = t]
        /\ M.tile = [L.tile EXCEPT ![e.item] = D!Free]
    BY <1>1, <2>1 DEF Level
  <2>a. e.item \in Door => t \in Value
    BY <1>1
  <2>3. M.door \in [Door -> DoorRecord] /\ M.tile \in [Door -> Value]
    <3>1. \A r \in DoorRecord : \A v \in Value :
            [[r EXCEPT !.state = D!Open] EXCEPT !.data = v] \in DoorRecord
      BY <1>3 DEF DoorRecord
    <3>2. [L.door EXCEPT ![e.item].state = D!Open, ![e.item].data = t] \in [Door -> DoorRecord]
      BY <1>1, <2>a, <3>1
    <3>3. M.tile \in [Door -> Value]
      BY <1>1, <1>3, <2>2
    <3> QED
      BY <2>2, <3>2, <3>3
  <2>4. M \in Level
    BY <1>1, <2>1, <2>2, <2>3 DEF Level
  <2>5. ASSUME NEW d \in Door
        PROVE  /\ M.door[d].pic = L.door[d].pic
               /\ M.door[d].data = IF e.item = d THEN L.tile[d] ELSE L.door[d].data
               /\ M.door[d].state = IF e.item = d THEN D!Open ELSE L.door[d].state
               /\ M.tile[d] = IF e.item = d THEN D!Free ELSE L.tile[d]
    BY <1>1, <2>2 DEF DoorRecord
  <2> QED
    BY <1>10, <2>2, <2>4, <2>5 DEF M, Stays, Turned, Turning
<1>11. CASE e.func = "starClose"
  <2> DEFINE t == L.door[e.item].data
  <2>1. M = [L EXCEPT !.door[e.item].state = D!Closed, !.tile[e.item] = t]
    BY <1>11 DEF D!RunEvent
  <2> HIDE DEF M
  <2>2. M.event = L.event /\ M.door = [L.door EXCEPT ![e.item].state = D!Closed]
        /\ M.tile = [L.tile EXCEPT ![e.item] = t]
    BY <1>1, <2>1 DEF Level
  <2>a. e.item \in Door => t \in Value
    BY <1>1 DEF DoorRecord
  <2>3. M.door \in [Door -> DoorRecord] /\ M.tile \in [Door -> Value]
    <3>1. \A r \in DoorRecord : [r EXCEPT !.state = D!Closed] \in DoorRecord
      BY <1>3 DEF DoorRecord
    <3>2. [L.door EXCEPT ![e.item].state = D!Closed] \in [Door -> DoorRecord]
      BY <1>1, <3>1
    <3>3. M.tile \in [Door -> Value]
      BY <1>1, <2>a, <2>2
    <3> QED
      BY <2>2, <3>2, <3>3
  <2>4. M \in Level
    BY <1>1, <2>1, <2>2, <2>3 DEF Level
  <2>5. ASSUME NEW d \in Door
        PROVE  /\ M.door[d].pic = L.door[d].pic /\ M.door[d].data = L.door[d].data
               /\ M.door[d].state = IF e.item = d THEN D!Closed ELSE L.door[d].state
               /\ M.tile[d] = IF e.item = d THEN L.door[d].data ELSE L.tile[d]
    BY <1>1, <2>2 DEF DoorRecord
  <2> QED
    BY <1>11, <2>2, <2>4, <2>5 DEF M, Stays, Turned, Turning
<1> QED
  BY <1>2, <1>4, <1>5, <1>6, <1>7, <1>8, <1>9, <1>10, <1>11 DEF Funcs, Turning

-----------------------------------------------------------------------------
\* One slot: its event comes nearer, or it runs and leaves the slot free.
SlotDone(L, s, e, M) ==
  /\ M \in Level /\ M.event = [L.event EXCEPT ![s] = Aged(e)]
  /\ \A d \in Door :
       /\ M.door[d].pic = IF Shows(e, d) THEN e.arg ELSE L.door[d].pic
       /\ IF Turns(e, d) THEN Turned(e, L.door[d], L.tile[d], M.door[d], M.tile[d])
          ELSE Stays(L.door[d], L.tile[d], M.door[d], M.tile[d])

LEMMA ProcessedDoes ==
  ASSUME NEW L \in Level, NEW s \in DOMAIN L.event
  PROVE  SlotDone(L, s, L.event[s], D!Processed(L, s))
<1> DEFINE M == D!Processed(L, s)
           e == L.event[s]
<1>1. /\ L.event \in Seq(Event) /\ L.door \in [Door -> DoorRecord] /\ L.pic \in [DOMAIN Items -> Value]
      /\ L.awake \in SUBSET DOMAIN Items /\ L.tile \in [Door -> Value]
  BY DEF Level
<1>2. e \in Event
  BY <1>1, ElementOfSeq
<1>3. e.left \in Nat
  BY <1>2 DEF Event
<1>4. CASE e.func = "none"
  <2>1. M = L
    BY <1>4 DEF D!Processed
  <2>2. [L.event EXCEPT ![s] = e] = L.event
    BY <1>1
  <2> QED
    BY <1>4, <2>1, <2>2 DEF SlotDone, Aged, Shows, Turns, Fires, Stays
<1>5. CASE e.func # "none" /\ e.left > 1
  <2> DEFINE a == [e EXCEPT !.left = e.left - 1]
  <2>1. M = [L EXCEPT !.event[s].left = e.left - 1]
    BY <1>5 DEF D!Processed
  <2>2. a \in Event /\ Aged(e) = a
    BY <1>2, <1>3, <1>5 DEF Event, Aged
  <2>3. [L.event EXCEPT ![s] = a] \in Seq(Event)
    <3> HIDE DEF a
    <3> QED
      BY <1>1, <2>2, ExceptSeq
  <2> HIDE DEF M
  <2>4. M.event = [L.event EXCEPT ![s] = a] /\ M.door = L.door /\ M.tile = L.tile
    BY <1>1, <2>1 DEF Level
  <2>5. M \in Level
    BY <1>1, <2>1, <2>3, <2>4 DEF Level
  <2> QED
    BY <1>5, <2>2, <2>4, <2>5 DEF M, SlotDone, Shows, Turns, Fires, Stays
<1>6. CASE e.func # "none" /\ ~(e.left > 1)
  <2> DEFINE R == D!RunEvent(L, e)
  <2>1. M = [R EXCEPT !.event[s] = D!NoEvent]
    BY <1>6 DEF D!Processed
  <2>2. /\ R \in Level /\ R.event = L.event
        /\ \A d \in Door :
             /\ R.door[d].pic = IF e.func = "doorPic" /\ e.item = d THEN e.arg ELSE L.door[d].pic
             /\ IF e.func \in Turning /\ e.item = d
                THEN Turned(e, L.door[d], L.tile[d], R.door[d], R.tile[d])
                ELSE Stays(L.door[d], L.tile[d], R.door[d], R.tile[d])
    BY <1>2, <1>6, RunEventDoes
  <2>3. Aged(e) = D!NoEvent /\ Fires(e)
    BY <1>6 DEF Aged, Fires
  <2> HIDE DEF M, R
  <2>4. [L.event EXCEPT ![s] = D!NoEvent] \in Seq(Event)
    BY <1>1, NoEventIs, ExceptSeq
  <2>5. M.event = [L.event EXCEPT ![s] = D!NoEvent] /\ M.door = R.door /\ M.tile = R.tile
    BY <2>1, <2>2 DEF Level
  <2>6. M \in Level
    BY <2>1, <2>2, <2>4, <2>5 DEF Level
  <2> HIDE DEF e
  <2>7. SlotDone(L, s, e, M)
    BY <2>2, <2>3, <2>5, <2>6 DEF SlotDone, Shows, Turns
  <2> QED
    BY <2>7 DEF M, e
<1> QED
  BY <1>4, <1>5, <1>6

\* The levels h before the first and after each of the first m slots.
Runs(L, m, h) == h = [s \in 0..m |-> IF s = 0 THEN L ELSE D!Processed(h[s - 1], s)]

\* The function that srv_process_events computes exists.
LEMMA ProcessedExists ==
  ASSUME NEW L, NEW m \in Nat
  PROVE  \E h : Runs(L, m, h)
<1> DEFINE T == {n \in Nat : \E h : h = [s \in 0..n |-> IF s = 0 THEN L ELSE D!Processed(h[s - 1], s)]}
<1>1. 0 \in T
  <2> DEFINE h == [s \in 0..0 |-> L]
  <2>1. \A s \in 0..0 : s = 0
    OBVIOUS
  <2>2. h = [s \in 0..0 |-> IF s = 0 THEN L ELSE D!Processed(h[s - 1], s)]
    BY <2>1
  <2> HIDE DEF h
  <2> QED
    BY <2>2
<1>2. ASSUME NEW n \in Nat, n \in T PROVE n + 1 \in T
  <2> PICK g : g = [s \in 0..n |-> IF s = 0 THEN L ELSE D!Processed(g[s - 1], s)]
    BY <1>2
  <2> PICK last : last = D!Processed(g[n], n + 1)
    OBVIOUS
  <2> DEFINE h == [s \in 0..(n + 1) |-> IF s = n + 1 THEN last ELSE g[s]]
  <2>1. ASSUME NEW s \in 0..(n + 1)
        PROVE  h[s] = IF s = 0 THEN L ELSE D!Processed(h[s - 1], s)
    <3>1. CASE s = 0
      BY <3>1
    <3>2. CASE s # 0
      <4>1. s - 1 \in 0..n /\ h[s - 1] = g[s - 1]
        BY <3>2
      <4>2. CASE s = n + 1
        <5>1. h[s] = last /\ s - 1 = n
          BY <4>2
        <5> QED
          BY <3>2, <4>1, <4>2, <5>1
      <4>3. CASE s # n + 1
        <5>1. s \in 0..n /\ h[s] = g[s]
          BY <4>3
        <5> QED
          BY <3>2, <4>1, <5>1
      <4> QED
        BY <4>2, <4>3
    <3> QED
      BY <3>1, <3>2
  <2>2. h = [s \in 0..(n + 1) |-> h[s]]
    OBVIOUS
  <2> HIDE DEF h
  <2>3. h = [s \in 0..(n + 1) |-> IF s = 0 THEN L ELSE D!Processed(h[s - 1], s)]
    BY <2>1, <2>2
  <2> QED
    BY <2>3
<1>3. \A n \in Nat : n \in T
  <2> HIDE DEF T
  <2> QED
    BY <1>1, <1>2, SetInduction
<1> QED
  BY <1>3 DEF Runs

\* What a frame does to door d, whose record was r and whose tile was t: a
\* picture alone in its frame is the one that is shown, and a change of the
\* state alone in its frame is what happens.
Passed(ev, d, m, r, t, r2, t2) ==
  /\ (\A s \in 1..m : ~Shows(ev[s], d)) => r2.pic = r.pic
  /\ \A c \in 1..m :
       Shows(ev[c], d) /\ (\A s \in 1..m : s # c => ~Shows(ev[s], d)) => r2.pic = ev[c].arg
  /\ (\A s \in 1..m : ~Turns(ev[s], d)) => Stays(r, t, r2, t2)
  /\ \A c \in 1..m :
       Turns(ev[c], d) /\ (\A s \in 1..m : s # c => ~Turns(ev[s], d)) => Turned(ev[c], r, t, r2, t2)

LEMMA PassedOne ==
  ASSUME NEW ev, NEW d, NEW m \in Nat, NEW r, NEW t, NEW r1, NEW t1, NEW r2, NEW t2,
         Passed(ev, d, m, r, t, r1, t1),
         r2.pic = IF Shows(ev[m + 1], d) THEN ev[m + 1].arg ELSE r1.pic,
         IF Turns(ev[m + 1], d) THEN Turned(ev[m + 1], r1, t1, r2, t2) ELSE Stays(r1, t1, r2, t2)
  PROVE  Passed(ev, d, m + 1, r, t, r2, t2)
<1>1. m + 1 \in 1..(m + 1) /\ \A s \in 1..m : s \in 1..(m + 1) /\ s # m + 1
  OBVIOUS
<1>2. \A s \in 1..(m + 1) : s = m + 1 \/ s \in 1..m
  OBVIOUS
<1>3. ASSUME \A s \in 1..(m + 1) : ~Shows(ev[s], d) PROVE r2.pic = r.pic
  BY <1>1, <1>3 DEF Passed
<1>4. ASSUME NEW c \in 1..(m + 1), Shows(ev[c], d),
             \A s \in 1..(m + 1) : s # c => ~Shows(ev[s], d)
      PROVE  r2.pic = ev[c].arg
  <2>1. CASE c = m + 1
    BY <1>4, <2>1
  <2>2. CASE c # m + 1
    <3>1. c \in 1..m /\ ~Shows(ev[m + 1], d) /\ \A s \in 1..m : s # c => ~Shows(ev[s], d)
      BY <1>1, <1>2, <1>4, <2>2
    <3> QED
      BY <1>4, <3>1 DEF Passed
  <2> QED
    BY <2>1, <2>2
<1>5. ASSUME \A s \in 1..(m + 1) : ~Turns(ev[s], d) PROVE Stays(r, t, r2, t2)
  BY <1>1, <1>5 DEF Passed, Stays
<1>6. ASSUME NEW c \in 1..(m + 1), Turns(ev[c], d),
             \A s \in 1..(m + 1) : s # c => ~Turns(ev[s], d)
      PROVE  Turned(ev[c], r, t, r2, t2)
  <2>1. CASE c = m + 1
    <3>1. \A s \in 1..m : ~Turns(ev[s], d)
      BY <1>1, <1>6, <2>1
    <3>2. Stays(r, t, r1, t1)
      BY <3>1 DEF Passed
    <3> QED
      BY <1>6, <2>1, <3>2 DEF Stays, Turned
  <2>2. CASE c # m + 1
    <3>1. c \in 1..m /\ ~Turns(ev[m + 1], d) /\ \A s \in 1..m : s # c => ~Turns(ev[s], d)
      BY <1>1, <1>2, <1>6, <2>2
    <3>2. Turned(ev[c], r, t, r1, t1) /\ Stays(r1, t1, r2, t2)
      BY <1>6, <3>1 DEF Passed
    <3> QED
      BY <3>2 DEF Stays, Turned
  <2> QED
    BY <2>1, <2>2
<1> QED
  BY <1>3, <1>4, <1>5, <1>6 DEF Passed

\* The first m slots are done: K is what L has become.
UpTo(L, m, K) ==
  /\ K \in Level /\ DOMAIN K.event = DOMAIN L.event
  /\ \A s \in DOMAIN L.event : K.event[s] = IF s <= m THEN Aged(L.event[s]) ELSE L.event[s]
  /\ \A d \in Door : Passed(L.event, d, m, L.door[d], L.tile[d], K.door[d], K.tile[d])

LEMMA NextSlot ==
  ASSUME NEW L \in Level, NEW m \in Nat, NEW K, UpTo(L, m, K), m + 1 \in DOMAIN L.event,
         NEW M, SlotDone(K, m + 1, K.event[m + 1], M)
  PROVE  UpTo(L, m + 1, M)
<1> PICK e : e = K.event[m + 1]
  OBVIOUS
<1> PICK f : f = K.event
  OBVIOUS
<1>1. DOMAIN f = DOMAIN L.event /\ f \in Seq(Event) /\ m + 1 \in DOMAIN f
  BY DEF UpTo, Level
<1>2. ~(m + 1 <= m) /\ e = L.event[m + 1]
  BY DEF UpTo
<1>3. M.event = [f EXCEPT ![m + 1] = Aged(e)] /\ M \in Level
  BY DEF SlotDone
<1>4. DOMAIN M.event = DOMAIN L.event
  BY <1>1, <1>3
<1>5. DOMAIN L.event = 1..Len(L.event) /\ Len(L.event) \in Nat
  BY LenProperties DEF Level
<1>6. ASSUME NEW s \in DOMAIN L.event
      PROVE  M.event[s] = IF s <= m + 1 THEN Aged(L.event[s]) ELSE L.event[s]
  <2>1. CASE s = m + 1
    BY <1>1, <1>2, <1>3, <2>1
  <2>2. CASE s # m + 1
    <3>1. M.event[s] = f[s] /\ (s <= m <=> s <= m + 1)
      BY <1>1, <1>3, <1>5, <2>2
    <3>2. f[s] = IF s <= m THEN Aged(L.event[s]) ELSE L.event[s]
      BY DEF UpTo
    <3> QED
      BY <3>1, <3>2
  <2> QED
    BY <2>1, <2>2
<1>7. ASSUME NEW d \in Door
      PROVE  Passed(L.event, d, m + 1, L.door[d], L.tile[d], M.door[d], M.tile[d])
  <2>1. Passed(L.event, d, m, L.door[d], L.tile[d], K.door[d], K.tile[d])
    BY DEF UpTo
  <2>2. /\ M.door[d].pic = IF Shows(e, d) THEN e.arg ELSE K.door[d].pic
        /\ IF Turns(e, d) THEN Turned(e, K.door[d], K.tile[d], M.door[d], M.tile[d])
           ELSE Stays(K.door[d], K.tile[d], M.door[d], M.tile[d])
    BY DEF SlotDone
  <2> QED
    BY <1>2, <2>1, <2>2, PassedOne
<1> QED
  BY <1>3, <1>4, <1>6, <1>7 DEF UpTo

LEMMA ProcessedAll ==
  ASSUME NEW L \in Level, NEW n \in Nat, n = Len(L.event), NEW h,
         h = [s \in 0..n |-> IF s = 0 THEN L ELSE D!Processed(h[s - 1], s)]
  PROVE  UpTo(L, n, h[n])
<1> DEFINE T == {m \in Nat : m <= n => UpTo(L, m, h[m])}
<1>1. DOMAIN L.event = 1..n
  BY LenProperties DEF Level
<1>2. 0 \in T
  <2>1. h[0] = L
    OBVIOUS
  <2>2. \A d \in Door : Passed(L.event, d, 0, L.door[d], L.tile[d], L.door[d], L.tile[d])
    BY DEF Passed, Stays
  <2>3. \A s \in 1..n : ~(s <= 0)
    OBVIOUS
  <2> QED
    BY <1>1, <2>1, <2>2, <2>3 DEF UpTo
<1>3. ASSUME NEW m \in Nat, m \in T PROVE m + 1 \in T
  <2> SUFFICES ASSUME m + 1 <= n PROVE UpTo(L, m + 1, h[m + 1])
    OBVIOUS
  <2>1. UpTo(L, m, h[m])
    BY <1>3
  <2>2. m + 1 \in DOMAIN L.event /\ m + 1 \in 0..n /\ m + 1 # 0 /\ m + 1 - 1 = m
    BY <1>1
  <2>3. h[m + 1] = D!Processed(h[m], m + 1)
    BY <2>2
  <2>4. h[m] \in Level /\ m + 1 \in DOMAIN h[m].event
    BY <2>1, <2>2 DEF UpTo
  <2>5. SlotDone(h[m], m + 1, h[m].event[m + 1], h[m + 1])
    BY <2>3, <2>4, ProcessedDoes
  <2> QED
    BY <2>1, <2>2, <2>5, NextSlot
<1>4. \A m \in Nat : m \in T
  <2> HIDE DEF T
  <2> QED
    BY <1>2, <1>3, SetInduction
<1> QED
  BY <1>4

-----------------------------------------------------------------------------
\* What is left of the events of door d after a frame.
LEMMA AgedEvents ==
  ASSUME NEW ev \in Seq(Event), NEW g, DOMAIN g = DOMAIN ev, \A s \in DOMAIN ev : g[s] = Aged(ev[s]),
         NEW d
  PROVE  /\ Due(g)
         /\ PicsIn(g, d) = {s \in PicsIn(ev, d) : ev[s].left > 1}
         /\ TurnsIn(g, d) = {s \in TurnsIn(ev, d) : ev[s].left > 1}
         /\ \A s \in About(ev, d) : ev[s].left \in Nat
         /\ \A s \in About(ev, d) : ev[s].left > 1 =>
              /\ g[s].left = ev[s].left - 1 /\ g[s].func = ev[s].func /\ g[s].arg = ev[s].arg
<1>1. ASSUME NEW s \in DOMAIN ev
      PROVE  /\ ev[s] \in Event /\ ev[s].left \in Nat
             /\ ev[s].func = "none" => g[s].func = "none"
             /\ ev[s].func # "none" /\ ~(ev[s].left > 1) => g[s].func = "none"
             /\ ev[s].func # "none" /\ ev[s].left > 1 =>
                  /\ g[s].left = ev[s].left - 1 /\ g[s].func = ev[s].func
                  /\ g[s].arg = ev[s].arg /\ g[s].item = ev[s].item
  <2>1. ev[s] \in Event /\ g[s] = Aged(ev[s])
    BY ElementOfSeq
  <2> PICK e \in Event : e = ev[s]
    BY <2>1
  <2>2. e.left \in Nat
    BY DEF Event
  <2>3. CASE e.func # "none" /\ e.left > 1
    <3>1. g[s] = [e EXCEPT !.left = e.left - 1]
      BY <2>1, <2>3 DEF Aged
    <3> QED
      BY <2>2, <2>3, <3>1 DEF Event
  <2>4. CASE e.func # "none" /\ ~(e.left > 1)
    BY <2>1, <2>2, <2>4, NoEventIs DEF Aged
  <2>5. CASE e.func = "none"
    BY <2>1, <2>2, <2>5 DEF Aged
  <2> QED
    BY <2>3, <2>4, <2>5
<1>2. \A s \in About(ev, d) : s \in DOMAIN ev /\ ev[s].func # "none"
  BY DEF About, PicsIn, TurnsIn, Turning
<1>3. Due(g)
  BY <1>1 DEF Due
<1>4. PicsIn(g, d) = {s \in PicsIn(ev, d) : ev[s].left > 1}
  BY <1>1 DEF PicsIn
<1>5. TurnsIn(g, d) = {s \in TurnsIn(ev, d) : ev[s].left > 1}
  BY <1>1 DEF TurnsIn, Turning
<1> QED
  BY <1>1, <1>2, <1>3, <1>4, <1>5

\* The last picture stays the last, or it is shown.
LEMMA EndsKept ==
  ASSUME NEW ev \in Seq(Event), NEW g, DOMAIN g = DOMAIN ev, \A s \in DOMAIN ev : g[s] = Aged(ev[s]),
         NEW d, NEW n \in Nat, DOMAIN ev = 1..n, NEW r, NEW t, NEW r2, NEW t2, Due(ev),
         Passed(ev, d, n, r, t, r2, t2), NEW a, Ends(ev, d, r.pic, a)
  PROVE  Ends(g, d, r2.pic, a)
<1>1. /\ PicsIn(g, d) = {s \in PicsIn(ev, d) : ev[s].left > 1}
      /\ \A s \in PicsIn(ev, d) : ev[s].left \in Nat /\ ev[s].left >= 1
      /\ \A s \in PicsIn(ev, d) : ev[s].left > 1 =>
           g[s].left = ev[s].left - 1 /\ g[s].arg = ev[s].arg
  <2>1. \A s \in PicsIn(ev, d) : ev[s].left >= 1
    BY DEF Due, PicsIn
  <2> QED
    BY <2>1, AgedEvents DEF About
<1>2. \A s \in 1..n : Shows(ev[s], d) <=> s \in PicsIn(ev, d) /\ ~(ev[s].left > 1)
  BY DEF Shows, Fires, PicsIn
<1>3. CASE PicsIn(ev, d) = {} /\ r.pic = a
  <2>1. \A s \in 1..n : ~Shows(ev[s], d)
    BY <1>2, <1>3
  <2>2. r2.pic = r.pic
    BY <2>1 DEF Passed
  <2> QED
    BY <1>1, <1>3, <2>2 DEF Ends
<1>4. CASE \E s \in PicsIn(ev, d) :
             ev[s].arg = a /\ \A u \in PicsIn(ev, d) \ {s} : ev[u].left < ev[s].left
  <2> PICK s \in PicsIn(ev, d) :
        ev[s].arg = a /\ \A u \in PicsIn(ev, d) \ {s} : ev[u].left < ev[s].left
    BY <1>4
  <2>1. s \in 1..n
    BY DEF PicsIn
  <2>2. CASE ev[s].left > 1
    <3>1. s \in PicsIn(g, d) /\ g[s].arg = a
      BY <1>1, <2>2
    <3>2. ASSUME NEW u \in PicsIn(g, d) \ {s} PROVE g[u].left < g[s].left
      <4>1. u \in PicsIn(ev, d) \ {s} /\ ev[u].left > 1
        BY <1>1
      <4> QED
        BY <1>1, <2>2, <4>1
    <3> QED
      BY <3>1, <3>2 DEF Ends
  <2>3. CASE ~(ev[s].left > 1)
    <3>1. PicsIn(ev, d) = {s}
      <4>1. ASSUME NEW u \in PicsIn(ev, d), u # s PROVE FALSE
        <5>1. ev[u].left < ev[s].left /\ ev[u].left >= 1 /\ ev[u].left \in Nat /\ ev[s].left \in Nat
          BY <1>1, <4>1
        <5> QED
          BY <2>3, <5>1
      <4> QED
        BY <4>1
    <3>2. Shows(ev[s], d) /\ \A u \in 1..n : u # s => ~Shows(ev[u], d)
      BY <1>2, <2>1, <2>3, <3>1
    <3>3. r2.pic = a
      BY <2>1, <3>2 DEF Passed
    <3>4. PicsIn(g, d) = {}
      BY <1>1, <2>3, <3>1
    <3> QED
      BY <3>3, <3>4 DEF Ends
  <2> QED
    BY <2>2, <2>3
<1> QED
  BY <1>3, <1>4 DEF Ends

\* A frame of the events takes a door from one state it may be in to another.
LEMMA DoorKept ==
  ASSUME NEW ev \in Seq(Event), NEW g, DOMAIN g = DOMAIN ev, \A s \in DOMAIN ev : g[s] = Aged(ev[s]),
         NEW d, NEW n \in Nat, DOMAIN ev = 1..n, NEW r, NEW t, NEW r2, NEW t2, Due(ev),
         Passed(ev, d, n, r, t, r2, t2), DoorOK(ev, d, r, t)
  PROVE  DoorOK(g, d, r2, t2)
<1>1. /\ PicsIn(g, d) = {s \in PicsIn(ev, d) : ev[s].left > 1}
      /\ TurnsIn(g, d) = {s \in TurnsIn(ev, d) : ev[s].left > 1}
      /\ \A s \in PicsIn(ev, d) \cup TurnsIn(ev, d) : ev[s].left \in Nat
      /\ \A s \in PicsIn(ev, d) \cup TurnsIn(ev, d) : ev[s].left > 1 =>
           /\ g[s].left = ev[s].left - 1 /\ g[s].func = ev[s].func /\ g[s].arg = ev[s].arg
  BY AgedEvents DEF About
<1>2. \A s \in PicsIn(ev, d) \cup TurnsIn(ev, d) : ev[s].left >= 1
  BY DEF Due, PicsIn, TurnsIn, Turning
<1>3. \A s \in 1..n : Turns(ev[s], d) <=> s \in TurnsIn(ev, d) /\ ~(ev[s].left > 1)
  BY DEF Turns, Fires, TurnsIn, Turning
<1>4. \A s \in TurnsIn(ev, d) : s \in 1..n /\ s \in DOMAIN g
  BY DEF TurnsIn
<1>5. \A a : Ends(ev, d, r.pic, a) => Ends(g, d, r2.pic, a)
  BY EndsKept
<1>6. \A c \in TurnsIn(ev, d) : ev[c].left > 1 /\ Before(ev, d, c) => Before(g, d, c)
  <2> SUFFICES ASSUME NEW c \in TurnsIn(ev, d), ev[c].left > 1, Before(ev, d, c),
                      NEW s \in PicsIn(g, d)
               PROVE  g[s].left < g[c].left
    BY DEF Before
  <2>1. s \in PicsIn(ev, d) /\ ev[s].left > 1
    BY <1>1
  <2>2. ev[s].left < ev[c].left
    BY <2>1 DEF Before
  <2> QED
    BY <1>1, <2>1, <2>2
<1>7. ASSUME NEW c \in TurnsIn(ev, d), ~(ev[c].left > 1), Before(ev, d, c),
             NEW a, Ends(ev, d, r.pic, a)
      PROVE  PicsIn(g, d) = {} /\ r2.pic = a
  <2>1. PicsIn(ev, d) = {}
    <3>1. ASSUME NEW s \in PicsIn(ev, d) PROVE FALSE
      <4>1. ev[s].left < ev[c].left
        BY <1>7 DEF Before
      <4> QED
        BY <1>1, <1>2, <1>7, <4>1
    <3> QED
      BY <3>1
  <2>2. PicsIn(g, d) = {}
    BY <1>1, <2>1
  <2> QED
    BY <1>5, <1>7, <2>2 DEF Ends
<1>8. (\A s \in TurnsIn(ev, d) : ev[s].left > 1) => Stays(r, t, r2, t2)
  BY <1>3 DEF Passed
<1>9. ASSUME NEW c \in TurnsIn(ev, d), ~(ev[c].left > 1), \A s \in TurnsIn(ev, d) : s # c => ev[s].left > 1
      PROVE  Turned(ev[c], r, t, r2, t2)
  BY <1>3, <1>4, <1>9 DEF Passed
<1>10. ASSUME Idle(ev, d) PROVE Idle(g, d) /\ r2.pic = r.pic /\ Stays(r, t, r2, t2)
  <2>1. Idle(g, d)
    BY <1>1, <1>10 DEF Idle
  <2>2. Ends(g, d, r2.pic, r.pic)
    BY <1>5, <1>10 DEF Idle, Ends
  <2> QED
    BY <1>8, <1>10, <2>1, <2>2 DEF Idle, Ends
<1>11. CASE IsClosed(ev, d, r, t)
  BY <1>10, <1>11 DEF IsClosed, DoorOK, Stays
<1>12. CASE IsOpen(ev, d, r, t)
  BY <1>10, <1>12 DEF IsOpen, DoorOK, Stays
<1>j. CASE Jammed(ev, d, r)
  BY <1>10, <1>j DEF Jammed, DoorOK, Stays
<1>13. CASE OpensByLever(ev, d, r)
  <2> PICK c \in DOMAIN ev : /\ TurnsIn(ev, d) = {c} /\ ev[c].func = "open"
                             /\ Before(ev, d, c) /\ Ends(ev, d, r.pic, DoorPics - 1)
    BY <1>13 DEF OpensByLever
  <2>1. c \in TurnsIn(ev, d) /\ \A s \in TurnsIn(ev, d) : s = c
    OBVIOUS
  <2>2. CASE ev[c].left > 1
    <3>1. Stays(r, t, r2, t2)
      BY <1>8, <2>1, <2>2
    <3>2. TurnsIn(g, d) = {c} /\ g[c].func = "open" /\ Before(g, d, c) /\ Ends(g, d, r2.pic, DoorPics - 1)
      BY <1>1, <1>5, <1>6, <2>1, <2>2
    <3> QED
      BY <1>4, <1>13, <2>1, <3>1, <3>2 DEF OpensByLever, DoorOK, Stays
  <2>3. CASE ~(ev[c].left > 1)
    <3>1. Turned(ev[c], r, t, r2, t2)
      BY <1>9, <2>1, <2>3
    <3>2. TurnsIn(g, d) = {}
      BY <1>1, <2>1, <2>3
    <3>3. PicsIn(g, d) = {} /\ r2.pic = DoorPics - 1
      BY <1>7, <2>1, <2>3
    <3> QED
      BY <1>13, <3>1, <3>2, <3>3 DEF Turned, OpensByLever, IsOpen, Idle, DoorOK
  <2> QED
    BY <2>2, <2>3
<1>14. CASE ClosesByLever(ev, d, r)
  <2> PICK c \in DOMAIN ev : /\ TurnsIn(ev, d) = {c} /\ ev[c].func = "close" /\ ev[c].arg = D!Block
                             /\ Before(ev, d, c) /\ Ends(ev, d, r.pic, 0)
    BY <1>14 DEF ClosesByLever
  <2>1. c \in TurnsIn(ev, d) /\ \A s \in TurnsIn(ev, d) : s = c
    OBVIOUS
  <2>2. CASE ev[c].left > 1
    <3>1. Stays(r, t, r2, t2)
      BY <1>8, <2>1, <2>2
    <3>2. /\ TurnsIn(g, d) = {c} /\ g[c].func = "close" /\ g[c].arg = D!Block
          /\ Before(g, d, c) /\ Ends(g, d, r2.pic, 0)
      BY <1>1, <1>5, <1>6, <2>1, <2>2
    <3> QED
      BY <1>4, <1>14, <2>1, <3>1, <3>2 DEF ClosesByLever, DoorOK, Stays
  <2>3. CASE ~(ev[c].left > 1)
    <3>1. Turned(ev[c], r, t, r2, t2)
      BY <1>9, <2>1, <2>3
    <3>2. TurnsIn(g, d) = {}
      BY <1>1, <2>1, <2>3
    <3>3. PicsIn(g, d) = {} /\ r2.pic = 0
      BY <1>7, <2>1, <2>3
    <3> QED
      BY <1>14, <3>1, <3>2, <3>3 DEF Turned, IsClosed, Idle, DoorOK
  <2> QED
    BY <2>2, <2>3
<1>15. CASE OpensForEver(ev, d, r, t)
  <2> PICK c \in DOMAIN ev : /\ TurnsIn(ev, d) = {c} /\ ev[c].func = "starOpen"
                             /\ Before(ev, d, c) /\ Ends(ev, d, r.pic, DoorPics - 1)
    BY <1>15 DEF OpensForEver
  <2>1. c \in TurnsIn(ev, d) /\ \A s \in TurnsIn(ev, d) : s = c
    OBVIOUS
  <2>2. CASE ev[c].left > 1
    <3>1. Stays(r, t, r2, t2)
      BY <1>8, <2>1, <2>2
    <3>2. TurnsIn(g, d) = {c} /\ g[c].func = "starOpen" /\ Before(g, d, c) /\ Ends(g, d, r2.pic, DoorPics - 1)
      BY <1>1, <1>5, <1>6, <2>1, <2>2
    <3> QED
      BY <1>4, <1>15, <2>1, <3>1, <3>2 DEF OpensForEver, DoorOK, Stays
  <2>3. CASE ~(ev[c].left > 1)
    <3>1. Turned(ev[c], r, t, r2, t2)
      BY <1>9, <2>1, <2>3
    <3>2. TurnsIn(g, d) = {}
      BY <1>1, <2>1, <2>3
    <3>3. PicsIn(g, d) = {} /\ r2.pic = DoorPics - 1
      BY <1>7, <2>1, <2>3
    <3> QED
      BY <1>15, <3>1, <3>2, <3>3 DEF Turned, OpensForEver, IsOpen, Idle, DoorOK
  <2> QED
    BY <2>2, <2>3
<1>16. CASE ClosesByStar(ev, d, r, t)
  <2> PICK c \in DOMAIN ev : /\ TurnsIn(ev, d) = {c} /\ ev[c].func = "starClose"
                             /\ Before(ev, d, c) /\ Ends(ev, d, r.pic, 0)
    BY <1>16 DEF ClosesByStar
  <2>1. c \in TurnsIn(ev, d) /\ \A s \in TurnsIn(ev, d) : s = c
    OBVIOUS
  <2>2. CASE ev[c].left > 1
    <3>1. Stays(r, t, r2, t2)
      BY <1>8, <2>1, <2>2
    <3>2. TurnsIn(g, d) = {c} /\ g[c].func = "starClose" /\ Before(g, d, c) /\ Ends(g, d, r2.pic, 0)
      BY <1>1, <1>5, <1>6, <2>1, <2>2
    <3> QED
      BY <1>4, <1>16, <2>1, <3>1, <3>2 DEF ClosesByStar, DoorOK, Stays
  <2>3. CASE ~(ev[c].left > 1)
    <3>1. Turned(ev[c], r, t, r2, t2)
      BY <1>9, <2>1, <2>3
    <3>2. TurnsIn(g, d) = {}
      BY <1>1, <2>1, <2>3
    <3>3. PicsIn(g, d) = {} /\ r2.pic = 0
      BY <1>7, <2>1, <2>3
    <3> QED
      BY <1>16, <3>1, <3>2, <3>3 DEF Turned, ClosesByStar, IsClosed, Idle, DoorOK
  <2> QED
    BY <2>2, <2>3
<1>17. CASE OpensByStar(ev, d, r, t)
  <2> PICK b \in DOMAIN ev, c \in DOMAIN ev :
        /\ TurnsIn(ev, d) = {b, c} /\ ev[b].func = "starOpen" /\ ev[c].func = "starClose"
        /\ ev[b].left < ev[c].left /\ Before(ev, d, c) /\ Ends(ev, d, r.pic, 0)
    BY <1>17 DEF OpensByStar
  <2>1. b \in TurnsIn(ev, d) /\ c \in TurnsIn(ev, d) /\ \A s \in TurnsIn(ev, d) : s = b \/ s = c
    OBVIOUS
  <2>2. ev[c].left > 1 /\ ev[b].left \in Nat /\ ev[c].left \in Nat
    BY <1>1, <1>2, <2>1
  <2>3. /\ g[c].func = "starClose" /\ g[c].left = ev[c].left - 1
        /\ Before(g, d, c) /\ Ends(g, d, r2.pic, 0)
    BY <1>1, <1>5, <1>6, <2>1, <2>2
  <2>4. CASE ev[b].left > 1
    <3>1. Stays(r, t, r2, t2)
      BY <1>8, <2>1, <2>2, <2>4
    <3>2. TurnsIn(g, d) = {b, c} /\ g[b].func = "starOpen" /\ g[b].left < g[c].left
      BY <1>1, <2>1, <2>2, <2>3, <2>4
    <3> QED
      BY <1>4, <1>17, <2>1, <2>3, <3>1, <3>2 DEF OpensByStar, DoorOK, Stays
  <2>5. CASE ~(ev[b].left > 1)
    <3>1. Turned(ev[b], r, t, r2, t2)
      BY <1>9, <2>1, <2>2, <2>5
    <3>2. TurnsIn(g, d) = {c}
      BY <1>1, <2>1, <2>2, <2>5
    <3> QED
      BY <1>4, <1>17, <2>1, <2>3, <3>1, <3>2 DEF Turned, OpensByStar, ClosesByStar, DoorOK
  <2> QED
    BY <2>4, <2>5
<1> QED
  BY <1>11, <1>12, <1>j, <1>13, <1>14, <1>15, <1>16, <1>17 DEF DoorOK

-----------------------------------------------------------------------------
\* Events that an item schedules: all are due at some later frame, and those
\* for doors are for doors of B.
Script(E, B) ==
  /\ E \in Seq(Event)
  /\ \A k \in 1..Len(E) : /\ E[k].func # "none" /\ E[k].left >= 1
                          /\ E[k].func \in Turning \cup {"doorPic"} => E[k].item \in B

\* What becomes of the doors when the events of E are added to ev.
Scheduled(ev, E, B, g) ==
  /\ g \in Seq(Event) /\ Due(g)
  /\ \A d, r, t : d \notin B /\ DoorOK(ev, d, r, t) => DoorOK(g, d, r, t)
  /\ \A d, r, t : Idle(ev, d) /\ DoorOK(E, d, r, t) => DoorOK(g, d, r, t)

LEMMA ScriptScheduled ==
  ASSUME NEW ev \in Seq(Event), Due(ev), NEW E, NEW B, Script(E, B)
  PROVE  Scheduled(ev, E, B, D!AddEvents(ev, E))
<1> DEFINE g == D!AddEvents(ev, E)
<1>1. E \in Seq(Event) /\ \A k \in 1..Len(E) : E[k].func # "none"
  BY DEF Script
<1>2. g \in Seq(Event) /\ Placed(ev, g, E, Len(E))
  BY <1>1, AddEventsPlaces
<1>3. Len(E) \in Nat /\ DOMAIN E = 1..Len(E)
  BY <1>1, LenProperties
<1> HIDE DEF g
<1>4. Due(g)
  <2>1. \A i \in 1..Len(E) : E[i].left >= 1
    BY DEF Script
  <2> QED
    BY <1>2, <1>3, <2>1, DueKept
<1>5. ASSUME NEW d, NEW r, NEW t, d \notin B, DoorOK(ev, d, r, t)
      PROVE  DoorOK(g, d, r, t)
  <2>1. \A i \in 1..Len(E) : ~(E[i].func \in Turning \cup {"doorPic"} /\ E[i].item = d)
    BY <1>5 DEF Script
  <2> QED
    BY <1>2, <1>3, <1>5, <2>1, OthersKeep
<1>6. ASSUME NEW d, NEW r, NEW t, Idle(ev, d), DoorOK(E, d, r, t)
      PROVE  DoorOK(g, d, r, t)
  BY <1>2, <1>3, <1>6, NewOnesCount
<1>7. Scheduled(ev, E, B, g)
  BY <1>2, <1>4, <1>5, <1>6 DEF Scheduled
<1> QED
  BY <1>7 DEF g

\* G is E and F behind it.
Joined(E, F, G) ==
  /\ Len(E) \in Nat /\ Len(F) \in Nat
  /\ Len(G) = Len(E) + Len(F) /\ DOMAIN G = 1..(Len(E) + Len(F))
  /\ \A k \in 1..Len(E) : G[k] = E[k]
  /\ \A k \in 1..Len(F) : G[Len(E) + k] = F[k]

LEMMA ScriptConcat ==
  ASSUME NEW E, NEW F, NEW B, Script(E, B), Script(F, B)
  PROVE  Script(E \o F, B) /\ Joined(E, F, E \o F)
<1> DEFINE G == E \o F
<1>1. E \in Seq(Event) /\ F \in Seq(Event)
  BY DEF Script
<1>2. Len(E) \in Nat /\ Len(F) \in Nat
  BY <1>1, LenProperties
<1>3. /\ G \in Seq(Event) /\ Len(G) = Len(E) + Len(F)
      /\ \A i \in 1..(Len(E) + Len(F)) : G[i] = IF i <= Len(E) THEN E[i] ELSE F[i - Len(E)]
  BY <1>1, ConcatProperties
<1>4. DOMAIN G = 1..(Len(E) + Len(F))
  BY <1>3, LenProperties
<1> HIDE DEF G
<1>5. \A k \in 1..Len(E) : G[k] = E[k]
  BY <1>2, <1>3
<1>6. ASSUME NEW k \in 1..Len(F) PROVE G[Len(E) + k] = F[k]
  <2>1. Len(E) + k \in 1..(Len(E) + Len(F)) /\ ~(Len(E) + k <= Len(E)) /\ Len(E) + k - Len(E) = k
    BY <1>2
  <2> QED
    BY <1>3, <2>1
<1>7. ASSUME NEW k \in 1..Len(G)
      PROVE  /\ G[k].func # "none" /\ G[k].left >= 1
             /\ G[k].func \in Turning \cup {"doorPic"} => G[k].item \in B
  <2>1. CASE k <= Len(E)
    <3>1. k \in 1..Len(E)
      BY <1>2, <1>3, <2>1
    <3> QED
      BY <1>5, <3>1 DEF Script
  <2>2. CASE ~(k <= Len(E))
    <3>1. k - Len(E) \in 1..Len(F) /\ G[k] = F[k - Len(E)]
      BY <1>2, <1>3, <2>2
    <3> QED
      BY <3>1 DEF Script
  <2> QED
    BY <2>1, <2>2
<1>8. Script(G, B)
  BY <1>3, <1>7 DEF Script
<1> QED
  BY <1>2, <1>3, <1>4, <1>5, <1>6, <1>8 DEF G, Joined

LEMMA ScriptOfOne ==
  ASSUME NEW l \in Nat, l >= 1, NEW f \in Funcs, f # "none", NEW x \in Door \cup Nat, NEW a \in Value,
         NEW B, f \in Turning \cup {"doorPic"} => x \in B
  PROVE  /\ Script(<<D!Ev(l, f, x, a)>>, B) /\ Len(<<D!Ev(l, f, x, a)>>) = 1
         /\ <<D!Ev(l, f, x, a)>>[1] = [left |-> l, func |-> f, item |-> x, arg |-> a]
<1> DEFINE e == [left |-> l, func |-> f, item |-> x, arg |-> a]
<1>1. D!Ev(l, f, x, a) = e /\ e \in Event
  BY DEF D!Ev, Event
<1>2. e.func = f /\ e.left = l /\ e.item = x
  OBVIOUS
<1> HIDE DEF e
<1>3. <<e>> \in Seq(Event) /\ Len(<<e>>) = 1 /\ <<e>>[1] = e
  BY <1>1
<1> QED
  BY <1>1, <1>2, <1>3 DEF Script, e

\* A is a picture of the item every frame, or every second one.
Animates(A, f, x, p, first, step) ==
  /\ Len(A) = Len(p)
  /\ \A k \in 1..Len(p) : /\ A[k].left = first + step * (k - 1) /\ A[k].func = f
                          /\ A[k].item = x /\ A[k].arg = p[k]

LEMMA AnimationIs ==
  ASSUME NEW f \in {"pic", "doorPic"}, NEW x \in Door \cup Nat, NEW p \in Seq(Int),
         NEW first \in Nat, first >= 1, NEW step \in {1, 2}, NEW B, f = "doorPic" => x \in B
  PROVE  /\ Script(D!Animation(f, x, p, first, step), B)
         /\ Animates(D!Animation(f, x, p, first, step), f, x, p, first, step)
<1> DEFINE A == D!Animation(f, x, p, first, step)
<1>1. Len(p) \in Nat
  BY LenProperties
<1>2. A = [k \in 1..Len(p) |-> [left |-> first + step * (k - 1), func |-> f, item |-> x, arg |-> p[k]]]
  BY DEF D!Animation, D!Ev
<1>3. ASSUME NEW k \in 1..Len(p)
      PROVE  /\ first + step * (k - 1) \in Nat /\ first + step * (k - 1) >= 1 /\ p[k] \in Value
  <2>1. p[k] \in Value
    BY ElementOfSeq DEF Value
  <2>2. CASE step = 1
    BY <2>1, <2>2
  <2>3. CASE step = 2
    BY <2>1, <2>3
  <2> QED
    BY <2>2, <2>3
<1> HIDE DEF A
<1>4. ASSUME NEW k \in 1..Len(p)
      PROVE  /\ A[k] \in Event /\ A[k].left = first + step * (k - 1) /\ A[k].left >= 1
             /\ A[k].func = f /\ A[k].item = x /\ A[k].arg = p[k]
  <2> PICK l : l = first + step * (k - 1)
    OBVIOUS
  <2>1. A[k] = [left |-> l, func |-> f, item |-> x, arg |-> p[k]]
    BY <1>2
  <2>2. l \in Nat /\ l >= 1 /\ p[k] \in Value
    BY <1>3
  <2> QED
    BY <2>1, <2>2 DEF Event, Funcs
<1>5. A \in Seq(Event) /\ Len(A) = Len(p)
  BY <1>1, <1>2, <1>4
<1>6. Script(A, B)
  BY <1>4, <1>5 DEF Script, Turning
<1> QED
  BY <1>4, <1>5, <1>6 DEF A, Animates

LEMMA UpAndDown ==
  ASSUME NEW n \in Nat \ {0}
  PROVE  /\ D!Upwards(n) \in Seq(Int) /\ Len(D!Upwards(n)) = n - 1
         /\ \A k \in 1..(n - 1) : D!Upwards(n)[k] = k
         /\ D!Downwards(n) \in Seq(Int) /\ Len(D!Downwards(n)) = n - 1
         /\ \A k \in 1..(n - 1) : D!Downwards(n)[k] = n - k - 1
<1>1. n - 1 \in Nat
  OBVIOUS
<1>2. \A m \in Nat : /\ [k \in 1..m |-> k] \in Seq(Int) /\ Len([k \in 1..m |-> k]) = m
                     /\ [k \in 1..m |-> n - k - 1] \in Seq(Int) /\ Len([k \in 1..m |-> n - k - 1]) = m
  OBVIOUS
<1> QED
  BY <1>1, <1>2 DEF D!Upwards, D!Downwards

-----------------------------------------------------------------------------
LEMMA LeverChangeIs ==
  ASSUME NEW i \in DOMAIN Items, NEW B
  PROVE  /\ Script(D!LeverChange(i), B)
         /\ \A k \in 1..Len(D!LeverChange(i)) : D!LeverChange(i)[k].func = "pic"
<1> DEFINE p == IF pic[i] = 0 THEN D!Upwards(LeverPics) ELSE D!Downwards(LeverPics)
<1>1. LeverPics \in Nat \ {0} /\ i \in Door \cup Nat
  BY DoorsAssumption DEF D!DoorsAssumption
<1>2. p \in Seq(Int)
  BY <1>1, UpAndDown
<1>3. D!LeverChange(i) = D!Animation("pic", i, p, 2, 1)
  BY DEF D!LeverChange
<1> HIDE DEF p
<1> DEFINE A == D!Animation("pic", i, p, 2, 1)
<1>4. Script(A, B) /\ Animates(A, "pic", i, p, 2, 1)
  BY <1>1, <1>2, AnimationIs
<1> HIDE DEF A
<1>5. Script(A, B) /\ \A k \in 1..Len(A) : A[k].func = "pic"
  BY <1>4 DEF Animates
<1> QED
  BY <1>3, <1>5 DEF A

\* S is: the pictures p of the door d and a change of its state.
Moves(S, d, p, first, l, f, a) ==
  /\ Len(S) = Len(p) + 1 /\ DOMAIN S = 1..(Len(p) + 1)
  /\ \A k \in 1..Len(p) : /\ S[k].left = first + k - 1 /\ S[k].func = "doorPic"
                          /\ S[k].item = d /\ S[k].arg = p[k]
  /\ S[Len(p) + 1] = [left |-> l, func |-> f, item |-> d, arg |-> a]

LEMMA DoorMoves ==
  ASSUME NEW d \in Door, NEW p \in Seq(Int), NEW first \in Nat, first >= 1, NEW l \in Nat, l >= 1,
         NEW f \in Turning, NEW a \in Value
  PROVE  /\ Script(D!Animation("doorPic", d, p, first, 1) \o <<D!Ev(l, f, d, a)>>, {d})
         /\ Moves(D!Animation("doorPic", d, p, first, 1) \o <<D!Ev(l, f, d, a)>>, d, p, first, l, f, a)
<1> DEFINE A == D!Animation("doorPic", d, p, first, 1)
           C == <<D!Ev(l, f, d, a)>>
<1>1. Script(A, {d}) /\ Animates(A, "doorPic", d, p, first, 1)
  BY AnimationIs
<1>2. Script(C, {d}) /\ Len(C) = 1 /\ C[1] = [left |-> l, func |-> f, item |-> d, arg |-> a]
  BY ScriptOfOne DEF Funcs, Turning
<1>3. Len(p) \in Nat
  BY LenProperties
<1> HIDE DEF A, C
<1> DEFINE S == A \o C
<1>4. Script(S, {d}) /\ Joined(A, C, S)
  BY <1>1, <1>2, ScriptConcat
<1> HIDE DEF S
<1>5. \A k \in 1..Len(p) : A[k].left = first + k - 1
  <2>1. \A k \in 1..Len(p) : first + 1 * (k - 1) = first + k - 1
    OBVIOUS
  <2> QED
    BY <1>1, <2>1 DEF Animates
<1>6. S[Len(p) + 1] = C[1]
  BY <1>1, <1>2, <1>4 DEF Joined, Animates
<1>7. \A k \in 1..Len(p) : S[k] = A[k]
  BY <1>1, <1>4 DEF Joined, Animates
<1>8. Moves(S, d, p, first, l, f, a)
  <2>1. \A k \in 1..Len(p) : /\ S[k].left = first + k - 1 /\ S[k].func = "doorPic"
                            /\ S[k].item = d /\ S[k].arg = p[k]
    BY <1>1, <1>5, <1>7 DEF Animates
  <2>2. Len(S) = Len(p) + 1 /\ DOMAIN S = 1..(Len(p) + 1)
    BY <1>1, <1>2, <1>4 DEF Animates, Joined
  <2> QED
    BY <1>2, <1>6, <2>1, <2>2 DEF Moves
<1> QED
  BY <1>4, <1>8 DEF S, A, C

\* A lever moves first and then its door: only what it does to the door counts.
LEMMA PrefixIdle ==
  ASSUME NEW A, NEW S, NEW B, Script(A, B), Script(S, B), NEW d, NEW r, NEW t,
         \A k \in 1..Len(A) : A[k].func = "pic",
         DoorOK(S, d, r, t)
  PROVE  DoorOK(A \o S, d, r, t)
<1> DEFINE E == A \o S
           f == [k \in About(S, d) |-> Len(A) + k]
<1>1. /\ Len(A) \in Nat /\ Len(S) \in Nat /\ DOMAIN A = 1..Len(A) /\ DOMAIN S = 1..Len(S)
  BY LenProperties DEF Script
<1>2. Joined(A, S, E)
  BY ScriptConcat
<1> HIDE DEF E
<1>a. /\ \A k \in 1..Len(A) : E[k] = A[k]
      /\ \A k \in 1..Len(S) : E[Len(A) + k] = S[k]
      /\ DOMAIN E = 1..(Len(A) + Len(S))
  BY <1>2 DEF Joined
<1>3. \A k \in About(S, d) : k \in 1..Len(S)
  BY <1>1 DEF About, PicsIn, TurnsIn
<1>4. f \in [About(S, d) -> DOMAIN E]
  BY <1>1, <1>a, <1>3
<1>5. \A k \in About(S, d) : f[k] = Len(A) + k /\ E[f[k]] = S[k]
  BY <1>1, <1>a, <1>3
<1>6. \A k, j \in About(S, d) : f[k] = f[j] => k = j
  BY <1>1, <1>3
<1> HIDE DEF f
<1>7. ASSUME NEW u \in About(E, d) PROVE \E k \in About(S, d) : f[k] = u
  <2>1. u \in 1..(Len(A) + Len(S)) /\ E[u].func # "pic"
    BY <1>a DEF About, PicsIn, TurnsIn, Turning
  <2>2. ~(u \in 1..Len(A))
    BY <1>a, <2>1
  <2>3. u - Len(A) \in 1..Len(S) /\ Len(A) + (u - Len(A)) = u
    BY <1>1, <2>1, <2>2
  <2>4. E[u] = S[u - Len(A)]
    BY <1>a, <2>3
  <2>5. u - Len(A) \in About(S, d)
    BY <1>1, <2>3, <2>4 DEF About, PicsIn, TurnsIn
  <2> QED
    BY <1>5, <2>3, <2>5
<1>8. DoorOK(E, d, r, t)
  BY <1>4, <1>5, <1>6, <1>7, Transfer
<1> QED
  BY <1>8 DEF E

LEMMA LeverOpensIs ==
  ASSUME NEW i \in DOMAIN Items, NEW d \in Door, NEW r, NEW t,
         r.state = D!Moving, r.data = D!Block, r.pic = 0
  PROVE  /\ Script(D!LeverChange(i) \o D!LeverOpens(d), {d})
         /\ DoorOK(D!LeverChange(i) \o D!LeverOpens(d), d, r, t)
<1> DEFINE p == D!Upwards(DoorPics)
           S == D!LeverOpens(d)
           n == DoorPics
<1>1. n \in Nat \ {0} /\ p \in Seq(Int) /\ Len(p) = n - 1 /\ \A k \in 1..(n - 1) : p[k] = k
  BY DoorsAssumption, UpAndDown DEF D!DoorsAssumption
<1>2. S = D!Animation("doorPic", d, p, 2, 1) \o <<D!Ev(n + 1, "open", d, 0)>>
  BY DEF D!LeverOpens
<1> HIDE DEF p, S
<1>3. Script(S, {d}) /\ Moves(S, d, p, 2, n + 1, "open", 0)
  <2>1. 0 \in Value /\ "open" \in Turning /\ n + 1 \in Nat /\ n + 1 >= 1
    BY <1>1 DEF Value, Turning
  <2>2. PICK l \in Nat : l = n + 1 /\ l >= 1
    BY <2>1
  <2>3. PICK first \in Nat : first = 2 /\ first >= 1
    OBVIOUS
  <2>4. Script(D!Animation("doorPic", d, p, first, 1) \o <<D!Ev(l, "open", d, 0)>>, {d})
        /\ Moves(D!Animation("doorPic", d, p, first, 1) \o <<D!Ev(l, "open", d, 0)>>,
                 d, p, first, l, "open", 0)
    BY <1>1, <2>1, <2>2, <2>3, DoorMoves
  <2> QED
    BY <1>2, <2>2, <2>3, <2>4
<1>4. /\ DOMAIN S = 1..n
      /\ \A k \in 1..(n - 1) : /\ S[k].left = k + 1 /\ S[k].func = "doorPic"
                               /\ S[k].item = d /\ S[k].arg = k
      /\ S[n].left = n + 1 /\ S[n].func = "open" /\ S[n].item = d
  <2>1. Len(p) = n - 1 /\ Len(p) + 1 = n
    BY <1>1
  <2>2. \A k \in 1..(n - 1) : 2 + k - 1 = k + 1 /\ k \in 1..Len(p)
    BY <1>1
  <2> QED
    BY <1>1, <1>3, <2>1, <2>2 DEF Moves
<1>5. TurnsIn(S, d) = {n}
  <2>1. \A k \in 1..n : k = n \/ k \in 1..(n - 1)
    BY <1>1
  <2>2. n \in 1..n
    BY <1>1
  <2> QED
    BY <1>4, <2>1, <2>2 DEF TurnsIn, Turning
<1>6. PicsIn(S, d) = 1..(n - 1)
  <2>1. \A k \in 1..n : k = n \/ k \in 1..(n - 1)
    BY <1>1
  <2>2. \A k \in 1..(n - 1) : k \in 1..n
    BY <1>1
  <2> QED
    BY <1>4, <2>1, <2>2 DEF PicsIn
<1>7. Before(S, d, n)
  <2> SUFFICES ASSUME NEW s \in 1..(n - 1) PROVE S[s].left < S[n].left
    BY <1>6 DEF Before
  <2>1. S[s].left = s + 1 /\ S[n].left = n + 1
    BY <1>4
  <2> QED
    BY <1>1, <2>1
<1>8. Ends(S, d, 0, n - 1)
  <2>1. CASE n = 1
    BY <1>6, <2>1 DEF Ends
  <2>2. CASE n # 1
    <3>1. n - 1 \in PicsIn(S, d) /\ S[n - 1].arg = n - 1
      BY <1>1, <1>4, <1>6, <2>2
    <3>2. ASSUME NEW u \in PicsIn(S, d) \ {n - 1} PROVE S[u].left < S[n - 1].left
      <4>1. u \in 1..(n - 1) /\ n - 1 \in 1..(n - 1) /\ u < n - 1
        BY <1>1, <1>6, <3>1
      <4>2. S[u].left = u + 1 /\ S[n - 1].left = n - 1 + 1
        BY <1>4, <4>1
      <4> QED
        BY <1>1, <4>1, <4>2
    <3> QED
      BY <3>1, <3>2 DEF Ends
  <2> QED
    BY <2>1, <2>2
<1>9. n \in DOMAIN S
  BY <1>1, <1>4
<1>10. OpensByLever(S, d, r)
  BY <1>4, <1>5, <1>7, <1>8, <1>9 DEF OpensByLever
<1> QED
  BY <1>3, <1>10, LeverChangeIs, ScriptConcat, PrefixIdle DEF DoorOK, S

LEMMA LeverClosesIs ==
  ASSUME NEW i \in DOMAIN Items, NEW d \in Door, NEW r, NEW t,
         r.state = D!Moving, r.pic = DoorPics - 1, door[d].data = D!Block
  PROVE  /\ Script(D!LeverChange(i) \o D!LeverCloses(d), {d})
         /\ DoorOK(D!LeverChange(i) \o D!LeverCloses(d), d, r, t)
<1> DEFINE p == D!Downwards(DoorPics)
           S == D!LeverCloses(d)
           n == DoorPics
<1>1. n \in Nat \ {0} /\ p \in Seq(Int) /\ Len(p) = n - 1 /\ \A k \in 1..(n - 1) : p[k] = n - k - 1
  BY DoorsAssumption, UpAndDown DEF D!DoorsAssumption
<1>2. S = D!Animation("doorPic", d, p, 2, 1) \o <<D!Ev(n + 1, "close", d, D!Block)>>
  BY DEF D!LeverCloses
<1> HIDE DEF p, S
<1>3. Script(S, {d}) /\ Moves(S, d, p, 2, n + 1, "close", D!Block)
  <2>1. D!Block \in Value /\ "close" \in Turning /\ n + 1 \in Nat /\ n + 1 >= 1
    BY <1>1 DEF Value, Turning
  <2>2. PICK l \in Nat : l = n + 1 /\ l >= 1
    BY <2>1
  <2>3. PICK first \in Nat : first = 2 /\ first >= 1
    OBVIOUS
  <2>4. Script(D!Animation("doorPic", d, p, first, 1) \o <<D!Ev(l, "close", d, D!Block)>>, {d})
        /\ Moves(D!Animation("doorPic", d, p, first, 1) \o <<D!Ev(l, "close", d, D!Block)>>,
                 d, p, first, l, "close", D!Block)
    BY <1>1, <2>1, <2>2, <2>3, DoorMoves
  <2> QED
    BY <1>2, <2>2, <2>3, <2>4
<1>4. /\ DOMAIN S = 1..n
      /\ \A k \in 1..(n - 1) : /\ S[k].left = k + 1 /\ S[k].func = "doorPic"
                               /\ S[k].item = d /\ S[k].arg = n - k - 1
      /\ S[n].left = n + 1 /\ S[n].func = "close" /\ S[n].item = d /\ S[n].arg = D!Block
  <2>1. Len(p) = n - 1 /\ Len(p) + 1 = n
    BY <1>1
  <2>2. \A k \in 1..(n - 1) : 2 + k - 1 = k + 1 /\ k \in 1..Len(p)
    BY <1>1
  <2> QED
    BY <1>1, <1>3, <2>1, <2>2 DEF Moves
<1>5. TurnsIn(S, d) = {n}
  <2>1. \A k \in 1..n : k = n \/ k \in 1..(n - 1)
    BY <1>1
  <2>2. n \in 1..n
    BY <1>1
  <2> QED
    BY <1>4, <2>1, <2>2 DEF TurnsIn, Turning
<1>6. PicsIn(S, d) = 1..(n - 1)
  <2>1. \A k \in 1..n : k = n \/ k \in 1..(n - 1)
    BY <1>1
  <2>2. \A k \in 1..(n - 1) : k \in 1..n
    BY <1>1
  <2> QED
    BY <1>4, <2>1, <2>2 DEF PicsIn
<1>7. Before(S, d, n)
  <2> SUFFICES ASSUME NEW s \in 1..(n - 1) PROVE S[s].left < S[n].left
    BY <1>6 DEF Before
  <2>1. S[s].left = s + 1 /\ S[n].left = n + 1
    BY <1>4
  <2> QED
    BY <1>1, <2>1
<1>8. Ends(S, d, n - 1, 0)
  <2>1. CASE n = 1
    BY <1>6, <2>1 DEF Ends
  <2>2. CASE n # 1
    <3>1. n - 1 \in PicsIn(S, d) /\ S[n - 1].arg = 0
      BY <1>1, <1>4, <1>6, <2>2
    <3>2. ASSUME NEW u \in PicsIn(S, d) \ {n - 1} PROVE S[u].left < S[n - 1].left
      <4>1. u \in 1..(n - 1) /\ n - 1 \in 1..(n - 1) /\ u < n - 1
        BY <1>1, <1>6, <3>1
      <4>2. S[u].left = u + 1 /\ S[n - 1].left = n - 1 + 1
        BY <1>4, <4>1
      <4> QED
        BY <1>1, <4>1, <4>2
    <3> QED
      BY <3>1, <3>2 DEF Ends
  <2> QED
    BY <2>1, <2>2
<1>9. n \in DOMAIN S
  BY <1>1, <1>4
<1>10. ClosesByLever(S, d, r)
  BY <1>4, <1>5, <1>7, <1>8, <1>9 DEF ClosesByLever
<1> QED
  BY <1>3, <1>10, LeverChangeIs, ScriptConcat, PrefixIdle DEF DoorOK, S

-----------------------------------------------------------------------------
LEMMA SuffixIdle ==
  ASSUME NEW A, NEW S, NEW B, Script(A, B), Script(S, B), NEW d, NEW r, NEW t,
         \A k \in 1..Len(A) : A[k].func = "pic",
         DoorOK(S, d, r, t)
  PROVE  DoorOK(S \o A, d, r, t)
<1> DEFINE E == S \o A
           f == [k \in About(S, d) |-> k]
<1>1. /\ Len(A) \in Nat /\ Len(S) \in Nat /\ DOMAIN A = 1..Len(A) /\ DOMAIN S = 1..Len(S)
  BY LenProperties DEF Script
<1>2. Joined(S, A, E)
  BY ScriptConcat
<1> HIDE DEF E
<1>3. /\ \A k \in 1..Len(S) : E[k] = S[k]
      /\ \A k \in 1..Len(A) : E[Len(S) + k] = A[k]
      /\ DOMAIN E = 1..(Len(S) + Len(A))
  BY <1>2 DEF Joined
<1>4. \A k \in About(S, d) : k \in 1..Len(S) /\ k \in DOMAIN E /\ E[k] = S[k]
  BY <1>1, <1>3 DEF About, PicsIn, TurnsIn
<1>5. f \in [About(S, d) -> DOMAIN E] /\ \A k \in About(S, d) : f[k] = k
  BY <1>4
<1> HIDE DEF f
<1>6. ASSUME NEW u \in About(E, d) PROVE u \in About(S, d)
  <2>1. u \in 1..(Len(S) + Len(A)) /\ E[u].func # "pic"
    BY <1>3 DEF About, PicsIn, TurnsIn, Turning
  <2>2. u \in 1..Len(S)
    <3> SUFFICES ASSUME ~(u <= Len(S)) PROVE FALSE
      BY <1>1, <2>1
    <3>1. u - Len(S) \in 1..Len(A) /\ Len(S) + (u - Len(S)) = u
      BY <1>1, <2>1
    <3> QED
      BY <1>3, <2>1, <3>1
  <2> QED
    BY <1>1, <1>3, <2>2 DEF About, PicsIn, TurnsIn
<1>7. DoorOK(E, d, r, t)
  BY <1>4, <1>5, <1>6, Transfer
<1> QED
  BY <1>7 DEF E

\* program_door_open of a star lever.
LEMMA StarOpensIs ==
  ASSUME NEW d \in Door
  PROVE  /\ Script(D!StarOpens(d), {d}) /\ DOMAIN D!StarOpens(d) = 1..DoorPics
         /\ \A k \in 1..(DoorPics - 1) :
              /\ D!StarOpens(d)[k].left = k + 1 /\ D!StarOpens(d)[k].func = "doorPic"
              /\ D!StarOpens(d)[k].item = d /\ D!StarOpens(d)[k].arg = k
         /\ D!StarOpens(d)[DoorPics].left = DoorPics + 1
         /\ D!StarOpens(d)[DoorPics].func = "starOpen" /\ D!StarOpens(d)[DoorPics].item = d
<1> DEFINE p == D!Upwards(DoorPics)
           S == D!StarOpens(d)
           n == DoorPics
<1>1. n \in Nat \ {0} /\ p \in Seq(Int) /\ Len(p) = n - 1 /\ \A k \in 1..(n - 1) : p[k] = k
  BY DoorsAssumption, UpAndDown DEF D!DoorsAssumption
<1>2. S = D!Animation("doorPic", d, p, 2, 1) \o <<D!Ev(n + 1, "starOpen", d, 0)>>
  BY DEF D!StarOpens
<1> HIDE DEF p, S
<1>3. Script(S, {d}) /\ Moves(S, d, p, 2, n + 1, "starOpen", 0)
  <2>1. 0 \in Value /\ "starOpen" \in Turning /\ n + 1 \in Nat /\ n + 1 >= 1
    BY <1>1 DEF Value, Turning
  <2>2. PICK l \in Nat : l = n + 1 /\ l >= 1
    BY <2>1
  <2>3. PICK first \in Nat : first = 2 /\ first >= 1
    OBVIOUS
  <2>4. /\ Script(D!Animation("doorPic", d, p, first, 1) \o <<D!Ev(l, "starOpen", d, 0)>>, {d})
        /\ Moves(D!Animation("doorPic", d, p, first, 1) \o <<D!Ev(l, "starOpen", d, 0)>>,
                 d, p, first, l, "starOpen", 0)
    BY <1>1, <2>1, <2>2, <2>3, DoorMoves
  <2> QED
    BY <1>2, <2>2, <2>3, <2>4
<1>4. /\ DOMAIN S = 1..n
      /\ \A k \in 1..(n - 1) : /\ S[k].left = k + 1 /\ S[k].func = "doorPic"
                               /\ S[k].item = d /\ S[k].arg = k
      /\ S[n].left = n + 1 /\ S[n].func = "starOpen" /\ S[n].item = d
  <2>1. Len(p) = n - 1 /\ Len(p) + 1 = n
    BY <1>1
  <2>2. \A k \in 1..(n - 1) : 2 + k - 1 = k + 1 /\ k \in 1..Len(p)
    BY <1>1
  <2> QED
    BY <1>1, <1>3, <2>1, <2>2 DEF Moves
<1> QED
  BY <1>3, <1>4 DEF S

\* program_star_blink.
LEMMA StarBlinksIs ==
  ASSUME NEW i \in DOMAIN Items, NEW B
  PROVE  /\ Script(D!StarBlinks(i), B)
         /\ \A k \in 1..Len(D!StarBlinks(i)) : D!StarBlinks(i)[k].func = "pic"
<1> DEFINE p == D!Upwards(LeverPics) \o D!Downwards(LeverPics)
<1>1. LeverPics \in Nat \ {0} /\ i \in Door \cup Nat
  BY DoorsAssumption DEF D!DoorsAssumption
<1>2. p \in Seq(Int)
  BY <1>1, UpAndDown, ConcatProperties
<1>3. D!StarBlinks(i) = D!Animation("pic", i, p, 2, 2)
  BY DEF D!StarBlinks
<1> HIDE DEF p
<1> DEFINE A == D!Animation("pic", i, p, 2, 2)
<1>4. Script(A, B) /\ Animates(A, "pic", i, p, 2, 2)
  BY <1>1, <1>2, AnimationIs
<1> HIDE DEF A
<1>5. Script(A, B) /\ \A k \in 1..Len(A) : A[k].func = "pic"
  BY <1>4 DEF Animates
<1> QED
  BY <1>3, <1>5 DEF A

\* program_door_close of a star lever: S is v sounds, the pictures from frame f on
\* and the change of the state.
StarredScript(S, d, v, f) ==
  /\ Script(S, {d}) /\ Len(S) = v + DoorPics
  /\ \A k \in 1..v : S[k].func = "sound"
  /\ \A k \in 1..(DoorPics - 1) :
       /\ S[v + k].left = f + k - 1 /\ S[v + k].func = "doorPic"
       /\ S[v + k].item = d /\ S[v + k].arg = DoorPics - k - 1
  /\ S[v + DoorPics].left = f + DoorPics - 1
  /\ S[v + DoorPics].func = "starClose" /\ S[v + DoorPics].item = d

LEMMA StarClosesIs ==
  ASSUME NEW d \in Door, OpenFor >= 0, D!ClosesLater
  PROVE  \E v \in {0, 1}, f \in Nat : f >= 3 /\ StarredScript(D!StarCloses(d), d, v, f)
<1> DEFINE p == D!Downwards(DoorPics)
           n == DoorPics
           first == IF CloseSound THEN 3 + OpenFor ELSE 2 + OpenFor
           v == IF CloseSound THEN 1 ELSE 0
           V == IF CloseSound THEN <<D!Ev(2 + OpenFor, "sound", d, 0)>> ELSE <<>>
           A == D!Animation("doorPic", d, p, first, 1)
           C == <<D!Ev(first + n - 1, "starClose", d, 0)>>
           F == V \o A
           S == F \o C
<1>1. /\ n \in Nat \ {0} /\ p \in Seq(Int) /\ Len(p) = n - 1
      /\ \A k \in 1..(n - 1) : p[k] = n - k - 1
  BY DoorsAssumption, UpAndDown DEF D!DoorsAssumption
<1>2. OpenFor \in Nat
  BY DoorsAssumption DEF D!DoorsAssumption
<1>3. D!StarCloses(d) = S
  BY DEF D!StarCloses
<1>4. Script(V, {d}) /\ Len(V) = v /\ \A k \in 1..v : V[k].func = "sound"
  <2>1. CASE CloseSound
    <3> PICK l \in Nat : l = 2 + OpenFor /\ l >= 1
      BY <1>2
    <3>1. /\ Script(<<D!Ev(l, "sound", d, 0)>>, {d}) /\ Len(<<D!Ev(l, "sound", d, 0)>>) = 1
          /\ <<D!Ev(l, "sound", d, 0)>>[1] = [left |-> l, func |-> "sound", item |-> d, arg |-> 0]
      <4>1. 0 \in Value /\ "sound" \in Funcs /\ "sound" \notin Turning \cup {"doorPic"}
        BY DEF Value, Funcs, Turning
      <4> QED
        BY <4>1, ScriptOfOne
    <3>2. \A k \in 1..1 : k = 1
      OBVIOUS
    <3> QED
      BY <2>1, <3>1, <3>2
  <2>2. CASE ~CloseSound
    BY <2>2 DEF Script
  <2> QED
    BY <2>1, <2>2
<1>5. first \in Nat /\ first >= 3 /\ v \in {0, 1}
  BY <1>2 DEF D!ClosesLater
<1> HIDE DEF first, v, V
<1>6. /\ Script(C, {d}) /\ Len(C) = 1
      /\ C[1] = [left |-> first + n - 1, func |-> "starClose", item |-> d, arg |-> 0]
  <2> PICK l \in Nat : l = first + n - 1 /\ l >= 1
    BY <1>1, <1>5
  <2>1. /\ Script(<<D!Ev(l, "starClose", d, 0)>>, {d}) /\ Len(<<D!Ev(l, "starClose", d, 0)>>) = 1
        /\ <<D!Ev(l, "starClose", d, 0)>>[1] = [left |-> l, func |-> "starClose", item |-> d, arg |-> 0]
    <3>1. 0 \in Value /\ "starClose" \in Funcs
      BY DEF Value, Funcs, Turning
    <3> QED
      BY <3>1, ScriptOfOne
  <2> QED
    BY <2>1
<1> HIDE DEF p
<1>7. Script(A, {d}) /\ Animates(A, "doorPic", d, p, first, 1)
  BY <1>1, <1>5, AnimationIs
<1> HIDE DEF A, C
<1>8. Script(F, {d}) /\ Joined(V, A, F)
  BY <1>4, <1>7, ScriptConcat
<1> HIDE DEF F
<1>9. Script(S, {d}) /\ Joined(F, C, S)
  BY <1>6, <1>8, ScriptConcat
<1> HIDE DEF S
<1>10. Len(A) = n - 1 /\ Len(F) = v + n - 1 /\ Len(S) = v + n
  BY <1>1, <1>4, <1>5, <1>6, <1>7, <1>8, <1>9 DEF Joined, Animates
<1>11. ASSUME NEW k \in 1..v PROVE S[k].func = "sound"
  <2>1. k \in 1..Len(V) /\ k \in 1..Len(F)
    BY <1>1, <1>4, <1>5, <1>10
  <2> QED
    BY <1>4, <1>8, <1>9, <2>1 DEF Joined
<1>12. S[v + n] = C[1]
  <2>1. 1 \in 1..Len(C) /\ Len(F) + 1 = v + n
    BY <1>1, <1>5, <1>6, <1>10
  <2> QED
    BY <1>9, <2>1 DEF Joined
<1>13. ASSUME NEW k \in 1..(n - 1)
       PROVE  /\ S[v + k].left = first + k - 1 /\ S[v + k].func = "doorPic"
              /\ S[v + k].item = d /\ S[v + k].arg = n - k - 1
  <2>1. k \in 1..Len(A) /\ k \in 1..Len(p) /\ v + k \in 1..Len(F)
    BY <1>1, <1>5, <1>10
  <2>2. S[v + k] = F[v + k]
    BY <1>9, <2>1 DEF Joined
  <2>3. F[v + k] = A[k]
    BY <1>4, <1>8, <2>1 DEF Joined
  <2>4. /\ A[k].left = first + 1 * (k - 1) /\ A[k].func = "doorPic" /\ A[k].item = d
        /\ A[k].arg = p[k]
    BY <1>7, <2>1 DEF Animates
  <2>5. first + 1 * (k - 1) = first + k - 1
    BY <1>5
  <2> QED
    BY <1>1, <2>1, <2>2, <2>3, <2>4, <2>5
<1>14. StarredScript(S, d, v, first)
  BY <1>6, <1>9, <1>10, <1>11, <1>12, <1>13 DEF StarredScript
<1> QED
  BY <1>3, <1>5, <1>14

LEMMA StarForEver ==
  ASSUME NEW i \in DOMAIN Items, NEW d \in Door, NEW r, NEW t,
         r.state = D!Moving, t = D!Block, r.pic = 0
  PROVE  /\ Script(D!StarOpens(d) \o D!StarBlinks(i) \o <<>>, {d})
         /\ DoorOK(D!StarOpens(d) \o D!StarBlinks(i) \o <<>>, d, r, t)
<1> DEFINE S == D!StarOpens(d)
           A == D!StarBlinks(i)
           n == DoorPics
           X == S \o A
<1>1. n \in Nat \ {0}
  BY DoorsAssumption DEF D!DoorsAssumption
<1>2. /\ Script(S, {d}) /\ DOMAIN S = 1..n
      /\ \A k \in 1..(n - 1) : /\ S[k].left = k + 1 /\ S[k].func = "doorPic"
                               /\ S[k].item = d /\ S[k].arg = k
      /\ S[n].left = n + 1 /\ S[n].func = "starOpen" /\ S[n].item = d
  BY StarOpensIs
<1>3. Script(A, {d}) /\ \A k \in 1..Len(A) : A[k].func = "pic"
  BY StarBlinksIs
<1> HIDE DEF S, A
<1>4. TurnsIn(S, d) = {n} /\ PicsIn(S, d) = 1..(n - 1)
  <2>1. \A k \in 1..n : k = n \/ k \in 1..(n - 1)
    BY <1>1
  <2>2. n \in 1..n /\ \A k \in 1..(n - 1) : k \in 1..n
    BY <1>1
  <2>3. TurnsIn(S, d) = {n}
    BY <1>2, <2>1, <2>2 DEF TurnsIn, Turning
  <2>4. PicsIn(S, d) = 1..(n - 1)
    BY <1>2, <2>1, <2>2 DEF PicsIn
  <2> QED
    BY <2>3, <2>4
<1>5. Before(S, d, n)
  BY <1>1, <1>2, <1>4 DEF Before
<1>6. Ends(S, d, 0, n - 1)
  <2>1. CASE n = 1
    BY <1>4, <2>1 DEF Ends
  <2>2. CASE n # 1
    <3>1. n - 1 \in PicsIn(S, d) /\ S[n - 1].arg = n - 1
      BY <1>1, <1>2, <1>4, <2>2
    <3>2. ASSUME NEW u \in PicsIn(S, d) \ {n - 1} PROVE S[u].left < S[n - 1].left
      <4>1. u \in 1..(n - 1) /\ n - 1 \in 1..(n - 1) /\ u < n - 1
        BY <1>1, <1>4, <3>1
      <4>2. S[u].left = u + 1 /\ S[n - 1].left = n - 1 + 1
        BY <1>2, <4>1
      <4> QED
        BY <1>1, <4>1, <4>2
    <3> QED
      BY <3>1, <3>2 DEF Ends
  <2> QED
    BY <2>1, <2>2
<1>7. n \in DOMAIN S
  BY <1>1, <1>2
<1>8. DoorOK(S, d, r, t)
  BY <1>2, <1>4, <1>5, <1>6, <1>7 DEF OpensForEver, DoorOK
<1>9. Script(X, {d}) /\ DoorOK(X, d, r, t)
  BY <1>2, <1>3, <1>8, SuffixIdle, ScriptConcat
<1> HIDE DEF X
<1>10. X \o <<>> = X
  BY <1>9, ConcatEmptySeq DEF Script
<1> QED
  BY <1>9, <1>10 DEF X, S, A

LEMMA StarForAWhile ==
  ASSUME NEW i \in DOMAIN Items, NEW d \in Door, NEW r, NEW t,
         r.state = D!Moving, t = D!Block, r.pic = 0, Starred(d), D!ClosesLater
  PROVE  /\ Script(D!StarOpens(d) \o D!StarBlinks(i) \o D!StarCloses(d), {d})
         /\ DoorOK(D!StarOpens(d) \o D!StarBlinks(i) \o D!StarCloses(d), d, r, t)
<1> DEFINE S == D!StarOpens(d)
           A == D!StarBlinks(i)
           C == D!StarCloses(d)
           n == DoorPics
           X == S \o A
           E == X \o C
<1>1. n \in Nat \ {0} /\ OpenFor \in Nat
  BY DoorsAssumption DEF D!DoorsAssumption, Starred
<1>2. /\ Script(S, {d}) /\ DOMAIN S = 1..n
      /\ \A k \in 1..(n - 1) : /\ S[k].left = k + 1 /\ S[k].func = "doorPic"
                               /\ S[k].item = d /\ S[k].arg = k
      /\ S[n].left = n + 1 /\ S[n].func = "starOpen" /\ S[n].item = d
  BY StarOpensIs
<1>3. Script(A, {d}) /\ \A k \in 1..Len(A) : A[k].func = "pic"
  BY StarBlinksIs
<1>4. PICK v \in {0, 1}, f \in Nat : f >= 3 /\ StarredScript(C, d, v, f)
  BY <1>1, StarClosesIs
<1> HIDE DEF S, A, C
<1>5. Len(S) = n
  <2>1. DOMAIN S = 1..Len(S) /\ Len(S) \in Nat
    BY <1>2, LenProperties DEF Script
  <2> QED
    BY <1>1, <1>2, <2>1
<1>6. Script(X, {d}) /\ Joined(S, A, X)
  BY <1>2, <1>3, ScriptConcat
<1> HIDE DEF X
<1>7. Script(E, {d}) /\ Joined(X, C, E)
  BY <1>4, <1>6, ScriptConcat DEF StarredScript
<1> HIDE DEF E
<1> DEFINE m == Len(X) + v
<1>8. /\ m \in Nat /\ Len(X) \in Nat /\ n <= Len(X) /\ Len(C) = v + n
      /\ DOMAIN E = 1..(m + n) /\ Len(X) <= m
  <2>1. Len(X) = n + Len(A) /\ Len(A) \in Nat
    BY <1>5, <1>6 DEF Joined
  <2>2. Len(C) = v + n /\ DOMAIN E = 1..(Len(X) + (v + n))
    BY <1>4, <1>7 DEF Joined, StarredScript
  <2> QED
    BY <1>1, <2>1, <2>2
<1>9. /\ \A k \in 1..n : E[k] = S[k]
      /\ \A k \in (n + 1)..Len(X) : E[k].func = "pic"
      /\ \A k \in 1..(v + n) : E[Len(X) + k] = C[k]
  <2>1. \A k \in 1..Len(X) : E[k] = X[k]
    BY <1>7 DEF Joined
  <2>2. \A k \in 1..n : X[k] = S[k] /\ k \in 1..Len(X)
    BY <1>1, <1>5, <1>6, <1>8 DEF Joined
  <2>3. ASSUME NEW k \in (n + 1)..Len(X) PROVE E[k].func = "pic"
    <3>1. k \in 1..Len(X) /\ k - n \in 1..Len(A) /\ n + (k - n) = k
      BY <1>1, <1>5, <1>6, <1>8 DEF Joined
    <3>2. X[n + (k - n)] = A[k - n]
      BY <1>5, <1>6, <3>1 DEF Joined
    <3> QED
      BY <1>3, <2>1, <3>1, <3>2
  <2>4. \A k \in 1..(v + n) : E[Len(X) + k] = C[k]
    BY <1>7, <1>8 DEF Joined
  <2> QED
    BY <2>1, <2>2, <2>3, <2>4
<1>10. \A k \in 1..(n - 1) : /\ E[k].left = k + 1 /\ E[k].func = "doorPic"
  BY <1>1, <1>2, <1>9
<1>11. E[n].left = n + 1 /\ E[n].func = "starOpen" /\ E[n].item = d
  BY <1>1, <1>2, <1>9
<1>12. ASSUME NEW s \in (n + 1)..m PROVE E[s].func \in {"pic", "sound"}
  <2>1. CASE s <= Len(X)
    BY <1>1, <1>8, <1>9, <2>1
  <2>2. CASE ~(s <= Len(X))
    <3>1. s - Len(X) \in 1..v /\ s - Len(X) \in 1..(v + n) /\ Len(X) + (s - Len(X)) = s
      BY <1>1, <1>8, <2>2
    <3>2. E[s] = C[s - Len(X)]
      BY <1>9, <3>1
    <3> QED
      BY <1>4, <3>1, <3>2 DEF StarredScript
  <2> QED
    BY <2>1, <2>2
<1>13. ASSUME NEW k \in 1..(n - 1)
       PROVE  /\ E[m + k].left = f + k - 1 /\ E[m + k].func = "doorPic"
              /\ E[m + k].item = d /\ E[m + k].arg = n - k - 1
  <2>1. v + k \in 1..(v + n) /\ Len(X) + (v + k) = m + k
    BY <1>1, <1>8
  <2>2. E[m + k] = C[v + k]
    BY <1>9, <2>1
  <2> QED
    BY <1>4, <2>2 DEF StarredScript
<1>14. /\ E[m + n].left = f + n - 1 /\ E[m + n].func = "starClose"
       /\ E[m + n].item = d
  <2>1. v + n \in 1..(v + n) /\ Len(X) + (v + n) = m + n
    BY <1>1, <1>8
  <2>2. E[m + n] = C[v + n]
    BY <1>9, <2>1
  <2> QED
    BY <1>4, <2>2 DEF StarredScript
<1>a. m \in Nat /\ n <= m /\ DOMAIN E = 1..(m + n)
  BY <1>1, <1>8
<1> HIDE DEF m
\* Where a slot of E is.
<1>15. \A s \in 1..(m + n) :
         \/ s \in 1..(n - 1) \/ s = n \/ s \in (n + 1)..m \/ s = m + n
         \/ \E k \in 1..(n - 1) : s = m + k
  <2> SUFFICES ASSUME NEW s \in 1..(m + n), ~(s \in 1..m), s # m + n
               PROVE  \E k \in 1..(n - 1) : s = m + k
    BY <1>1, <1>a
  <2>1. s - m \in 1..(n - 1) /\ s = m + (s - m)
    BY <1>1, <1>a
  <2> QED
    BY <2>1
<1>16. ASSUME NEW s \in PicsIn(E, d)
       PROVE  (s \in 1..(n - 1) /\ E[s].left = s + 1)
              \/ \E k \in 1..(n - 1) : s = m + k /\ E[s].left = f + k - 1
  <2>1. s \in 1..(m + n) /\ E[s].func = "doorPic"
    BY <1>a DEF PicsIn
  <2> QED
    BY <1>10, <1>11, <1>12, <1>13, <1>14, <1>15, <2>1
<1>17. TurnsIn(E, d) = {n, m + n}
  <2>1. ASSUME NEW s \in TurnsIn(E, d) PROVE s \in {n, m + n}
    <3>1. s \in 1..(m + n) /\ E[s].func \in Turning
      BY <1>a DEF TurnsIn
    <3> QED
      BY <1>10, <1>11, <1>12, <1>13, <1>14, <1>15, <3>1 DEF Turning
  <2>2. n \in 1..(m + n) /\ m + n \in 1..(m + n)
    BY <1>1, <1>a
  <2> QED
    BY <1>a, <1>11, <1>14, <2>1, <2>2 DEF TurnsIn, Turning
<1>18. Before(E, d, m + n)
  <2> SUFFICES ASSUME NEW s \in PicsIn(E, d) PROVE E[s].left < f + n - 1
    BY <1>14 DEF Before
  <2> QED
    BY <1>1, <1>4, <1>16
<1>19. Ends(E, d, 0, 0)
  <2>1. CASE n = 1
    <3>1. PicsIn(E, d) = {}
      BY <1>16, <2>1
    <3> QED
      BY <3>1 DEF Ends
  <2>2. CASE n # 1
    <3>1. /\ n - 1 \in 1..(n - 1) /\ n - (n - 1) - 1 = 0 /\ f + (n - 1) - 1 = f + n - 2
          /\ m + (n - 1) \in 1..(m + n)
      BY <1>1, <1>a, <2>2
    <3> PICK l : l = m + (n - 1)
      OBVIOUS
    <3>2. l \in PicsIn(E, d) /\ E[l].arg = 0 /\ E[l].left = f + n - 2
      BY <1>a, <1>13, <3>1 DEF PicsIn
    <3>3. ASSUME NEW u \in PicsIn(E, d) \ {l} PROVE E[u].left < f + n - 2
      <4>1. CASE u \in 1..(n - 1) /\ E[u].left = u + 1
        BY <1>1, <1>4, <4>1
      <4>2. CASE \E k \in 1..(n - 1) : u = m + k /\ E[u].left = f + k - 1
        <5> PICK k \in 1..(n - 1) : u = m + k /\ E[u].left = f + k - 1
          BY <4>2
        <5>1. k # n - 1
          BY <3>1, <3>3
        <5> QED
          BY <1>1, <5>1
      <4> QED
        BY <1>16, <4>1, <4>2
    <3> QED
      BY <3>2, <3>3 DEF Ends
  <2> QED
    BY <2>1, <2>2
<1>20. DoorOK(E, d, r, t)
  <2>1. n \in DOMAIN E /\ m + n \in DOMAIN E /\ E[n].left < E[m + n].left
    BY <1>1, <1>4, <1>a, <1>11, <1>14
  <2> QED
    BY <1>11, <1>14, <1>17, <1>18, <1>19, <2>1 DEF OpensByStar, DoorOK
<1> QED
  BY <1>7, <1>20 DEF E, X, S, A, C

\* Eyes open, and close again; no door is asked.
LEMMA EyesScript ==
  ASSUME NEW i \in DOMAIN Items
  PROVE  Script(D!EyesOpen(i), {})
<1>1. LeverPics \in Nat \ {0} /\ i \in Door \cup Nat /\ EyesFor \in Int
  BY DoorsAssumption DEF D!DoorsAssumption
<1>2. Script(D!Animation("pic", i, D!Upwards(LeverPics), 2, 1), {})
  <2> DEFINE p == D!Upwards(LeverPics)
  <2>1. p \in Seq(Int)
    BY <1>1, UpAndDown
  <2> HIDE DEF p
  <2>2. Script(D!Animation("pic", i, p, 2, 1), {})
    BY <1>1, <2>1, AnimationIs
  <2> QED
    BY <2>2 DEF p
<1>3. CASE EyesFor <= 0
  <2>1. Script(<<>>, {})
    BY DEF Script
  <2> QED
    BY <1>2, <1>3, <2>1, ScriptConcat DEF D!EyesOpen
<1>4. CASE ~(EyesFor <= 0)
  <2> DEFINE p == D!Downwards(LeverPics + 1)
  <2>1. p \in Seq(Int)
    <3>1. LeverPics + 1 \in Nat \ {0}
      BY <1>1
    <3> QED
      BY <3>1, UpAndDown
  <2> HIDE DEF p
  <2>2. Script(D!Animation("pic", i, p, 1 + LeverPics + EyesFor, 1), {})
    <3> PICK first \in Nat : first = 1 + LeverPics + EyesFor /\ first >= 1
      BY <1>1, <1>4
    <3>1. Script(D!Animation("pic", i, p, first, 1), {})
      BY <1>1, <2>1, AnimationIs
    <3> QED
      BY <3>1
  <2>3. Script(<<D!Ev(1 + 2 * LeverPics + EyesFor, "sleep", i, 0)>>, {})
    <3> PICK l \in Nat : l = 1 + 2 * LeverPics + EyesFor /\ l >= 1
      BY <1>1, <1>4
    <3>1. 0 \in Value /\ "sleep" \in Funcs /\ "sleep" \notin Turning \cup {"doorPic"}
      BY DEF Value, Funcs, Turning
    <3>2. Script(<<D!Ev(l, "sleep", i, 0)>>, {})
      BY <1>1, <3>1, ScriptOfOne
    <3> QED
      BY <3>2
  <2> QED
    BY <1>2, <1>4, <2>2, <2>3, ScriptConcat DEF D!EyesOpen, p
<1> QED
  BY <1>3, <1>4

-----------------------------------------------------------------------------
LEMMA NoneIdle ==
  ASSUME NEW ev, NonePending(ev), NEW d
  PROVE  Idle(ev, d) /\ Due(ev)
BY DEF NonePending, Idle, PicsIn, TurnsIn, Turning, Due

\* All slots are free: server_end_game and handle_map_change.
LEMMA Freed ==
  ASSUME NEW ev \in Seq(Event)
  PROVE  [s \in DOMAIN ev |-> D!NoEvent] \in Seq(Event) /\ NonePending([s \in DOMAIN ev |-> D!NoEvent])
<1>1. DOMAIN ev = 1..Len(ev) /\ Len(ev) \in Nat
  BY LenProperties
<1> QED
  BY <1>1, NoEventIs DEF NonePending

\* A map that was loaded: all doors are closed.
LEMMA NewDoorsClosed ==
  ASSUME NEW ev, NonePending(ev), NEW d \in Door
  PROVE  /\ DoorOK(ev, d, D!NewDoors[d], D!NewTiles[d])
         /\ Abandoned(D!NewDoors[d], D!NewTiles[d])
BY NoneIdle DEF DoorOK, IsClosed, D!NewDoors, D!NewTiles, D!NoDoor, Abandoned, D!Closed, D!Open

LEMMA NewTypes ==
  /\ D!NewDoors \in [Door -> DoorRecord] /\ D!NewTiles \in [Door -> Value]
  /\ D!NewPics \in [DOMAIN Items -> Value]
BY DEF D!NewDoors, D!NewTiles, D!NewPics, D!NoDoor, DoorRecord, Value, States

LEMMA DoorsInit == D!Init => DoorsIInv
<1> SUFFICES ASSUME D!Init PROVE DoorsIInv
  OBVIOUS
<1>1. event = <<>> /\ event \in Seq(Event) /\ Due(event) /\ NonePending(event)
  BY DEF D!Init, Due, NonePending
<1>2. DoorTypes
  BY <1>1, NewTypes DEF D!Init, DoorTypes
<1> QED
  BY <1>1, <1>2 DEF D!Init, DoorsIInv

LEMMA StartGameKeeps == DoorsIInv /\ D!StartGame => DoorsIInv'
<1> SUFFICES ASSUME DoorsIInv, D!StartGame PROVE DoorsIInv'
  OBVIOUS
<1>1. /\ pc = "lobby" /\ pc' = "keys" /\ event' = event /\ changeMap' = changeMap
      /\ door' = D!NewDoors /\ tile' = D!NewTiles /\ pic' = D!NewPics /\ awake' = {}
      /\ using' = using /\ passed' = passed
  BY DEF D!StartGame, D!jacks
<1>2. NonePending(event) /\ Due(event)
  BY <1>1 DEF DoorsIInv
<1>3. DoorTypes'
  BY <1>1, NewTypes DEF DoorsIInv, DoorTypes
<1>4. \A d \in Door : /\ DoorOK(event', d, door'[d], tile'[d])
                      /\ Abandoned(door'[d], tile'[d])
  BY <1>1, <1>2, NewDoorsClosed
<1> QED
  BY <1>1, <1>2, <1>3, <1>4 DEF DoorsIInv

LEMMA EndGameKeeps == DoorsIInv /\ D!EndGame => DoorsIInv'
<1> SUFFICES ASSUME DoorsIInv, D!EndGame PROVE DoorsIInv'
  OBVIOUS
<1>1. /\ pc' = "lobby" /\ event' = [s \in DOMAIN event |-> D!NoEvent] /\ changeMap' = changeMap
      /\ door' = door /\ tile' = tile /\ pic' = pic /\ awake' = awake
      /\ using' = using /\ passed' = passed
  BY DEF D!EndGame, D!jacks, D!Slots
<1>2. event' \in Seq(Event) /\ NonePending(event')
  BY <1>1, Freed DEF DoorsIInv, DoorTypes
<1>3. Due(event')
  BY <1>2 DEF NonePending, Due
<1>4. DoorTypes'
  BY <1>1, <1>2 DEF DoorsIInv, DoorTypes
<1> QED
  BY <1>1, <1>2, <1>3, <1>4 DEF DoorsIInv

LEMMA OKAbandoned ==
  ASSUME NEW ev, NEW d, NEW r, NEW t, DoorOK(ev, d, r, t)
  PROVE  Abandoned(r, t)
BY DEF DoorOK, IsClosed, IsOpen, Jammed, OpensByLever, ClosesByLever, OpensForEver, OpensByStar,
       ClosesByStar, Abandoned, D!Closed, D!Open, D!Moving

LEMMA KeysKeeps == DoorsIInv /\ D!Keys => DoorsIInv'
<1> SUFFICES ASSUME DoorsIInv, D!Keys PROVE DoorsIInv'
  OBVIOUS
<1>1. pc = "keys" /\ passed' = [j \in Player |-> 0]
  BY DEF D!Keys
<1>2. IF changeMap' = 0 THEN pc' = "items" /\ cur' = 1 ELSE pc' = "keys" /\ cur' = cur
  BY DEF D!Keys
<1>3. \A j \in Player : passed'[j] = 0
  BY <1>1
<1>4. 1 \in 1..(Len(Items) + 1) /\ passed' \in [Player -> Nat]
  <2>1. Len(Items) \in Nat
    BY DoorsAssumption DEF D!DoorsAssumption
  <2> QED
    BY <1>1, <2>1
<1>5. CASE changeMap = 2 /\ D!RemoveObjects
  <2>1. /\ changeMap' = 1 /\ event' = [s \in DOMAIN event |-> D!NoEvent]
        /\ door' = door /\ tile' = tile /\ pic' = pic /\ awake' = awake
    BY <1>5 DEF D!RemoveObjects, D!Slots
  <2>2. event' \in Seq(Event) /\ NonePending(event')
    BY <2>1, Freed DEF DoorsIInv, DoorTypes
  <2>3. Due(event')
    BY <2>2 DEF NonePending, Due
  <2>4. DoorTypes'
    BY <1>1, <1>2, <1>4, <2>1, <2>2 DEF DoorsIInv, DoorTypes
  <2>5. \A d \in Door : Abandoned(door'[d], tile'[d])
    BY <1>1, <1>5, <2>1, OKAbandoned DEF DoorsIInv
  <2> QED
    BY <1>2, <1>3, <2>1, <2>2, <2>3, <2>4, <2>5 DEF DoorsIInv
<1>6. CASE changeMap = 1 /\ D!CreateObjects
  <2>1. /\ changeMap' = 0 /\ event' = event
        /\ door' = D!NewDoors /\ tile' = D!NewTiles /\ pic' = D!NewPics /\ awake' = {}
    BY <1>6 DEF D!CreateObjects
  <2>2. NonePending(event) /\ Due(event)
    BY <1>6 DEF DoorsIInv
  <2>3. DoorTypes'
    BY <1>1, <1>2, <1>4, <2>1, NewTypes DEF DoorsIInv, DoorTypes
  <2>4. \A d \in Door : DoorOK(event', d, door'[d], tile'[d])
    BY <2>1, <2>2, NewDoorsClosed
  <2> QED
    BY <1>2, <1>3, <1>4, <2>1, <2>2, <2>3, <2>4 DEF DoorsIInv
<1>7. CASE changeMap = 0 /\ UNCHANGED <<D!level, changeMap>>
  <2>1. /\ changeMap' = 0 /\ event' = event
        /\ door' = door /\ tile' = tile /\ pic' = pic /\ awake' = awake
    BY <1>7 DEF D!level
  <2>2. DoorTypes'
    BY <1>1, <1>2, <1>4, <2>1 DEF DoorsIInv, DoorTypes
  <2> QED
    BY <1>1, <1>2, <1>3, <1>4, <1>7, <2>1, <2>2 DEF DoorsIInv
<1> QED
  BY <1>5, <1>6, <1>7 DEF D!Keys

\* What an item does that schedules events, at most for the door d.
LEMMA ItemKeeps ==
  ASSUME DoorsIInv, pc = "items", changeMap = 0,
         pc' = pc, cur' = cur, changeMap' = changeMap, using' = using, passed' = passed,
         tile' = tile, pic' = pic, awake' \in SUBSET DOMAIN Items,
         NEW E, NEW B, Script(E, B), event' = D!AddEvents(event, E),
         door' \in [Door -> DoorRecord],
         \A d \in Door \ B : door'[d] = door[d],
         \A d \in Door \cap B : Idle(event, d) /\ DoorOK(E, d, door'[d], tile[d])
  PROVE  DoorsIInv'
<1>1. event \in Seq(Event) /\ Due(event) /\ \A d \in Door : DoorOK(event, d, door[d], tile[d])
  BY DEF DoorsIInv, DoorTypes
<1>2. Scheduled(event, E, B, event')
  BY <1>1, ScriptScheduled
<1>3. event' \in Seq(Event) /\ Due(event')
  BY <1>2 DEF Scheduled
<1>4. ASSUME NEW d \in Door PROVE DoorOK(event', d, door'[d], tile'[d])
  <2>1. CASE d \in B
    BY <1>2, <2>1 DEF Scheduled
  <2>2. CASE d \notin B
    BY <1>1, <1>2, <2>2 DEF Scheduled
  <2> QED
    BY <2>1, <2>2
<1>5. DoorTypes'
  BY <1>3 DEF DoorsIInv, DoorTypes
<1> QED
  BY <1>3, <1>4, <1>5 DEF DoorsIInv

LEMMA LeverKeeps ==
  ASSUME DoorsIInv, pc = "items", NEW i \in DOMAIN Items, Items[i].kind = "lever", D!LeverItem(i),
         pc' = pc, cur' = cur, changeMap' = changeMap, using' = using, passed' = passed
  PROVE  DoorsIInv'
<1> PICK d : d = Items[i].door
  OBVIOUS
<1>1. d \in Door /\ D!OwnLevers /\ OpenFor \in Int
  BY DoorsAssumption DEF D!DoorsAssumption
<1>2. /\ changeMap = 0 /\ door[d].state # D!Moving /\ tile' = tile /\ pic' = pic /\ awake' = awake
      /\ d \notin Outside
  BY DEF D!LeverItem
<1>3. /\ door[d] \in DoorRecord /\ DoorOK(event, d, door[d], tile[d])
      /\ door \in [Door -> DoorRecord] /\ awake \in SUBSET DOMAIN Items
  BY <1>1, <1>2 DEF DoorsIInv, DoorTypes
<1>4. \A r \in DoorRecord : /\ [r EXCEPT !.state = D!Moving] \in DoorRecord
                            /\ [r EXCEPT !.state = D!Moving, !.data = D!Block] \in DoorRecord
  BY DEF DoorRecord, States, Value
<1>5. CASE door[d].state = D!Closed
  <2>1. IsClosed(event, d, door[d], tile[d])
    BY <1>3, <1>5 DEF DoorOK, IsOpen, Jammed, OpensByLever, ClosesByLever, OpensForEver, OpensByStar,
       ClosesByStar, D!Closed, D!Open, D!Moving
  <2>2. /\ event' = D!AddEvents(event, D!LeverChange(i) \o D!LeverOpens(d))
        /\ door' = [door EXCEPT ![d].state = D!Moving, ![d].data = tile[d]]
    BY <1>5 DEF D!LeverItem
  <2>3. /\ door'[d].state = D!Moving /\ door'[d].data = D!Block /\ door'[d].pic = 0
        /\ \A e \in Door \ {d} : door'[e] = door[e]
    BY <1>1, <1>3, <2>1, <2>2 DEF IsClosed, DoorRecord
  <2>4. door' \in [Door -> DoorRecord]
    <3>1. tile[d] = D!Block
      BY <2>1 DEF IsClosed
    <3>2. [door EXCEPT ![d].state = D!Moving, ![d].data = D!Block] \in [Door -> DoorRecord]
      BY <1>3, <1>4
    <3> QED
      BY <2>2, <3>1, <3>2
  <2>5. /\ Script(D!LeverChange(i) \o D!LeverOpens(d), {d})
        /\ DoorOK(D!LeverChange(i) \o D!LeverOpens(d), d, door'[d], tile[d])
    BY <1>1, <2>3, LeverOpensIs
  <2>6. Idle(event, d)
    BY <2>1 DEF IsClosed
  <2>7. event' = D!AddEvents(event, D!LeverChange(i) \o D!LeverOpens(d))
    BY <2>2
  <2> QED
    BY <1>2, <1>3, <2>3, <2>4, <2>5, <2>6, <2>7, ItemKeeps
<1>6. CASE door[d].state # D!Closed
  <2>1. ~Starred(d)
    <3>1. ASSUME NEW s \in DOMAIN Items, Items[s].kind = "star", Items[s].door = d, OpenFor >= 0
          PROVE  FALSE
      BY <1>1, <1>2, <3>1 DEF D!OwnLevers
    <3> QED
      BY <3>1 DEF Starred
  <2>2. IsOpen(event, d, door[d], tile[d])
    BY <1>2, <1>3, <1>6, <2>1 DEF DoorOK, IsClosed, Jammed, OpensByLever, ClosesByLever, OpensForEver, OpensByStar,
       ClosesByStar, D!Closed, D!Open, D!Moving
  <2>3. /\ event' = D!AddEvents(event, D!LeverChange(i) \o D!LeverCloses(d))
        /\ door' = [door EXCEPT ![d].state = D!Moving]
    BY <1>6 DEF D!LeverItem
  <2>4. /\ door'[d].state = D!Moving /\ door'[d].pic = DoorPics - 1
        /\ \A e \in Door \ {d} : door'[e] = door[e]
    BY <1>1, <1>3, <2>2, <2>3 DEF IsOpen, DoorRecord
  <2>5. door' \in [Door -> DoorRecord]
    <3>1. [door EXCEPT ![d].state = D!Moving] \in [Door -> DoorRecord]
      BY <1>3, <1>4
    <3> QED
      BY <2>3, <3>1
  <2>6. door[d].data = D!Block /\ Idle(event, d)
    BY <2>2 DEF IsOpen
  <2>7. /\ Script(D!LeverChange(i) \o D!LeverCloses(d), {d})
        /\ DoorOK(D!LeverChange(i) \o D!LeverCloses(d), d, door'[d], tile[d])
    BY <1>1, <2>4, <2>6, LeverClosesIs
  <2> QED
    BY <1>2, <1>3, <2>3, <2>4, <2>5, <2>6, <2>7, ItemKeeps
<1> QED
  BY <1>5, <1>6

LEMMA StarKeeps ==
  ASSUME D!ClosesLater, DoorsIInv, pc = "items", NEW i \in DOMAIN Items, Items[i].kind = "star", D!StarItem(i),
         pc' = pc, cur' = cur, changeMap' = changeMap, using' = using, passed' = passed
  PROVE  DoorsIInv'
<1> PICK d : d = Items[i].door
  OBVIOUS
<1> DEFINE E == D!StarOpens(d) \o D!StarBlinks(i) \o (IF OpenFor >= 0 THEN D!StarCloses(d) ELSE <<>>)
<1>1. d \in Door /\ OpenFor \in Int
  BY DoorsAssumption DEF D!DoorsAssumption
<1>2. /\ changeMap = 0 /\ door[d].state = D!Closed /\ tile' = tile /\ pic' = pic /\ awake' = awake
      /\ door' = [door EXCEPT ![d].state = D!Moving]
      /\ event' = event \/ event' = D!AddEvents(event, E)
  BY DEF D!StarItem
<1>3. /\ door[d] \in DoorRecord /\ DoorOK(event, d, door[d], tile[d])
      /\ door \in [Door -> DoorRecord] /\ awake \in SUBSET DOMAIN Items
  BY <1>1, <1>2 DEF DoorsIInv, DoorTypes
<1>4. IsClosed(event, d, door[d], tile[d])
  BY <1>2, <1>3 DEF DoorOK, IsOpen, Jammed, OpensByLever, ClosesByLever, OpensForEver, OpensByStar, ClosesByStar,
     D!Closed, D!Open, D!Moving
<1>5. /\ door'[d].state = D!Moving /\ door'[d].pic = 0 /\ tile[d] = D!Block
      /\ \A e \in Door \ {d} : door'[e] = door[e]
  BY <1>1, <1>2, <1>3, <1>4 DEF IsClosed, DoorRecord
<1>6. door' \in [Door -> DoorRecord]
  <2>1. \A r \in DoorRecord : [r EXCEPT !.state = D!Moving] \in DoorRecord
    BY DEF DoorRecord, States
  <2>2. [door EXCEPT ![d].state = D!Moving] \in [Door -> DoorRecord]
    BY <1>3, <2>1
  <2> QED
    BY <1>2, <2>2
<1>7. Script(E, {d}) /\ DoorOK(E, d, door'[d], tile[d])
  <2>1. CASE OpenFor >= 0
    <3>1. Starred(d)
      BY <2>1 DEF Starred
    <3> QED
      BY <1>1, <1>5, <2>1, <3>1, StarForAWhile
  <2>2. CASE ~(OpenFor >= 0)
    BY <1>1, <1>5, <2>2, StarForEver
  <2> QED
    BY <2>1, <2>2
<1>8. Idle(event, d)
  BY <1>4 DEF IsClosed
<1> HIDE DEF E
<1>9. CASE event' = D!AddEvents(event, E)
  BY <1>2, <1>3, <1>5, <1>6, <1>7, <1>8, <1>9, ItemKeeps
<1>10. CASE event' = event
  <2>1. DoorTypes'
    BY <1>2, <1>6, <1>10 DEF DoorsIInv, DoorTypes
  <2>2. ASSUME NEW e \in Door PROVE DoorOK(event', e, door'[e], tile'[e])
    <3>1. CASE e = d
      BY <1>5, <1>8, <1>10, <3>1 DEF DoorOK, Jammed
    <3>2. CASE e # d
      BY <1>2, <1>5, <1>10, <3>2 DEF DoorsIInv
    <3> QED
      BY <3>1, <3>2
  <2> QED
    BY <1>2, <1>10, <2>1, <2>2 DEF DoorsIInv
<1> QED
  BY <1>2, <1>9, <1>10

LEMMA EyesKeep ==
  ASSUME DoorsIInv, pc = "items", NEW i \in DOMAIN Items, D!EyesItem(i),
         pc' = pc, cur' = cur, changeMap' = changeMap, using' = using, passed' = passed
  PROVE  DoorsIInv'
<1>1. /\ changeMap = 0 /\ door' = door /\ tile' = tile /\ pic' = pic /\ awake' = awake \cup {i}
      /\ event' = D!AddEvents(event, D!EyesOpen(i))
  BY DEF D!EyesItem
<1>2. Script(D!EyesOpen(i), {})
  BY EyesScript
<1>3. door' \in [Door -> DoorRecord] /\ awake' \in SUBSET DOMAIN Items
  BY <1>1 DEF DoorsIInv, DoorTypes
<1> QED
  BY <1>1, <1>2, <1>3, ItemKeeps

\* An item is offered to a jack.
LEMMA OfferKeeps ==
  ASSUME D!ClosesLater, DoorsIInv, NEW j \in Player, D!Offer(j)
  PROVE  DoorsIInv'
<1>1. pc = "items" /\ cur \in DOMAIN Items /\ pc' = pc /\ cur' = cur
  <2>1. pc = "items" /\ cur <= Len(Items) /\ pc' = pc /\ cur' = cur
    BY DEF D!Offer
  <2>2. cur \in 1..(Len(Items) + 1) /\ Len(Items) \in Nat /\ DOMAIN Items = 1..Len(Items)
    BY <2>1, DoorsAssumption DEF DoorsIInv, D!DoorsAssumption
  <2> QED
    BY <2>1, <2>2
<1>2. CASE Items[cur].kind = "lever" /\ D!LeverItem(cur) /\ UNCHANGED <<D!jacks, changeMap>>
  BY <1>1, <1>2, LeverKeeps DEF D!jacks
<1>3. CASE Items[cur].kind = "star" /\ D!StarItem(cur) /\ UNCHANGED <<D!jacks, changeMap>>
  BY <1>1, <1>3, StarKeeps DEF D!jacks
<1>4. CASE Items[cur].kind = "eyes" /\ D!EyesItem(cur) /\ UNCHANGED <<D!jacks, changeMap>>
  BY <1>1, <1>4, EyesKeep DEF D!jacks
<1>5. CASE j \in using /\ D!PassageItem(cur, j) /\ UNCHANGED <<D!level, changeMap>>
  <2>1. using' = using \ {j} /\ passed' = [passed EXCEPT ![j] = @ + 1]
    BY <1>5 DEF D!PassageItem
  <2>2. /\ door' = door /\ pic' = pic /\ awake' = awake /\ tile' = tile /\ event' = event
        /\ changeMap' = changeMap
    BY <1>5 DEF D!level
  <2>3. passed[j] = 0 /\ passed \in [Player -> Nat]
    BY <1>5 DEF DoorsIInv, DoorTypes
  <2>4. DoorTypes'
    BY <1>1, <2>1, <2>2, <2>3 DEF DoorsIInv, DoorTypes
  <2>5. \A k \in Player : passed'[k] = 0 \/ (passed'[k] = 1 /\ k \notin using')
    BY <2>1, <2>3 DEF DoorsIInv
  <2> QED
    BY <1>1, <2>2, <2>4, <2>5 DEF DoorsIInv
<1>6. CASE D!TeleportItem /\ UNCHANGED <<D!level, D!jacks>>
  <2>1. /\ door' = door /\ pic' = pic /\ awake' = awake /\ tile' = tile /\ event' = event
        /\ changeMap' = 2 /\ using' = using /\ passed' = passed
    BY <1>6 DEF D!level, D!jacks, D!TeleportItem
  <2>2. changeMap # 1
    BY <1>1 DEF DoorsIInv
  <2>3. DoorTypes'
    BY <1>1, <2>1 DEF DoorsIInv, DoorTypes
  <2> QED
    BY <1>1, <2>1, <2>2, <2>3 DEF DoorsIInv
<1>7. CASE UNCHANGED <<D!level, D!jacks, changeMap>>
  <2>1. /\ door' = door /\ pic' = pic /\ awake' = awake /\ tile' = tile /\ event' = event
        /\ changeMap' = changeMap /\ using' = using /\ passed' = passed
    BY <1>7 DEF D!level, D!jacks
  <2>2. DoorTypes'
    BY <1>1, <2>1 DEF DoorsIInv, DoorTypes
  <2> QED
    BY <1>1, <2>1, <2>2 DEF DoorsIInv
<1> QED
  BY <1>2, <1>3, <1>4, <1>5, <1>6, <1>7 DEF D!Offer, D!GetItem

LEMMA NextItemKeeps == DoorsIInv /\ D!NextItem => DoorsIInv'
<1> SUFFICES ASSUME DoorsIInv, D!NextItem PROVE DoorsIInv'
  OBVIOUS
<1>1. /\ pc = "items" /\ cur <= Len(Items) /\ pc' = pc /\ cur' = cur + 1
      /\ door' = door /\ pic' = pic /\ awake' = awake /\ tile' = tile /\ event' = event
      /\ changeMap' = changeMap /\ using' = using /\ passed' = passed
  BY DEF D!NextItem, D!level, D!jacks
<1>2. cur' \in 1..(Len(Items) + 1)
  <2>1. cur \in 1..(Len(Items) + 1) /\ Len(Items) \in Nat
    BY <1>1, DoorsAssumption DEF DoorsIInv, D!DoorsAssumption
  <2> QED
    BY <1>1, <2>1
<1>3. DoorTypes'
  BY <1>1 DEF DoorsIInv, DoorTypes
<1> QED
  BY <1>1, <1>2, <1>3 DEF DoorsIInv

\* The events of a frame.
LEMMA ProcessedLevel ==
  ASSUME DoorsIInv
  PROVE  UpTo([event |-> event, door |-> door, pic |-> pic, awake |-> awake, tile |-> tile],
              Len(event), D!ProcessEvents)
<1> DEFINE L == [event |-> event, door |-> door, pic |-> pic, awake |-> awake, tile |-> tile]
           n == Len(event)
           h == CHOOSE g : g = [s \in 0..n |-> IF s = 0 THEN L ELSE D!Processed(g[s - 1], s)]
<1>1. L \in Level /\ L.event = event
  BY DEF DoorsIInv, DoorTypes, Level
<1>2. n \in Nat
  BY LenProperties DEF DoorsIInv, DoorTypes
<1>3. D!ProcessEvents = h[n]
  BY DEF D!ProcessEvents
<1> HIDE DEF L, n
<1>4. \E g : Runs(L, n, g)
  BY <1>2, ProcessedExists
<1>5. h = [s \in 0..n |-> IF s = 0 THEN L ELSE D!Processed(h[s - 1], s)]
  BY <1>4 DEF Runs
<1> HIDE DEF h
<1>6. n = Len(L.event)
  BY <1>1 DEF n
<1>7. UpTo(L, n, h[n])
  BY <1>1, <1>2, <1>5, <1>6, ProcessedAll
<1> QED
  BY <1>3, <1>7 DEF L, n

LEMMA EndFrameKeeps == DoorsIInv /\ D!EndFrame => DoorsIInv'
<1> SUFFICES ASSUME DoorsIInv, D!EndFrame PROVE DoorsIInv'
  OBVIOUS
<1> PICK M : M = D!ProcessEvents
  OBVIOUS
<1> PICK L : L = [event |-> event, door |-> door, pic |-> pic, awake |-> awake, tile |-> tile]
  OBVIOUS
<1> PICK n : n = Len(event)
  OBVIOUS
<1>1. /\ pc = "items" /\ pc' = "keys" /\ event' = M.event /\ door' = M.door /\ pic' = M.pic
      /\ tile' = M.tile /\ awake' = M.awake
      /\ changeMap' = changeMap /\ using' = {} /\ passed' = passed
  BY DEF D!EndFrame
<1>2. UpTo(L, n, M)
  BY ProcessedLevel
<1>3. L.event = event /\ L.door = door /\ L.tile = tile
  OBVIOUS
<1>4. M \in Level /\ M.event \in Seq(Event)
  BY <1>2 DEF UpTo, Level
<1>5. /\ DOMAIN M.event = DOMAIN event
      /\ \A d \in Door : Passed(event, d, n, door[d], tile[d], M.door[d], M.tile[d])
  BY <1>2, <1>3 DEF UpTo
<1>6. DOMAIN event = 1..n /\ n \in Nat /\ event \in Seq(Event)
  BY LenProperties DEF DoorsIInv, DoorTypes
<1>7. \A s \in DOMAIN event : M.event[s] = Aged(event[s])
  BY <1>2, <1>3, <1>6 DEF UpTo
<1>8. Due(event) /\ changeMap # 1 /\ \A d \in Door : DoorOK(event, d, door[d], tile[d])
  BY <1>1 DEF DoorsIInv
<1>9. \A d \in Door : DoorOK(M.event, d, M.door[d], M.tile[d])
  BY <1>5, <1>6, <1>7, <1>8, DoorKept
<1>10. Due(M.event)
  BY <1>5, <1>6, <1>7, AgedEvents
<1>11. DoorTypes'
  BY <1>1, <1>4 DEF DoorsIInv, DoorTypes, Level
<1>12. \A j \in Player : passed'[j] = 0 \/ (passed'[j] = 1 /\ j \notin using')
  BY <1>1 DEF DoorsIInv
<1> QED
  BY <1>1, <1>8, <1>9, <1>10, <1>11, <1>12 DEF DoorsIInv

LEMMA DoorsNext ==
  ASSUME D!ClosesLater, DoorsIInv, [D!Next]_doorsVars
  PROVE  DoorsIInv'
<1>1. CASE D!Next
  BY <1>1, StartGameKeeps, EndGameKeeps, KeysKeeps, OfferKeeps, NextItemKeeps, EndFrameKeeps
     DEF D!Next, D!Frame
<1>2. CASE UNCHANGED doorsVars
  BY <1>2 DEF doorsVars, DoorsIInv, DoorTypes
<1> QED
  BY <1>1, <1>2

LEMMA DoorsIInvImplies == DoorsIInv => DoorsRight
<1> SUFFICES ASSUME DoorsIInv PROVE D!DoorsBlockAsTheySay /\ D!OnePassage
  BY DEF DoorsRight
<1>1. D!OnePassage
  BY DEF DoorsIInv, D!OnePassage
<1>2. ASSUME pc # "lobby", NEW d \in Door PROVE D!DoorBlocks(d)
  <2>1. CASE changeMap = 1
    <3>1. Abandoned(door[d], tile[d])
      BY <1>2, <2>1 DEF DoorsIInv
    <3> QED
      BY <2>1, <3>1 DEF Abandoned, D!DoorBlocks
  <2>2. CASE changeMap # 1
    <3>1. DoorOK(event, d, door[d], tile[d])
      BY <1>2, <2>2 DEF DoorsIInv
    <3>2. Abandoned(door[d], tile[d])
      BY <3>1, OKAbandoned
    <3>3. ASSUME door[d].state = D!Open, ~D!ClosePending(d) PROVE door[d].pic = DoorPics - 1
      <4>1. CASE ClosesByStar(event, d, door[d], tile[d])
        <5> PICK c \in DOMAIN event : TurnsIn(event, d) = {c} /\ event[c].func = "starClose"
          BY <4>1 DEF ClosesByStar
        <5>1. c \in TurnsIn(event, d)
          OBVIOUS
        <5>2. event[c].item = d /\ c \in D!Pending
          BY <5>1 DEF TurnsIn, D!Pending, D!Slots
        <5> QED
          BY <3>3, <5>2 DEF D!ClosePending
      <4>2. CASE ~ClosesByStar(event, d, door[d], tile[d])
        BY <3>1, <3>3, <4>2 DEF DoorOK, IsClosed, IsOpen, Jammed, OpensByLever, ClosesByLever, OpensForEver,
           OpensByStar, D!Closed, D!Open, D!Moving
      <4> QED
        BY <4>1, <4>2
    <3> QED
      BY <3>2, <3>3 DEF Abandoned, D!DoorBlocks
  <2> QED
    BY <2>1, <2>2
<1> QED
  BY <1>1, <1>2 DEF D!DoorsBlockAsTheySay

\* Doors: a door that says it is closed blocks its place and is drawn closed,
\* one that says it is open does not and is drawn open, whichever levers are
\* pulled in whichever order (open_door and close_door of lever.c and
\* starlever.c, srv_process_events); and a press of the use key takes a jack
\* through one passage at most (passage.c).  A door that closes at once has to
\* have a sound to close with (ClosesLater).
THEOREM DoorsStayRight == ASSUME D!ClosesLater PROVE WorldSpec => []DoorsRight
<1>1. WorldInit => DoorsIInv
  BY DoorsInit DEF WorldInit
<1>2. DoorsIInv /\ [WorldNext]_<<part, vars, doorsVars>> => DoorsIInv'
  <2>1. [WorldNext]_<<part, vars, doorsVars>> => [D!Next]_doorsVars
    BY DEF WorldNext, VitalsStep, DoorsStep
  <2> QED
    BY <2>1, DoorsNext
<1> QED
  BY <1>1, <1>2, DoorsIInvImplies, PTL DEF WorldSpec
===============================================================================
