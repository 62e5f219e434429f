---------------------------- MODULE BeamProofs -----------------------------
(***************************************************************************)
(* Theorems about Beam.  About PianoApp: NothingStuck, for any score, any  *)
(* number of strings, keys and fingers.  About BeamView: PathsLeadHome and *)
(* LatestIsShown, for any nesting of Suns, any polls and any number of     *)
(* phases kept.                                                            *)
(***************************************************************************)
EXTENDS PianoApp, BeamView, FiniteSetTheorems, SequenceTheorems, WellFoundedInduction, TLAPS

Commands == [do : {"attack", "release"}, voice : Nat]
Strings  == [voice : Nat, released : BOOLEAN]

\* What is struck is well formed,
Formed(s) ==
  /\ s.sequence \in Nat
  /\ IsFiniteSet(DOMAIN s.active) /\ \A i \in DOMAIN s.active : s.active[i].voice \in Nat
  /\ s.queue \in Seq(Commands)

\* a string is struck once,
OneStrike(s) ==
  \A k \in DOMAIN s.queue : s.queue[k].do = "attack" =>
    /\ s.queue[k].voice <= s.sequence
    /\ \A l \in DOMAIN s.queue :
         s.queue[l].do = "attack" /\ s.queue[l].voice = s.queue[k].voice => l = k

\* after it is struck it is held, or its release follows,
IsHeld(s, v) == \E i \in DOMAIN s.active : s.active[i].voice = v
LetGoAfter(s, v, k) ==
  \E l \in DOMAIN s.queue : l > k /\ s.queue[l].do = "release" /\ s.queue[l].voice = v
StrikesEnd(s) ==
  \A k \in DOMAIN s.queue : s.queue[k].do = "attack" =>
    IsHeld(s, s.queue[k].voice) \/ LetGoAfter(s, s.queue[k].voice, k)

\* and the same of the strings that sound.
Sounding(s, vs) ==
  /\ vs \in Seq(Strings)
  /\ \A k, l \in DOMAIN vs : vs[k].voice = vs[l].voice => k = l
  /\ \A k \in DOMAIN vs :
       /\ vs[k].voice <= s.sequence
       /\ \A l \in DOMAIN s.queue : s.queue[l].do = "attack" => s.queue[l].voice # vs[k].voice
       /\ ~vs[k].released => IsHeld(s, vs[k].voice) \/ LetGoAfter(s, vs[k].voice, 0)

Keeps(s, vs) == Formed(s) /\ OneStrike(s) /\ StrikesEnd(s) /\ Sounding(s, vs)

\* A hand's inputs are down, and the mouse remembers its note.
InHand ==
  /\ \A i \in DOMAIN active : i[1] # "score" => i \in down
  /\ <<"mouse">> \in DOMAIN active => mouseNote # None

IInv == Keeps(Struck, voices) /\ InHand
-----------------------------------------------------------------------------
(* Striking and releasing.                                                 *)

LEMMA AttackKeeps ==
  ASSUME NEW s, NEW vs, Keeps(s, vs), NEW input, NEW note
  PROVE  LET t == attack_piano_note(s, input, note)
         IN  Keeps(t, vs) /\ DOMAIN t.active = DOMAIN s.active \cup {input}
<1>1. CASE input \in DOMAIN s.active
  BY <1>1 DEF attack_piano_note
<1>2. CASE input \notin DOMAIN s.active
  <2> DEFINE v == s.sequence + 1
             held == [i \in DOMAIN s.active \cup {input} |->
                        IF i = input THEN [note |-> note, voice |-> v] ELSE s.active[i]]
             rest == Append(s.queue, Attack(v))
             t == [active |-> held, sequence |-> v, queue |-> rest]
  <2>1. attack_piano_note(s, input, note) = t
    BY <1>2 DEF attack_piano_note
  <2>2. /\ s.sequence \in Nat /\ v \in Nat /\ s.queue \in Seq(Commands)
        /\ Attack(v) \in Commands /\ Attack(v).do = "attack" /\ Attack(v).voice = v
    BY DEF Keeps, Formed, Commands, Attack
  <2>3. /\ rest \in Seq(Commands) /\ Len(rest) = Len(s.queue) + 1 /\ Len(s.queue) \in Nat
        /\ \A k \in 1 .. Len(s.queue) : rest[k] = s.queue[k]
        /\ rest[Len(s.queue) + 1] = Attack(v)
        /\ DOMAIN rest = 1 .. Len(s.queue) + 1 /\ DOMAIN s.queue = 1 .. Len(s.queue)
    BY <2>2
  <2>4. /\ DOMAIN held = DOMAIN s.active \cup {input} /\ held[input].voice = v
        /\ \A i \in DOMAIN s.active : held[i] = s.active[i]
    BY <1>2
  <2>5. t.active = held /\ t.sequence = v /\ t.queue = rest
    OBVIOUS
  <2> HIDE DEF t, held, rest
  <2>6. Formed(t)
    <3>1. IsFiniteSet(DOMAIN held)
      BY <2>4, FS_AddElement DEF Keeps, Formed
    <3>2. \A i \in DOMAIN held : held[i].voice \in Nat
      BY <2>2, <2>4 DEF Keeps, Formed
    <3>3. QED
      BY <2>2, <2>3, <2>5, <3>1, <3>2 DEF Formed
  <2>7. OneStrike(t)
    <3>1. SUFFICES ASSUME NEW k \in DOMAIN rest, rest[k].do = "attack"
                   PROVE  /\ rest[k].voice <= v
                          /\ \A l \in DOMAIN rest : rest[l].do = "attack" /\ rest[l].voice = rest[k].voice => l = k
      BY <2>5 DEF OneStrike
    <3>2. \A l \in 1 .. Len(s.queue) : s.queue[l] \in Commands
      BY <2>2
    <3>3. \A l \in 1 .. Len(s.queue) : s.queue[l].voice \in Nat
      BY <3>2 DEF Commands
    <3>4. \A l \in 1 .. Len(s.queue) : s.queue[l].do = "attack" => s.queue[l].voice <= s.sequence
      BY <2>3 DEF Keeps, OneStrike
    <3>5. \A l \in 1 .. Len(s.queue) : s.queue[l].do = "attack" => s.queue[l].voice <= v /\ s.queue[l].voice # v
      BY <2>2, <3>3, <3>4
    <3>6. CASE k \in 1 .. Len(s.queue)
      <4>1. rest[k] = s.queue[k] /\ k \in DOMAIN s.queue
        BY <2>3, <3>6
      <4>2. ASSUME NEW l \in DOMAIN rest, rest[l].do = "attack", rest[l].voice = rest[k].voice
            PROVE  l = k
        <5>1. l # Len(s.queue) + 1
          BY <2>2, <2>3, <3>1, <3>5, <3>6, <4>1, <4>2
        <5>2. l \in 1 .. Len(s.queue) /\ l \in DOMAIN s.queue /\ rest[l] = s.queue[l]
          BY <2>3, <5>1
        <5>3. QED
          BY <3>1, <4>1, <4>2, <5>2 DEF Keeps, OneStrike
      <4>3. QED
        BY <3>1, <3>5, <3>6, <4>1, <4>2
    <3>7. CASE k = Len(s.queue) + 1
      <4>1. rest[k].voice = v
        BY <2>2, <2>3, <3>7
      <4>2. \A l \in 1 .. Len(s.queue) : rest[l].do = "attack" => rest[l].voice # v
        BY <2>3, <3>5
      <4>3. QED
        BY SMTT(40), <2>2, <2>3, <3>7, <4>1, <4>2
    <3>8. QED
      BY <2>3, <3>6, <3>7
  <2>8. \A u : IsHeld(s, u) => IsHeld(t, u)
    BY <2>4, <2>5 DEF IsHeld
  <2>9. \A u, k : LetGoAfter(s, u, k) => LetGoAfter(t, u, k)
    BY <2>3, <2>5 DEF LetGoAfter
  <2>10. StrikesEnd(t)
    <3>1. IsHeld(t, v)
      BY <2>4, <2>5 DEF IsHeld
    <3>2. SUFFICES ASSUME NEW k \in DOMAIN rest, rest[k].do = "attack"
                   PROVE  IsHeld(t, rest[k].voice) \/ LetGoAfter(t, rest[k].voice, k)
      BY <2>5 DEF StrikesEnd
    <3>3. CASE k \in 1 .. Len(s.queue)
      BY <2>3, <2>8, <2>9, <3>2, <3>3 DEF Keeps, StrikesEnd
    <3>4. CASE k = Len(s.queue) + 1
      BY <2>2, <2>3, <3>1, <3>4
    <3>5. QED
      BY <2>3, <3>3, <3>4
  <2>11. Sounding(t, vs)
    <3>0. \A k \in DOMAIN vs : vs[k] \in Strings
      BY DEF Keeps, Sounding
    <3>1. \A k \in DOMAIN vs : vs[k].voice \in Nat /\ vs[k].voice <= s.sequence
      BY <3>0 DEF Keeps, Sounding, Strings
    <3>2. \A k \in DOMAIN vs : vs[k].voice <= v /\ vs[k].voice # v
      BY <2>2, <3>1
    <3>3. ASSUME NEW k \in DOMAIN vs, NEW l \in DOMAIN rest, rest[l].do = "attack"
          PROVE  rest[l].voice # vs[k].voice
      <4>1. CASE l = Len(s.queue) + 1
        BY <2>2, <2>3, <3>2, <4>1
      <4>2. CASE l \in 1 .. Len(s.queue)
        BY <2>3, <3>3, <4>2 DEF Keeps, Sounding
      <4>3. QED
        BY <2>3, <4>1, <4>2
    <3>4. \A k \in DOMAIN vs : ~vs[k].released => IsHeld(t, vs[k].voice) \/ LetGoAfter(t, vs[k].voice, 0)
      BY <2>8, <2>9 DEF Keeps, Sounding
    <3>5. QED
      BY <2>2, <2>5, <3>1, <3>2, <3>3, <3>4 DEF Keeps, Sounding
  <2>12. QED
    BY <2>1, <2>4, <2>5, <2>6, <2>7, <2>10, <2>11 DEF Keeps
<1>3. QED
  BY <1>1, <1>2

LEMMA ReleaseKeeps ==
  ASSUME NEW s, NEW vs, Keeps(s, vs), NEW inputs \in Seq(DOMAIN s.active)
  PROVE  LET t == ReleaseAll(s, inputs)
         IN  Keeps(t, vs) /\ DOMAIN t.active = DOMAIN s.active \ ToSet(inputs)
<1> DEFINE held == [i \in DOMAIN s.active \ ToSet(inputs) |-> s.active[i]]
           more == [k \in DOMAIN inputs |-> Release(s.active[inputs[k]].voice)]
           rest == s.queue \o more
           t == [active |-> held, sequence |-> s.sequence, queue |-> rest]
<1>1. ReleaseAll(s, inputs) = t
  BY DEF ReleaseAll
<1>2. s.sequence \in Nat /\ s.queue \in Seq(Commands) /\ Len(s.queue) \in Nat /\ Len(inputs) \in Nat
  BY DEF Keeps, Formed
<1>3. /\ DOMAIN inputs = 1 .. Len(inputs)
      /\ \A k \in 1 .. Len(inputs) : inputs[k] \in DOMAIN s.active
  OBVIOUS
<1>4. \A k \in 1 .. Len(inputs) :
        /\ more[k] \in Commands /\ more[k].do = "release"
        /\ more[k].voice = s.active[inputs[k]].voice
  BY <1>3 DEF Keeps, Formed, Commands, Release
<1>5. more \in Seq(Commands) /\ Len(more) = Len(inputs)
  BY <1>2, <1>3, <1>4
<1>6. /\ DOMAIN held = DOMAIN s.active \ ToSet(inputs)
      /\ \A i \in DOMAIN held : held[i] = s.active[i]
  OBVIOUS
<1> HIDE DEF more, held
<1>7. /\ rest \in Seq(Commands) /\ Len(rest) = Len(s.queue) + Len(inputs)
      /\ DOMAIN rest = 1 .. (Len(s.queue) + Len(inputs)) /\ DOMAIN s.queue = 1 .. Len(s.queue)
      /\ \A k \in 1 .. Len(s.queue) : rest[k] = s.queue[k]
      /\ \A k \in 1 .. Len(inputs) : rest[Len(s.queue) + k] = more[k]
  BY SMTT(40), <1>2, <1>5
<1>8. t.active = held /\ t.sequence = s.sequence /\ t.queue = rest
  OBVIOUS
<1> HIDE DEF t, rest
<1>9. \A k \in DOMAIN rest : rest[k].do = "attack" => k \in 1 .. Len(s.queue)
  <2>1. TAKE k \in DOMAIN rest
  <2>2. CASE k \in 1 .. Len(s.queue)
    BY <2>2
  <2>3. CASE k \notin 1 .. Len(s.queue)
    <3>1. k - Len(s.queue) \in 1 .. Len(inputs) /\ k = Len(s.queue) + (k - Len(s.queue))
      BY SMTT(40), <1>2, <1>7, <2>3
    <3>2. rest[k].do = "release"
      BY SMTT(40), <1>4, <1>7, <3>1
    <3>3. QED
      BY <3>2
  <2>4. QED
    BY <2>2, <2>3
<1>10. Formed(t)
  <2>1. IsFiniteSet(DOMAIN held)
    BY <1>6, FS_Subset DEF Keeps, Formed
  <2>2. \A i \in DOMAIN held : held[i].voice \in Nat
    BY <1>6 DEF Keeps, Formed
  <2>3. QED
    BY <1>2, <1>7, <1>8, <2>1, <2>2 DEF Formed
<1>11. OneStrike(t)
  BY SMTT(40), <1>7, <1>8, <1>9 DEF Keeps, OneStrike
<1>12. \A u, k : LetGoAfter(s, u, k) => LetGoAfter(t, u, k)
  BY <1>2, <1>7, <1>8 DEF LetGoAfter
<1>13. ASSUME NEW u, IsHeld(s, u), NEW k \in 0 .. Len(s.queue)
       PROVE  IsHeld(t, u) \/ LetGoAfter(t, u, k)
  <2>1. PICK i \in DOMAIN s.active : s.active[i].voice = u
    BY <1>13 DEF IsHeld
  <2>2. CASE i \in DOMAIN held
    BY <1>6, <1>8, <2>1, <2>2 DEF IsHeld
  <2>3. CASE i \notin DOMAIN held
    <3>1. PICK j \in 1 .. Len(inputs) : inputs[j] = i
      BY <1>3, <1>6, <2>1, <2>3 DEF ToSet
    <3>2. /\ Len(s.queue) + j \in DOMAIN rest /\ Len(s.queue) + j > k
          /\ rest[Len(s.queue) + j].do = "release" /\ rest[Len(s.queue) + j].voice = u
      BY SMTT(40), <1>2, <1>4, <1>7, <1>13, <2>1, <3>1
    <3>3. QED
      BY <1>8, <3>2 DEF LetGoAfter
  <2>4. QED
    BY <2>2, <2>3
<1>14. StrikesEnd(t)
  <2>1. SUFFICES ASSUME NEW k \in DOMAIN rest, rest[k].do = "attack"
                 PROVE  IsHeld(t, rest[k].voice) \/ LetGoAfter(t, rest[k].voice, k)
    BY <1>8 DEF StrikesEnd
  <2>2. k \in 1 .. Len(s.queue) /\ k \in 0 .. Len(s.queue) /\ rest[k] = s.queue[k]
    BY <1>2, <1>7, <1>9, <2>1
  <2>3. IsHeld(s, rest[k].voice) \/ LetGoAfter(s, rest[k].voice, k)
    BY <1>7, <2>1, <2>2 DEF Keeps, StrikesEnd
  <2>4. QED
    BY <1>12, <1>13, <2>2, <2>3
<1>15. Sounding(t, vs)
  <2>1. \A k \in DOMAIN vs, l \in DOMAIN rest : rest[l].do = "attack" => rest[l].voice # vs[k].voice
    BY SMTT(40), <1>7, <1>9 DEF Keeps, Sounding
  <2>2. 0 \in 0 .. Len(s.queue)
    BY <1>2
  <2>3. \A k \in DOMAIN vs : ~vs[k].released => IsHeld(t, vs[k].voice) \/ LetGoAfter(t, vs[k].voice, 0)
    BY <1>12, <1>13, <2>2 DEF Keeps, Sounding
  <2>4. QED
    BY <1>8, <2>1, <2>3 DEF Keeps, Sounding
<1>16. QED
  BY <1>1, <1>6, <1>8, <1>10, <1>11, <1>14, <1>15 DEF Keeps

LEMMA OneReleaseKeeps ==
  ASSUME NEW s, NEW vs, Keeps(s, vs), NEW input
  PROVE  LET t == release_piano_note(s, input)
         IN  Keeps(t, vs) /\ DOMAIN t.active = DOMAIN s.active \ {input}
<1>1. CASE input \in DOMAIN s.active
  <2> DEFINE one == <<input>>
  <2>1. one \in Seq(DOMAIN s.active) /\ DOMAIN one = {1} /\ one[1] = input
    <3>1. Len(one) = 1 /\ one[1] = input /\ DOMAIN one = 1 .. 1
      OBVIOUS
    <3>2. one \in Seq(DOMAIN s.active)
      <4> DEFINE S == DOMAIN s.active
      <4> HIDE DEF S
      <4>1. input \in S
        BY <1>1 DEF S
      <4>2. one \in Seq(S)
        BY <4>1
      <4>3. QED
        BY <4>2 DEF S
    <3> HIDE DEF one
    <3>3. QED
      BY <3>1, <3>2
  <2>2. release_piano_note(s, input) = ReleaseAll(s, one)
    BY <1>1 DEF release_piano_note
  <2> HIDE DEF one
  <2>3. ToSet(one) = {input}
    BY <2>1 DEF ToSet
  <2>4. QED
    BY <2>1, <2>2, <2>3, ReleaseKeeps
<1>2. CASE input \notin DOMAIN s.active
  BY <1>2 DEF release_piano_note
<1>3. QED
  BY <1>1, <1>2

\* A finite set in some order.
LEMMA SetToSeqLists ==
  ASSUME NEW S, IsFiniteSet(S)
  PROVE  SetToSeq(S) \in Seq(S)
<1>1. Cardinality(S) \in Nat /\ ExistsBijection(1 .. Cardinality(S), S)
  BY FS_CardinalityType
<1>2. PICK f \in [1 .. Cardinality(S) -> S] : IsInjective(f)
  BY <1>1 DEF ExistsBijection, Bijection, Injection, IsInjective
<1>3. SetToSeq(S) \in [1 .. Cardinality(S) -> S]
  BY <1>2 DEF SetToSeq
<1>4. QED
  BY <1>1, <1>3

LEMMA StaleKeeps ==
  ASSUME NEW s, NEW vs, Keeps(s, vs), NEW c
  PROVE  LET t == ReleaseStale(s, c)
         IN  Keeps(t, vs) /\ DOMAIN t.active \subseteq DOMAIN s.active
<1> DEFINE stale == {i \in DOMAIN s.active : i[1] = "score" /\ i[2] < c}
<1>1. IsFiniteSet(stale)
  BY FS_Subset DEF Keeps, Formed
<1>2. stale \subseteq DOMAIN s.active
  OBVIOUS
<1>3. ReleaseStale(s, c) = ReleaseAll(s, SetToSeq(stale))
  BY DEF ReleaseStale
<1> HIDE DEF stale
<1>4. SetToSeq(stale) \in Seq(stale)
  BY <1>1, SetToSeqLists
<1>5. SetToSeq(stale) \in Seq(DOMAIN s.active)
  BY <1>2, <1>4
<1>6. QED
  BY <1>3, <1>5, ReleaseKeeps

\* The score strikes nothing with a hand.
Plays(s, t) == \A i \in DOMAIN t.active : i \in DOMAIN s.active \/ i[1] = "score"

LEMMA DueKeeps ==
  ASSUME NEW acc, NEW vs, Keeps(acc.struck, vs), NEW d
  PROVE  LET t == PerformDue(acc, d).struck IN Keeps(t, vs) /\ Plays(acc.struck, t)
<1> DEFINE event == events[d.index]
           input == <<"score", d.cycle, event.voice>>
           s == IF d.cycle > acc.cycle THEN ReleaseStale(acc.struck, d.cycle) ELSE acc.struck
           t == IF event.action = "attack" THEN attack_piano_note(s, input, event.note)
                ELSE release_piano_note(s, input)
<1>1. PerformDue(acc, d).struck = t
  BY DEF PerformDue
<1>2. Keeps(s, vs) /\ DOMAIN s.active \subseteq DOMAIN acc.struck.active
  BY StaleKeeps
<1>3. input[1] = "score"
  OBVIOUS
<1> HIDE DEF s, input
<1>4. Keeps(t, vs) /\ DOMAIN t.active \subseteq DOMAIN s.active \cup {input}
  BY <1>2, AttackKeeps, OneReleaseKeeps
<1> HIDE DEF t
<1>5. QED
  BY <1>1, <1>2, <1>3, <1>4 DEF Plays

LEMMA LeastNumber ==
  ASSUME NEW S, S \subseteq Nat, S # {}
  PROVE  \E m \in S : \A k \in S : m <= k
<1> DEFINE R == {p \in Nat \X Nat : p[1] < p[2]}
<1>1. IsWellFoundedOn(R, Nat)
  BY NatLessThanWellFounded DEF OpToRel
<1> HIDE DEF R
<1>2. PICK m \in S : \A k \in S : <<k, m>> \notin R
  BY <1>1, WFMin
<1> USE DEF R
<1>3. \A k \in S : m <= k
  <2>1. TAKE k \in S
  <2>2. k \in Nat /\ m \in Nat
    OBVIOUS
  <2>3. ~(k < m)
    BY <1>2, <2>2
  <2>4. QED
    BY <2>2, <2>3
<1>4. QED
  BY <1>3

\* The window after each of the next n events.
Course(f, n) ==
  f = [k \in 0..n |-> IF k = 0 THEN [cycle |-> scoreCycle, struck |-> Struck]
                      ELSE PerformDue(f[k - 1], Upcoming(k - 1))]

LEMMA CourseExists ==
  ASSUME NEW n \in Nat
  PROVE  \E f : Course(f, n)
<1> DEFINE Bad == {m \in Nat : ~\E f : Course(f, m)}
           first == [cycle |-> scoreCycle, struck |-> Struck]
<1>1. ASSUME Bad # {} PROVE FALSE
  <2>1. PICK m \in Bad : \A k \in Bad : m <= k
    BY <1>1, LeastNumber
  <2>2. m # 0
    <3> DEFINE f == [k \in 0..0 |-> first]
    <3>1. Course(f, 0)
      BY DEF Course
    <3>2. QED
      BY <3>1
  <2>3. m \in Nat /\ m - 1 \in Nat /\ m - 1 \notin Bad
    BY <2>1, <2>2
  <2>4. PICK f : Course(f, m - 1)
    BY <2>3
  <2> DEFINE g == [k \in 0..m |-> IF k = m THEN PerformDue(f[m - 1], Upcoming(m - 1)) ELSE f[k]]
  <2>5. /\ \A k \in 0..(m - 1) : g[k] = f[k]
        /\ g[m] = PerformDue(f[m - 1], Upcoming(m - 1))
        /\ g = [k \in 0..m |-> g[k]]
    BY <2>3
  <2> HIDE DEF g, first
  <2>6. \A k \in 0..(m - 1) : f[k] = IF k = 0 THEN first ELSE PerformDue(f[k - 1], Upcoming(k - 1))
    BY <2>4 DEF Course, first
  <2>7. \A k \in 0..m : g[k] = IF k = 0 THEN first ELSE PerformDue(g[k - 1], Upcoming(k - 1))
    <3>1. TAKE k \in 0..m
    <3>2. CASE k = m
      <4>1. m # 0 /\ m - 1 \in 0..(m - 1)
        BY <2>2, <2>3
      <4>2. g[m - 1] = f[m - 1]
        BY <2>5, <4>1
      <4>3. QED
        BY <2>5, <3>2, <4>1, <4>2
    <3>3. CASE k # m
      <4>1. k \in 0..(m - 1) /\ (k # 0 => k - 1 \in 0..(m - 1))
        BY <2>3, <3>3
      <4>2. g[k] = f[k] /\ (k # 0 => g[k - 1] = f[k - 1])
        BY <2>5, <4>1
      <4>3. QED
        BY <2>6, <4>1, <4>2
    <3>4. QED
      BY <3>2, <3>3
  <2>8. Course(g, m)
    BY <2>5, <2>7 DEF Course, first
  <2>9. QED
    BY <2>1, <2>8
<1>2. QED
  BY <1>1

LEMMA PerformedKeeps ==
  ASSUME NEW n \in Nat, Keeps(Struck, voices)
  PROVE  Keeps(Performed(n).struck, voices) /\ Plays(Struck, Performed(n).struck)
<1> DEFINE first == [cycle |-> scoreCycle, struck |-> Struck]
           f == CHOOSE h : Course(h, n)
<1>1. Course(f, n)
  BY CourseExists
<1>2. Performed(n) = f[n]
  BY Zenon DEF Performed, Course
<1> HIDE DEF f
<1>3. \A k \in 0..n : f[k] = IF k = 0 THEN first ELSE PerformDue(f[k - 1], Upcoming(k - 1))
  BY <1>1 DEF Course
<1>4. first.struck = Struck
  OBVIOUS
<1> HIDE DEF first
<1> DEFINE Good(k) == Keeps(f[k].struck, voices) /\ Plays(Struck, f[k].struck)
           Bad == {k \in 0..n : ~Good(k)}
<1>5. ASSUME Bad # {} PROVE FALSE
  <2>1. Bad \subseteq Nat
    OBVIOUS
  <2>2. PICK k \in Bad : \A j \in Bad : k <= j
    BY <1>5, <2>1, LeastNumber
  <2>3. k \in 0..n /\ k \in Nat /\ ~Good(k)
    BY <2>2
  <2>4. k # 0
    <3>1. ASSUME k = 0 PROVE FALSE
      <4>1. f[k] = first
        BY <1>3, <2>3, <3>1
      <4>2. Plays(Struck, Struck)
        BY DEF Plays
      <4>3. QED
        BY <1>4, <2>3, <4>1, <4>2
    <3>2. QED
      BY <3>1
  <2>5. k - 1 \in 0..n /\ ~(k <= k - 1)
    BY <2>3, <2>4
  <2>6. Good(k - 1)
    BY <2>2, <2>5
  <2>7. f[k] = PerformDue(f[k - 1], Upcoming(k - 1))
    BY <1>3, <2>3, <2>4
  <2>8. Keeps(f[k].struck, voices) /\ Plays(f[k - 1].struck, f[k].struck)
    BY <2>6, <2>7, DueKeeps
  <2>9. Plays(Struck, f[k].struck)
    BY <2>6, <2>8 DEF Plays
  <2>10. QED
    BY <2>3, <2>8, <2>9
<1>6. n \in 0..n
  OBVIOUS
<1>7. QED
  BY <1>2, <1>5, <1>6
-----------------------------------------------------------------------------
(* The strings.                                                            *)

LEMMA WithoutOne ==
  ASSUME NEW S, NEW vs \in Seq(S), NEW i \in DOMAIN vs
  PROVE  LET rest == RemoveAt(vs, i)
         IN  /\ rest \in Seq(S) /\ Len(rest) = Len(vs) - 1
             /\ \A k \in 1 .. Len(rest) : rest[k] = vs[IF k < i THEN k ELSE k + 1]
<1> DEFINE before == SubSeq(vs, 1, i - 1)
           behind == SubSeq(vs, i + 1, Len(vs))
           rest == before \o behind
<1>1. Len(vs) \in Nat /\ i \in 1 .. Len(vs)
  OBVIOUS
<1>2. /\ before \in Seq(S) /\ Len(before) = i - 1
      /\ \A k \in 1 .. (i - 1) : before[k] = vs[k]
  BY <1>1
<1>3. /\ behind \in Seq(S) /\ Len(behind) = Len(vs) - i
      /\ \A k \in 1 .. (Len(vs) - i) : behind[k] = vs[i + k]
  BY <1>1
<1>4. RemoveAt(vs, i) = rest
  BY DEF RemoveAt
<1> HIDE DEF before, behind
<1>5. rest \in Seq(S) /\ Len(rest) = Len(vs) - 1
  BY <1>1, <1>2, <1>3
<1>6. \A k \in 1 .. (Len(vs) - 1) : rest[k] = IF k < i THEN before[k] ELSE behind[k - (i - 1)]
  <2>1. TAKE k \in 1 .. (Len(vs) - 1)
  <2>2. rest[k] = IF k <= Len(before) THEN before[k] ELSE behind[k - Len(before)]
    BY SMTT(40), <1>1, <1>2, <1>3, ConcatProperties
  <2>3. k < i <=> k <= i - 1
    BY <1>1
  <2>4. QED
    BY <1>2, <2>2, <2>3
<1> HIDE DEF rest
<1>7. \A k \in 1 .. Len(rest) : rest[k] = vs[IF k < i THEN k ELSE k + 1]
  <2>1. TAKE k \in 1 .. Len(rest)
  <2>2. CASE k < i
    BY <1>1, <1>2, <1>5, <1>6, <2>2
  <2>3. CASE ~(k < i)
    <3>1. k - (i - 1) \in 1 .. (Len(vs) - i) /\ i + (k - (i - 1)) = k + 1
      BY <1>1, <1>5, <2>3
    <3>2. QED
      BY <1>3, <1>5, <1>6, <2>3, <3>1
  <2>4. QED
    BY <2>2, <2>3
<1>8. QED
  BY <1>4, <1>5, <1>7

LEMMA DropKeeps ==
  ASSUME NEW s, NEW vs, Sounding(s, vs), NEW i \in DOMAIN vs
  PROVE  Sounding(s, RemoveAt(vs, i))
<1>1. PICK rest : rest = RemoveAt(vs, i)
  OBVIOUS
<1>2. vs \in Seq(Strings) /\ DOMAIN vs = 1 .. Len(vs) /\ Len(vs) \in Nat
  BY DEF Sounding
<1> DEFINE Origin(k) == IF k < i THEN k ELSE k + 1
<1>3. /\ rest \in Seq(Strings) /\ Len(rest) = Len(vs) - 1
      /\ \A k \in 1 .. Len(rest) : rest[k] = vs[Origin(k)]
  BY <1>1, <1>2, WithoutOne
<1>4. \A k \in DOMAIN rest : Origin(k) \in DOMAIN vs /\ rest[k] = vs[Origin(k)]
  BY <1>2, <1>3
<1>5. \A k, l \in DOMAIN rest : Origin(k) = Origin(l) => k = l
  BY <1>2, <1>3
<1> HIDE DEF Origin
<1>6. \A k, l \in DOMAIN rest : rest[k].voice = rest[l].voice => k = l
  BY <1>4, <1>5 DEF Sounding
<1>7. QED
  BY <1>1, <1>3, <1>4, <1>6 DEF Sounding

\* The audio thread takes the next command.
Takes(s, t) ==
  /\ s.queue # <<>>
  /\ t.active = s.active /\ t.sequence = s.sequence /\ t.queue = Tail(s.queue)

LEMMA NextTaken ==
  ASSUME NEW s, NEW vs, NEW t, Keeps(s, vs), Takes(s, t)
  PROVE  /\ Len(s.queue) \in Nat /\ 1 \in DOMAIN s.queue /\ Head(s.queue) = s.queue[1]
         /\ s.queue[1] \in Commands
         /\ t.queue \in Seq(Commands) /\ DOMAIN t.queue = 1 .. (Len(s.queue) - 1)
         /\ \A k \in DOMAIN t.queue : k + 1 \in DOMAIN s.queue /\ t.queue[k] = s.queue[k + 1]
<1>1. s.queue \in Seq(Commands) /\ s.queue # <<>> /\ t.queue = Tail(s.queue)
  BY DEF Keeps, Formed, Takes
<1> DEFINE q == s.queue
           r == t.queue
<1>2. q \in Seq(Commands) /\ q # <<>> /\ r = Tail(q)
  BY <1>1
<1> HIDE DEF q, r
<1>3. /\ Len(q) \in Nat /\ Len(q) # 0 /\ DOMAIN q = 1 .. Len(q) /\ Head(q) = q[1]
      /\ r \in Seq(Commands) /\ Len(r) = Len(q) - 1
      /\ \A k \in 1 .. Len(r) : r[k] = q[k + 1]
  BY <1>2
<1>4. /\ 1 \in DOMAIN q /\ q[1] \in Commands /\ DOMAIN r = 1 .. (Len(q) - 1)
      /\ \A k \in DOMAIN r : k + 1 \in DOMAIN q /\ r[k] = q[k + 1]
  BY <1>2, <1>3
<1>5. QED
  BY <1>3, <1>4 DEF q, r

LEMMA TakenKeeps ==
  ASSUME NEW s, NEW vs, NEW t, Keeps(s, vs), Takes(s, t)
  PROVE  /\ Formed(t) /\ OneStrike(t) /\ StrikesEnd(t)
         /\ \A u : IsHeld(s, u) => IsHeld(t, u)
         /\ \A u, k : k \in Nat /\ LetGoAfter(s, u, k + 1) => LetGoAfter(t, u, k)
<1>1. t.active = s.active /\ t.sequence = s.sequence
  BY DEF Takes
<1>2. Formed(t)
  BY <1>1, NextTaken DEF Keeps, Formed
<1>3. \A k, l \in DOMAIN t.queue : k + 1 = l + 1 => k = l
  BY NextTaken
<1>4. OneStrike(t)
  BY <1>1, <1>3, NextTaken DEF Keeps, OneStrike
<1>5. \A u : IsHeld(s, u) => IsHeld(t, u)
  BY <1>1 DEF IsHeld
<1>6. ASSUME NEW u, NEW k \in Nat, LetGoAfter(s, u, k + 1)
      PROVE  LetGoAfter(t, u, k)
  <2>1. PICK l \in DOMAIN s.queue : l > k + 1 /\ s.queue[l].do = "release" /\ s.queue[l].voice = u
    BY <1>6 DEF LetGoAfter
  <2>2. DOMAIN s.queue = 1 .. Len(s.queue)
    BY DEF Keeps, Formed
  <2>3. l - 1 \in DOMAIN t.queue /\ l - 1 > k /\ (l - 1) + 1 = l
    BY <1>6, <2>1, <2>2, NextTaken
  <2>4. t.queue[l - 1] = s.queue[l]
    BY <2>3, NextTaken
  <2>5. QED
    BY <2>1, <2>3, <2>4 DEF LetGoAfter
<1>7. StrikesEnd(t)
  <2>1. SUFFICES ASSUME NEW k \in DOMAIN t.queue, t.queue[k].do = "attack"
                 PROVE  IsHeld(t, t.queue[k].voice) \/ LetGoAfter(t, t.queue[k].voice, k)
    BY DEF StrikesEnd
  <2>2. k \in Nat /\ k + 1 \in DOMAIN s.queue /\ t.queue[k] = s.queue[k + 1]
    BY NextTaken
  <2>3. IsHeld(s, t.queue[k].voice) \/ LetGoAfter(s, t.queue[k].voice, k + 1)
    BY <2>1, <2>2 DEF Keeps, StrikesEnd
  <2>4. QED
    BY <1>5, <1>6, <2>2, <2>3
<1>8. QED
  BY <1>2, <1>4, <1>5, <1>6, <1>7

\* What the string's release promised is still to come, unless it is the command
\* taken.
LEMMA StillComes ==
  ASSUME NEW s, NEW vs, NEW t, Keeps(s, vs), Takes(s, t), NEW u, LetGoAfter(s, u, 0),
         s.queue[1].do = "release" => s.queue[1].voice # u
  PROVE  LetGoAfter(t, u, 0)
<1>1. PICK l \in DOMAIN s.queue : s.queue[l].do = "release" /\ s.queue[l].voice = u
  BY DEF LetGoAfter
<1>2. l # 1 /\ DOMAIN s.queue = 1 .. Len(s.queue)
  BY <1>1 DEF Keeps, Formed
<1>3. l > 0 + 1
  BY <1>2, NextTaken
<1>4. LetGoAfter(s, u, 0 + 1)
  BY <1>1, <1>3 DEF LetGoAfter
<1>5. QED
  BY <1>4, TakenKeeps

LEMMA MinIsLeast ==
  ASSUME NEW S, S \subseteq Nat, S # {}
  PROVE  Min(S) \in S
BY LeastNumber DEF Min

LEMMA AttackedKeeps ==
  ASSUME NEW s, NEW vs, NEW t, Keeps(s, vs), Takes(s, t), Head(s.queue).do = "attack"
  PROVE  Keeps(t, Attacked(vs, Head(s.queue)))
<1> DEFINE room == IF Len(vs) >= MaxPolyphony THEN RemoveAt(vs, Steal(vs)) ELSE vs
           struck == [voice |-> Head(s.queue).voice, released |-> FALSE]
           new == Append(room, struck)
<1>1. Attacked(vs, Head(s.queue)) = new
  BY DEF Attacked
<1>2. Sounding(s, room)
  <2>1. CASE Len(vs) >= MaxPolyphony
    <3>1. vs \in Seq(Strings) /\ DOMAIN vs = 1 .. Len(vs) /\ Len(vs) \in Nat /\ 1 \in DOMAIN vs
      BY <2>1, PianoAssumption DEF Keeps, Sounding
    <3>2. Steal(vs) \in DOMAIN vs
      <4> DEFINE free == {i \in DOMAIN vs : vs[i].released}
      <4>1. free \subseteq Nat
        BY <3>1
      <4>2. free # {} => Min(free) \in DOMAIN vs
        BY <4>1, MinIsLeast
      <4>3. QED
        BY <3>1, <4>2 DEF Steal
    <3>3. QED
      BY <2>1, <3>2, DropKeeps DEF Keeps
  <2>2. CASE ~(Len(vs) >= MaxPolyphony)
    BY <2>2 DEF Keeps
  <2>3. QED
    BY <2>1, <2>2
<1>3. /\ 1 \in DOMAIN s.queue /\ s.queue[1].do = "attack" /\ s.queue[1].voice \in Nat
      /\ struck \in Strings /\ struck.voice = s.queue[1].voice /\ ~struck.released
      /\ s.queue[1].voice <= s.sequence
  BY NextTaken DEF Keeps, OneStrike, Commands, Strings
<1> HIDE DEF room, struck
<1>4. /\ room \in Seq(Strings) /\ Len(room) \in Nat /\ DOMAIN room = 1 .. Len(room)
      /\ new \in Seq(Strings) /\ DOMAIN new = 1 .. (Len(room) + 1)
      /\ \A k \in 1 .. Len(room) : new[k] = room[k]
      /\ new[Len(room) + 1] = struck
  BY <1>2, <1>3 DEF Sounding
<1> HIDE DEF new
<1>5. \A k \in 1 .. Len(room) : room[k].voice # struck.voice
  BY <1>2, <1>3, <1>4 DEF Sounding
<1>6. \A k, l \in DOMAIN new : new[k].voice = new[l].voice => k = l
  <2>1. TAKE k, l \in DOMAIN new
  <2>2. CASE k \in 1 .. Len(room) /\ l \in 1 .. Len(room)
    BY <1>2, <1>4, <2>2 DEF Sounding
  <2>3. CASE k = Len(room) + 1 \/ l = Len(room) + 1
    BY <1>4, <1>5, <2>3
  <2>4. QED
    BY <1>4, <2>2, <2>3
<1>7. ASSUME NEW k \in DOMAIN new
      PROVE  /\ new[k].voice <= t.sequence
             /\ \A l \in DOMAIN t.queue : t.queue[l].do = "attack" => t.queue[l].voice # new[k].voice
             /\ ~new[k].released => IsHeld(t, new[k].voice) \/ LetGoAfter(t, new[k].voice, 0)
  <2>1. t.sequence = s.sequence
    BY DEF Takes
  <2>2. CASE k \in 1 .. Len(room)
    <3>1. new[k] = room[k] /\ k \in DOMAIN room
      BY <1>4, <2>2
    <3>2. \A l \in DOMAIN t.queue : t.queue[l].do = "attack" => t.queue[l].voice # new[k].voice
      BY SMTT(40), <1>2, <3>1, NextTaken DEF Sounding
    <3>3. ASSUME ~new[k].released
          PROVE  IsHeld(t, new[k].voice) \/ LetGoAfter(t, new[k].voice, 0)
      <4>1. IsHeld(s, new[k].voice) \/ LetGoAfter(s, new[k].voice, 0)
        BY <1>2, <3>1, <3>3 DEF Sounding
      <4>2. s.queue[1].do # "release"
        BY <1>3
      <4>3. QED
        BY <4>1, <4>2, StillComes, TakenKeeps
    <3>4. QED
      BY <1>2, <2>1, <3>1, <3>2, <3>3 DEF Sounding
  <2>3. CASE k = Len(room) + 1
    <3>1. new[k] = struck
      BY <1>4, <2>3
    <3>2. \A l \in DOMAIN t.queue : l + 1 # 1 /\ l + 1 \in DOMAIN s.queue /\ t.queue[l] = s.queue[l + 1]
      BY NextTaken
    <3>3. \A l \in DOMAIN t.queue : t.queue[l].do = "attack" => t.queue[l].voice # struck.voice
      BY <1>3, <3>2 DEF Keeps, OneStrike
    <3>4. IsHeld(s, struck.voice) \/ LetGoAfter(s, struck.voice, 0 + 1)
      BY <1>3 DEF Keeps, StrikesEnd
    <3>5. IsHeld(t, struck.voice) \/ LetGoAfter(t, struck.voice, 0)
      BY <3>4, TakenKeeps
    <3>6. QED
      BY <1>3, <2>1, <3>1, <3>3, <3>5
  <2>4. QED
    BY <1>4, <2>2, <2>3
<1>8. Sounding(t, new)
  BY <1>4, <1>6, <1>7 DEF Sounding
<1>9. QED
  BY <1>1, <1>8, TakenKeeps DEF Keeps

LEMMA ReleasedKeeps ==
  ASSUME NEW s, NEW vs, NEW t, Keeps(s, vs), Takes(s, t), Head(s.queue).do # "attack"
  PROVE  Keeps(t, Released(vs, Head(s.queue)))
<1>1. PICK u : u = s.queue[1].voice
  OBVIOUS
<1>2. s.queue[1].do = "release" /\ Head(s.queue).voice = u
  BY <1>1, NextTaken DEF Commands
<1> DEFINE of == {i \in DOMAIN vs : vs[i].voice = u}
<1>3. PICK new : new = IF of = {} THEN vs ELSE [vs EXCEPT ![Min(of)].released = TRUE]
  OBVIOUS
<1>4. Released(vs, Head(s.queue)) = new
  BY <1>2, <1>3 DEF Released
<1>5. vs \in Seq(Strings) /\ DOMAIN vs = 1 .. Len(vs) /\ Len(vs) \in Nat
  BY DEF Keeps, Sounding
<1>6. of # {} => Min(of) \in DOMAIN vs /\ vs[Min(of)].voice = u
  <2>1. of \subseteq Nat
    BY <1>5
  <2>2. QED
    BY <2>1, MinIsLeast
<1>7. /\ new \in Seq(Strings) /\ DOMAIN new = DOMAIN vs
      /\ \A k \in DOMAIN vs : new[k].voice = vs[k].voice
      /\ \A k \in DOMAIN vs : ~new[k].released => ~vs[k].released /\ vs[k].voice # u
  <2>1. CASE of = {}
    BY <1>3, <1>5, <2>1
  <2>2. CASE of # {}
    <3>1. PICK m \in DOMAIN vs : m = Min(of)
      BY <1>6, <2>2
    <3> HIDE DEF of
    <3>2. new = [vs EXCEPT ![m].released = TRUE] /\ vs[m].voice = u
      BY <1>3, <1>6, <2>2, <3>1
    <3>3. \A k \in DOMAIN vs : vs[k] \in Strings
      BY <1>5
    <3>4. /\ DOMAIN new = DOMAIN vs
          /\ \A k \in DOMAIN vs : k # m => new[k] = vs[k]
          /\ new[m] = [vs[m] EXCEPT !.released = TRUE]
      BY <3>2
    <3>5. new[m] \in Strings /\ new[m].voice = vs[m].voice /\ new[m].released
      BY <3>3, <3>4 DEF Strings
    <3>6. new \in Seq(Strings)
      <4>1. new = [k \in 1 .. Len(vs) |-> new[k]]
        BY <1>5, <3>2
      <4>2. \A k \in 1 .. Len(vs) : new[k] \in Strings
        BY <1>5, <3>3, <3>4, <3>5
      <4>3. QED
        BY <1>5, <4>1, <4>2
    <3>7. \A k \in DOMAIN vs : vs[k].voice = u => k = m
      BY <3>2 DEF Keeps, Sounding
    <3>8. QED
      BY <3>4, <3>5, <3>6, <3>7
  <2>3. QED
    BY <2>1, <2>2
<1> HIDE DEF of
<1>8. ASSUME NEW k \in DOMAIN new
      PROVE  /\ new[k].voice <= t.sequence
             /\ \A l \in DOMAIN t.queue : t.queue[l].do = "attack" => t.queue[l].voice # new[k].voice
             /\ ~new[k].released => IsHeld(t, new[k].voice) \/ LetGoAfter(t, new[k].voice, 0)
  <2>1. t.sequence = s.sequence /\ k \in DOMAIN vs /\ new[k].voice = vs[k].voice
    BY <1>7 DEF Takes
  <2>2. \A l \in DOMAIN t.queue : t.queue[l].do = "attack" => t.queue[l].voice # new[k].voice
    BY SMTT(40), <2>1, NextTaken DEF Keeps, Sounding
  <2>3. ASSUME ~new[k].released
        PROVE  IsHeld(t, new[k].voice) \/ LetGoAfter(t, new[k].voice, 0)
    <3>1. ~vs[k].released /\ vs[k].voice # u
      BY <1>7, <2>1, <2>3
    <3>2. IsHeld(s, vs[k].voice) \/ LetGoAfter(s, vs[k].voice, 0)
      BY <2>1, <3>1 DEF Keeps, Sounding
    <3>3. QED
      BY <1>1, <2>1, <3>1, <3>2, StillComes, TakenKeeps
  <2>4. QED
    BY <2>1, <2>2, <2>3 DEF Keeps, Sounding
<1>9. Sounding(t, new)
  <2>1. \A k, l \in DOMAIN new : new[k].voice = new[l].voice => k = l
    BY <1>7 DEF Keeps, Sounding
  <2>2. QED
    BY <1>7, <1>8, <2>1 DEF Sounding
<1>10. QED
  BY <1>4, <1>9, TakenKeeps DEF Keeps
-----------------------------------------------------------------------------
(* The steps.                                                              *)

LEMMA InitKeeps == PianoInit => IInv
<1>1. SUFFICES ASSUME PianoInit PROVE IInv
  OBVIOUS
<1>2. /\ DOMAIN active = {} /\ voiceSequence = 0 /\ queue = <<>> /\ voices = <<>>
  BY <1>1 DEF PianoInit, NoNotes
<1>3. Struck.active = active /\ Struck.sequence = voiceSequence /\ Struck.queue = queue
  BY DEF Struck
<1> HIDE DEF Struck
<1>4. Formed(Struck)
  BY <1>2, <1>3, FS_EmptySet DEF Formed
<1>5. DOMAIN Struck.queue = {} /\ DOMAIN voices = {} /\ voices \in Seq(Strings)
  BY <1>2, <1>3
<1>6. OneStrike(Struck) /\ StrikesEnd(Struck) /\ Sounding(Struck, voices)
  BY <1>5 DEF OneStrike, StrikesEnd, Sounding
<1>7. InHand
  BY <1>2 DEF InHand
<1>8. QED
  BY <1>4, <1>6, <1>7 DEF IInv, Keeps

\* Struck, after an action.
LEMMA StruckFields ==
  /\ Struck.active = active /\ Struck.sequence = voiceSequence /\ Struck.queue = queue
BY DEF Struck

\* Keeps is about three fields of what is struck.
LEMMA SameKeeps ==
  ASSUME NEW s, NEW t, NEW vs, Keeps(s, vs),
         t.active = s.active, t.sequence = s.sequence, t.queue = s.queue
  PROVE  Keeps(t, vs)
<1>1. Formed(t) /\ OneStrike(t)
  BY DEF Keeps, Formed, OneStrike
<1>2. \A u : IsHeld(s, u) => IsHeld(t, u)
  BY DEF IsHeld
<1>3. \A u, k : LetGoAfter(s, u, k) => LetGoAfter(t, u, k)
  BY DEF LetGoAfter
<1>4. StrikesEnd(t) /\ Sounding(t, vs)
  BY <1>2, <1>3 DEF Keeps, StrikesEnd, Sounding
<1>5. QED
  BY <1>1, <1>4 DEF Keeps

LEMMA BecomesKeeps ==
  ASSUME NEW s, Keeps(s, voices), Becomes(s), UNCHANGED voices
  PROVE  Keeps(Struck', voices') /\ DOMAIN active' = DOMAIN s.active
<1>1. active' = s.active /\ voiceSequence' = s.sequence /\ queue' = s.queue
  BY DEF Becomes
<1>2. PICK t : t = Struck'
  OBVIOUS
<1>3. t.active = s.active /\ t.sequence = s.sequence /\ t.queue = s.queue
  BY <1>1, <1>2 DEF Struck
<1>4. Keeps(t, voices)
  BY <1>3, SameKeeps
<1>5. QED
  BY <1>1, <1>2, <1>4

LEMMA IdleKeeps ==
  ASSUME Keeps(Struck, voices), UNCHANGED struckVars, UNCHANGED voices
  PROVE  Keeps(Struck', voices') /\ active' = active
BY DEF struckVars, Struck

\* Another input struck, or one let go.
LEMMA HandAttacks ==
  ASSUME IInv, NEW input, NEW note, Becomes(attack_piano_note(Struck, input, note)),
         UNCHANGED voices
  PROVE  Keeps(Struck', voices') /\ DOMAIN active' = DOMAIN active \cup {input}
<1>1. PICK t : t = attack_piano_note(Struck, input, note)
  OBVIOUS
<1>2. Keeps(t, voices) /\ DOMAIN t.active = DOMAIN active \cup {input}
  BY <1>1, AttackKeeps, StruckFields DEF IInv
<1>3. QED
  BY <1>1, <1>2, BecomesKeeps

LEMMA HandReleases ==
  ASSUME IInv, NEW input, Becomes(release_piano_note(Struck, input)), UNCHANGED voices
  PROVE  Keeps(Struck', voices') /\ DOMAIN active' = DOMAIN active \ {input}
<1>1. PICK t : t = release_piano_note(Struck, input)
  OBVIOUS
<1>2. Keeps(t, voices) /\ DOMAIN t.active = DOMAIN active \ {input}
  BY <1>1, OneReleaseKeeps, StruckFields DEF IInv
<1>3. QED
  BY <1>1, <1>2, BecomesKeeps

\* What does not touch the strings, the keys or what is down.
LEMMA QuietKeeps ==
  ASSUME IInv, UNCHANGED <<struckVars, mouseNote, down, voices>>
  PROVE  IInv'
<1>1. /\ UNCHANGED struckVars /\ UNCHANGED voices /\ mouseNote' = mouseNote /\ down' = down
  OBVIOUS
<1>2. Keeps(Struck', voices') /\ active' = active
  BY <1>1, IdleKeeps DEF IInv
<1>3. InHand'
  BY <1>1, <1>2 DEF IInv, InHand
<1>4. QED
  BY <1>2, <1>3 DEF IInv

LEMMA ScoreKeeps == IInv /\ update_piano_score => IInv'
<1>1. SUFFICES ASSUME IInv, update_piano_score PROVE IInv'
  OBVIOUS
<1>2. PICK n \in 0..MaxEventsPerTick : Becomes(Performed(n).struck)
  BY <1>1 DEF update_piano_score, take_due
<1>3. UNCHANGED voices /\ UNCHANGED mouseNote /\ UNCHANGED down
  BY <1>1 DEF update_piano_score, keyVars
<1>4. PICK t : t = Performed(n).struck
  OBVIOUS
<1>5. Keeps(t, voices) /\ Plays(Struck, t)
  BY <1>1, <1>4, PerformedKeeps DEF IInv
<1>6. Keeps(Struck', voices') /\ DOMAIN active' = DOMAIN t.active
  BY <1>2, <1>3, <1>4, <1>5, BecomesKeeps
<1>7. \A i \in DOMAIN active' : i \in DOMAIN active \/ i[1] = "score"
  BY <1>5, <1>6, StruckFields DEF Plays
<1>8. InHand'
  <2>1. ASSUME NEW i \in DOMAIN active', i[1] # "score" PROVE i \in down'
    BY <1>1, <1>3, <1>7, <2>1 DEF IInv, InHand
  <2>2. <<"mouse">>[1] # "score"
    OBVIOUS
  <2>3. <<"mouse">> \in DOMAIN active' => mouseNote' # None
    BY <1>1, <1>3, <1>7, <2>2 DEF IInv, InHand
  <2>4. QED
    BY <2>1, <2>3 DEF InHand
<1>9. QED
  BY <1>6, <1>8 DEF IInv

\* An input other than the mouse is pressed, and may strike a note.
LEMMA PressKeeps ==
  ASSUME IInv, NEW input, input # <<"mouse">>, down' = down \cup {input},
         UNCHANGED <<mouseNote, voices>>,
         DOMAIN active' \subseteq DOMAIN active \cup {input}, Keeps(Struck', voices')
  PROVE  IInv'
BY DEF IInv, InHand

LEMMA KeyPressedKeeps == IInv /\ KeyPressed => IInv'
<1>1. SUFFICES ASSUME IInv, KeyPressed PROVE IInv'
  OBVIOUS
<1>2. UNCHANGED mouseNote /\ UNCHANGED voices
  BY <1>1 DEF KeyPressed
<1>3. PICK key \in Keys :
        /\ down' = down \cup {<<"key", key>>}
        /\ IF computer_key_note(key) = {} THEN UNCHANGED struckVars
           ELSE Becomes(attack_piano_note(Struck, <<"key", key>>,
                                          CHOOSE n \in computer_key_note(key) : TRUE))
  BY <1>1 DEF KeyPressed
<1>4. <<"key", key>> # <<"mouse">>
  OBVIOUS
<1>5. CASE computer_key_note(key) = {}
  <2>1. Keeps(Struck', voices') /\ active' = active
    BY <1>1, <1>2, <1>3, <1>5, IdleKeeps DEF IInv
  <2>2. QED
    BY <1>1, <1>2, <1>3, <1>4, <2>1, PressKeeps
<1>6. CASE computer_key_note(key) # {}
  <2>1. Keeps(Struck', voices') /\ DOMAIN active' = DOMAIN active \cup {<<"key", key>>}
    BY <1>1, <1>2, <1>3, <1>6, HandAttacks
  <2>2. QED
    BY <1>1, <1>2, <1>3, <1>4, <2>1, PressKeeps
<1>7. QED
  BY <1>5, <1>6

\* An input is let go, with the note it struck.
LEMMA LetGoKeeps ==
  ASSUME IInv, NEW input, down' = down \ {input}, UNCHANGED <<mouseNote, voices>>,
         Becomes(release_piano_note(Struck, input))
  PROVE  IInv'
<1>1. Keeps(Struck', voices') /\ DOMAIN active' = DOMAIN active \ {input}
  BY HandReleases
<1>2. QED
  BY <1>1 DEF IInv, InHand

LEMMA KeyReleasedKeeps == IInv /\ KeyReleased => IInv'
BY LetGoKeeps DEF KeyReleased

LEMMA FingerLiftedKeeps == IInv /\ FingerLifted => IInv'
BY LetGoKeeps DEF FingerLifted

LEMMA FingerPressedKeeps == IInv /\ FingerPressed => IInv'
<1>1. SUFFICES ASSUME IInv, FingerPressed PROVE IInv'
  OBVIOUS
<1>2. UNCHANGED mouseNote /\ UNCHANGED voices
  BY <1>1 DEF FingerPressed
<1>3. PICK finger \in Fingers, note \in ScreenNotes :
        /\ down' = down \cup {<<"touch", finger>>}
        /\ Becomes(attack_piano_note(Struck, <<"touch", finger>>, note))
  BY <1>1 DEF FingerPressed
<1>4. <<"touch", finger>> # <<"mouse">>
  OBVIOUS
<1>5. Keeps(Struck', voices') /\ DOMAIN active' = DOMAIN active \cup {<<"touch", finger>>}
  BY <1>1, <1>2, <1>3, HandAttacks
<1>6. QED
  BY <1>1, <1>2, <1>3, <1>4, <1>5, PressKeeps

LEMMA MousePressedKeeps == IInv /\ MousePressed => IInv'
<1>1. SUFFICES ASSUME IInv, MousePressed PROVE IInv'
  OBVIOUS
<1> DEFINE mouse == <<"mouse">>
<1>2. UNCHANGED voices /\ down' = down \cup {mouse}
  BY <1>1 DEF MousePressed
<1>3. \/ UNCHANGED mouseNote /\ UNCHANGED struckVars
      \/ \E note \in ScreenNotes :
           /\ mouseNote' = note
           /\ IF mouseNote # None THEN UNCHANGED struckVars
              ELSE Becomes(attack_piano_note(Struck, mouse, note))
  BY <1>1 DEF MousePressed
<1> HIDE DEF mouse
<1>4. Keeps(Struck', voices') /\ DOMAIN active' \subseteq DOMAIN active \cup {mouse}
  <2>1. CASE UNCHANGED struckVars
    BY <1>1, <1>2, <2>1, IdleKeeps DEF IInv
  <2>2. CASE ~UNCHANGED struckVars
    <3>1. PICK note \in ScreenNotes : Becomes(attack_piano_note(Struck, mouse, note))
      BY <1>3, <2>2
    <3>2. QED
      BY <1>1, <1>2, <3>1, HandAttacks
  <2>3. QED
    BY <2>1, <2>2
<1>5. (mouseNote' # None) \/ (mouseNote' = mouseNote /\ active' = active)
  BY <1>3, PianoAssumption DEF struckVars
<1>6. \A i \in DOMAIN active' : i[1] # "score" => i \in down'
  BY <1>1, <1>2, <1>4 DEF IInv, InHand
<1>7. <<"mouse">> \in DOMAIN active' => mouseNote' # None
  BY <1>1, <1>5 DEF IInv, InHand
<1>8. QED
  BY <1>4, <1>6, <1>7 DEF IInv, InHand

LEMMA MouseReleasedKeeps == IInv /\ MouseReleased => IInv'
<1>1. SUFFICES ASSUME IInv, MouseReleased PROVE IInv'
  OBVIOUS
<1> DEFINE mouse == <<"mouse">>
<1>2. UNCHANGED voices /\ down' = down \ {mouse}
  BY <1>1 DEF MouseReleased
<1>3. IF mouseNote = None THEN UNCHANGED struckVars
      ELSE Becomes(release_piano_note(Struck, mouse))
  BY <1>1 DEF MouseReleased
<1>4. mouseNote = None => mouse \notin DOMAIN active
  BY <1>1 DEF IInv, InHand
<1> HIDE DEF mouse
<1>5. Keeps(Struck', voices') /\ DOMAIN active' = DOMAIN active \ {mouse}
  <2>1. CASE mouseNote = None
    BY <1>1, <1>2, <1>3, <1>4, <2>1, IdleKeeps DEF IInv
  <2>2. CASE mouseNote # None
    BY <1>1, <1>2, <1>3, <2>2, HandReleases
  <2>3. QED
    BY <2>1, <2>2
<1>6. \A i \in DOMAIN active' : i[1] # "score" => i \in down'
  BY <1>1, <1>2, <1>5 DEF IInv, InHand
<1>7. <<"mouse">> \notin DOMAIN active'
  BY <1>5 DEF mouse
<1>8. QED
  BY <1>5, <1>6, <1>7 DEF IInv, InHand

\* The audio thread's own steps leave what is held and what is down.
LEMMA StringsKeep ==
  ASSUME IInv, UNCHANGED <<active, mouseNote, down>>, Keeps(Struck', voices')
  PROVE  IInv'
BY DEF IInv, InHand

LEMMA PerformCommandKeeps == IInv /\ PerformCommand => IInv'
<1>1. SUFFICES ASSUME IInv, PerformCommand PROVE IInv'
  OBVIOUS
<1>2. UNCHANGED active /\ UNCHANGED voiceSequence /\ UNCHANGED mouseNote /\ UNCHANGED down
  BY <1>1 DEF PerformCommand, keyVars
<1>3. PICK s : s = Struck
  OBVIOUS
<1>4. PICK t : t = Struck'
  OBVIOUS
<1>5. Keeps(s, voices) /\ s.active = active /\ s.sequence = voiceSequence /\ s.queue = queue
  BY <1>1, <1>3, StruckFields DEF IInv
<1>6. t.active = active' /\ t.sequence = voiceSequence' /\ t.queue = queue'
  BY <1>4 DEF Struck
<1>7. Takes(s, t)
  BY <1>1, <1>2, <1>5, <1>6 DEF PerformCommand, Takes
<1>8. voices' = IF Head(s.queue).do = "attack" THEN Attacked(voices, Head(s.queue))
                ELSE Released(voices, Head(s.queue))
  BY <1>1, <1>5 DEF PerformCommand
<1>9. Keeps(t, voices')
  BY <1>5, <1>7, <1>8, AttackedKeeps, ReleasedKeeps
<1>10. QED
  BY <1>1, <1>2, <1>4, <1>9, StringsKeep

LEMMA StringFadesKeeps == IInv /\ StringFades => IInv'
<1>1. SUFFICES ASSUME IInv, StringFades PROVE IInv'
  OBVIOUS
<1>2. /\ UNCHANGED active /\ UNCHANGED voiceSequence /\ UNCHANGED queue
      /\ UNCHANGED mouseNote /\ UNCHANGED down
  BY <1>1 DEF StringFades, keyVars, struckVars
<1>3. PICK i \in DOMAIN voices : voices' = RemoveAt(voices, i)
  BY <1>1 DEF StringFades
<1>4. PICK s : s = Struck
  OBVIOUS
<1>5. Struck' = s
  BY <1>2, <1>4 DEF Struck
<1>6. Keeps(s, voices')
  BY <1>1, <1>3, <1>4, DropKeeps DEF IInv, Keeps
<1>7. QED
  BY <1>1, <1>2, <1>5, <1>6, StringsKeep

LEMMA NextKeeps ==
  IInv /\ [PianoNext \/ (ToolNext /\ UNCHANGED pianoVars)]_<<toolVars, pianoVars>> => IInv'
<1>1. SUFFICES ASSUME IInv, [PianoNext \/ (ToolNext /\ UNCHANGED pianoVars)]_<<toolVars, pianoVars>>
               PROVE  IInv'
  OBVIOUS
<1>2. CASE OpenSilent
  BY <1>1, <1>2, QuietKeeps DEF OpenSilent, keyVars
<1>3. CASE OpenPlaying
  BY <1>1, <1>3, QuietKeeps DEF OpenPlaying, keyVars
<1>4. CASE update_piano_score
  BY <1>1, <1>4, ScoreKeeps
<1>5. CASE TimePasses
  BY <1>1, <1>5, QuietKeeps DEF TimePasses, keyVars
<1>6. CASE KeyPressed
  BY <1>1, <1>6, KeyPressedKeeps
<1>7. CASE KeyReleased
  BY <1>1, <1>7, KeyReleasedKeeps
<1>8. CASE OctaveSelected
  BY <1>1, <1>8, QuietKeeps DEF OctaveSelected
<1>9. CASE ShiftMoves
  BY <1>1, <1>9, QuietKeeps DEF ShiftMoves
<1>10. CASE MousePressed
  BY <1>1, <1>10, MousePressedKeeps
<1>11. CASE MouseReleased
  BY <1>1, <1>11, MouseReleasedKeeps
<1>12. CASE FingerPressed
  BY <1>1, <1>12, FingerPressedKeeps
<1>13. CASE FingerLifted
  BY <1>1, <1>13, FingerLiftedKeeps
<1>14. CASE PerformCommand
  BY <1>1, <1>14, PerformCommandKeeps
<1>15. CASE StringFades
  BY <1>1, <1>15, StringFadesKeeps
<1>16. CASE UNCHANGED pianoVars
  BY <1>1, <1>16, QuietKeeps DEF pianoVars, keyVars
<1>17. QED
  BY <1>1, <1>2, <1>3, <1>4, <1>5, <1>6, <1>7, <1>8, <1>9, <1>10, <1>11, <1>12, <1>13,
     <1>14, <1>15, <1>16 DEF PianoNext

LEMMA InvariantShows == IInv => NothingStuck
<1>1. SUFFICES ASSUME IInv PROVE NothingStuck
  OBVIOUS
<1>2. \A i \in DOMAIN active : i[1] # "score" => i \in down
  BY <1>1 DEF IInv, InHand
<1>3. ASSUME NEW k \in DOMAIN voices, ~voices[k].released
      PROVE  voices[k].voice \in ActiveVoices \/ ReleaseQueued(voices[k].voice)
  <2>1. IsHeld(Struck, voices[k].voice) \/ LetGoAfter(Struck, voices[k].voice, 0)
    BY <1>1, <1>3 DEF IInv, Keeps, Sounding
  <2>2. IsHeld(Struck, voices[k].voice) => voices[k].voice \in ActiveVoices
    BY StruckFields DEF IsHeld, ActiveVoices
  <2>3. LetGoAfter(Struck, voices[k].voice, 0) => ReleaseQueued(voices[k].voice)
    BY StruckFields DEF LetGoAfter, ReleaseQueued
  <2>4. QED
    BY <2>1, <2>2, <2>3
<1>4. QED
  BY <1>2, <1>3 DEF NothingStuck

\* No note stays held or sounding once its key is let go, in any behaviour of
\* the piano (attack_piano_note, release_piano_note, PianoSynth::command).
THEOREM NoNoteSticks == PianoSpec => []NothingStuck
<1>1. PianoInit => IInv
  BY InitKeeps
<1>2. IInv /\ [PianoNext \/ (ToolNext /\ UNCHANGED pianoVars)]_<<toolVars, pianoVars>> => IInv'
  BY NextKeeps
<1>3. IInv => NothingStuck
  BY InvariantShows
<1>4. QED
  BY <1>1, <1>2, <1>3, PTL DEF PianoSpec

-----------------------------------------------------------------------------
(* Numbers in order.                                                       *)

\* A rank counts the smaller members, so it grows with the member,
LEMMA RankGrows ==
  ASSUME NEW S, S \subseteq Nat, IsFiniteSet(S), NEW x \in S
  PROVE  /\ Rank(x, S) \in Nat /\ Rank(x, S) < Cardinality(S)
         /\ \A y \in S : x < y => Rank(x, S) < Rank(y, S)
<1> DEFINE Less(y) == {z \in S : z < y}
<1>1. \A y \in S : /\ Less(y) \subseteq S /\ y \notin Less(y)
                   /\ Rank(y, S) = Cardinality(Less(y))
  BY DEF Rank
<1>2. ASSUME NEW y \in S, x < y PROVE Less(x) \subseteq Less(y) /\ x \in Less(y)
  <2>1. \A z \in S : z < x => z < y
    <3>1. TAKE z \in S
    <3>2. x \in Nat /\ y \in Nat /\ z \in Nat
      OBVIOUS
    <3>3. QED
      BY <1>2, <3>2
  <2>2. QED
    BY <1>2, <2>1
<1>3. Cardinality(S) \in Nat
  BY FS_CardinalityType
<1> HIDE DEF Less
<1>4. \A y \in S : IsFiniteSet(Less(y)) /\ Cardinality(Less(y)) \in Nat
  BY <1>1, FS_Subset, FS_CardinalityType
<1>5. Cardinality(Less(x)) <= Cardinality(S) /\ Cardinality(Less(x)) # Cardinality(S)
  <2>1. Less(x) \in SUBSET S /\ Less(x) # S
    BY <1>1
  <2>2. QED
    BY <2>1, FS_Subset
<1>6. ASSUME NEW y \in S, x < y PROVE Rank(x, S) < Rank(y, S)
  <2>1. Cardinality(Less(x)) <= Cardinality(Less(y)) /\ Cardinality(Less(x)) # Cardinality(Less(y))
    <3>1. Less(x) \in SUBSET Less(y) /\ Less(x) # Less(y) /\ IsFiniteSet(Less(y))
      BY <1>1, <1>2, <1>4, <1>6
    <3>2. QED
      BY <3>1, FS_Subset
  <2>2. QED
    BY <1>1, <1>4, <2>1
<1>7. QED
  BY <1>1, <1>3, <1>4, <1>5, <1>6

\* no two members share one,
LEMMA RankTells ==
  ASSUME NEW S, S \subseteq Nat, IsFiniteSet(S), NEW x \in S, NEW y \in S,
         Rank(x, S) = Rank(y, S)
  PROVE  x = y
<1>1. x \in Nat /\ y \in Nat /\ Rank(x, S) \in Nat
  BY RankGrows
<1>2. ~(x < y) /\ ~(y < x)
  <2>1. x < y => Rank(x, S) < Rank(y, S)
    BY RankGrows
  <2>2. y < x => Rank(y, S) < Rank(x, S)
    BY RankGrows
  <2>3. QED
    BY <1>1, <2>1, <2>2
<1>3. QED
  BY <1>1, <1>2

\* and every number below their number is the rank of one.
LEMMA RankReached ==
  ASSUME NEW S, S \subseteq Nat, IsFiniteSet(S), NEW k \in 0 .. Cardinality(S) - 1
  PROVE  \E x \in S : Rank(x, S) = k
<1> DEFINE n == Cardinality(S)
           T == 0 .. n - 1
           f == [x \in S |-> Rank(x, S)]
<1>1. n \in Nat
  BY FS_CardinalityType
<1>2. f \in [S -> T]
  <2>1. ASSUME NEW x \in S PROVE Rank(x, S) \in T
    <3>1. Rank(x, S) \in Nat /\ Rank(x, S) < n
      BY RankGrows
    <3> HIDE DEF n
    <3>2. QED
      BY <1>1, <3>1
  <2> HIDE DEF T
  <2>2. QED
    BY <2>1
<1>3. IsInjective(f)
  <2>1. \A x, y \in S : f[x] = f[y] => x = y
    BY RankTells
  <2>2. QED
    BY <2>1 DEF IsInjective
<1>4. f \in Injection(S, T)
  BY <1>2, <1>3 DEF Injection
<1>5. IsFiniteSet(T) /\ Cardinality(T) = n
  <2>0. 0 \in Int /\ n - 1 \in Int
    BY <1>1
  <2>1. IsFiniteSet(0 .. n - 1) /\ Cardinality(0 .. n - 1) = IF 0 > n - 1 THEN 0 ELSE n - 1 - 0 + 1
    BY <2>0, FS_Interval
  <2>2. 0 > n - 1 <=> n = 0
    BY <1>1
  <2>3. (IF 0 > n - 1 THEN 0 ELSE n - 1 - 0 + 1) = n
    BY <1>1, <2>2
  <2> HIDE DEF n
  <2>4. QED
    BY <2>1, <2>3
<1> HIDE DEF T, n
<1>6. f \in Surjection(S, T)
  BY <1>4, <1>5, FS_Injection DEF n
<1>7. k \in T
  BY DEF T, n
<1>8. QED
  BY <1>6, <1>7 DEF Surjection

LEMMA SortedIdsLists ==
  ASSUME NEW S, S \subseteq Nat, IsFiniteSet(S)
  PROVE  /\ SortedIds(S) \in Seq(S) /\ Len(SortedIds(S)) = Cardinality(S)
         /\ \A k, l \in 1 .. Len(SortedIds(S)) : SortedIds(S)[k] = SortedIds(S)[l] => k = l
<1> DEFINE n == Cardinality(S)
           s == SortedIds(S)
<1>1. n \in Nat
  BY FS_CardinalityType
<1>2. ASSUME NEW k \in 1 .. n PROVE s[k] \in S /\ Rank(s[k], S) = k - 1
  <2>1. k - 1 \in 0 .. n - 1
    BY <1>1
  <2>2. \E x \in S : Rank(x, S) = k - 1
    BY <2>1, RankReached
  <2>3. s[k] = CHOOSE x \in S : Rank(x, S) = k - 1
    BY DEF SortedIds
  <2>4. QED
    BY <2>2, <2>3
<1>3. s = [k \in 1 .. n |-> s[k]]
  BY DEF SortedIds
<1> HIDE DEF s, n
<1>4. s \in [1 .. n -> S]
  BY <1>2, <1>3
<1>5. s \in Seq(S) /\ Len(s) = n
  BY <1>1, <1>4
<1>6. \A k, l \in 1 .. n : s[k] = s[l] => k = l
  <2>1. TAKE k, l \in 1 .. n
  <2>2. Rank(s[k], S) = k - 1 /\ Rank(s[l], S) = l - 1
    BY <1>2
  <2>3. QED
    BY <1>1, <2>2
<1>7. QED
  BY <1>5, <1>6 DEF s, n

\* The greatest of finitely many numbers is the one of the highest rank.
LEMMA MaxIsGreatest ==
  ASSUME NEW S, S \subseteq Nat, IsFiniteSet(S), S # {}
  PROVE  Max(S) \in S /\ \A x \in S : x <= Max(S)
<1> DEFINE n == Cardinality(S)
           D == {n - Rank(x, S) : x \in S}
<1>1. n \in Nat
  BY FS_CardinalityType
<1>2. ASSUME NEW x \in S PROVE x \in Nat /\ Rank(x, S) \in Nat /\ n - Rank(x, S) \in Nat
  <2>1. Rank(x, S) \in Nat /\ Rank(x, S) < n
    BY RankGrows
  <2> HIDE DEF n
  <2>2. QED
    BY <1>1, <2>1
<1> HIDE DEF n
<1>3. D \subseteq Nat /\ D # {}
  BY <1>2
<1>4. PICK m \in D : \A k \in D : m <= k
  BY <1>3, LeastNumber
<1>5. PICK x \in S : m = n - Rank(x, S)
  BY <1>4
<1>6. ASSUME NEW y \in S PROVE x >= y
  <2>1. n - Rank(y, S) \in D
    OBVIOUS
  <2>2. ~(x < y)
    <3>1. x < y => Rank(x, S) < Rank(y, S)
      BY RankGrows
    <3>2. QED
      BY <1>1, <1>2, <1>4, <1>5, <2>1, <3>1
  <2>3. QED
    BY <1>2, <2>2
<1>7. \A y \in S : x >= y
  BY <1>6
<1>8. Max(S) \in S /\ \A y \in S : Max(S) >= y
  BY <1>7 DEF Max
<1>9. QED
  BY <1>2, <1>8

LEMMA Next1Exceeds ==
  ASSUME NEW S, S \subseteq Nat, IsFiniteSet(S)
  PROVE  Next1(S) \in Nat /\ \A x \in S : x < Next1(S)
<1> DEFINE T == {0} \cup S
<1>1. T \subseteq Nat /\ T # {} /\ T = S \cup {0}
  OBVIOUS
<1>2. IsFiniteSet(T)
  BY <1>1, FS_AddElement
<1>3. Max(T) \in T /\ \A x \in T : x <= Max(T)
  BY <1>1, <1>2, MaxIsGreatest
<1>4. Next1(S) = Max(T) + 1
  BY DEF Next1
<1> HIDE DEF T
<1>5. Max(T) \in Nat /\ \A x \in S : x \in Nat /\ x <= Max(T)
  BY <1>1, <1>3 DEF T
<1>6. QED
  BY <1>4, <1>5
-----------------------------------------------------------------------------
(* Joining a nested graph.                                                 *)

IsCell(c) ==
  /\ c = [sun |-> c.sun, local |-> c.local, ports |-> c.ports, warp |-> c.warp,
          panel |-> c.panel, seq |-> c.seq]
  /\ IsFiniteSet(c.ports) /\ c.ports \subseteq Nat

IsGraph(g) ==
  /\ IsFiniteSet(DOMAIN g.cells) /\ DOMAIN g.cells \subseteq Nat
  /\ \A i \in DOMAIN g.cells : IsCell(g.cells[i])
  /\ DOMAIN g.paths = {i \in DOMAIN g.cells : g.cells[i].warp # NoSun}

LEMMA WithPorts ==
  ASSUME NEW c, IsCell(c), NEW P, P \subseteq Nat, IsFiniteSet(P)
  PROVE  LET d == [c EXCEPT !.ports = P]
         IN  IsCell(d) /\ d.ports = P /\ d.sun = c.sun /\ d.local = c.local /\ d.warp = c.warp
<1>1. PICK r : r = [sun |-> c.sun, local |-> c.local, ports |-> c.ports, warp |-> c.warp,
                    panel |-> c.panel, seq |-> c.seq]
  OBVIOUS
<1>2. c = r
  BY <1>1 DEF IsCell
<1> DEFINE d == [r EXCEPT !.ports = P]
<1>3. d = [sun |-> c.sun, local |-> c.local, ports |-> P, warp |-> c.warp,
           panel |-> c.panel, seq |-> c.seq]
  BY <1>1
<1> HIDE DEF d
<1>4. IsCell(d) /\ d.ports = P /\ d.sun = c.sun /\ d.local = c.local /\ d.warp = c.warp
  BY <1>3 DEF IsCell
<1>5. QED
  BY <1>2, <1>4 DEF d

LEMMA PortsAreFinite ==
  ASSUME NEW g, IsGraph(g)
  PROVE  /\ IsFiniteSet(PortsOf(g.cells)) /\ PortsOf(g.cells) \subseteq Nat
         /\ \A i \in DOMAIN g.cells : g.cells[i].ports \subseteq PortsOf(g.cells)
<1> DEFINE D == DOMAIN g.cells
           T == {g.cells[i].ports : i \in D}
           f == [i \in D |-> g.cells[i].ports]
<1>1. f \in Surjection(D, T)
  BY DEF Surjection
<1>2. IsFiniteSet(T)
  BY <1>1, FS_Surjection DEF IsGraph
<1>3. \A S \in T : IsFiniteSet(S) /\ S \subseteq Nat
  BY DEF IsGraph, IsCell
<1>4. PortsOf(g.cells) = UNION T
  BY DEF PortsOf
<1>5. \A i \in D : g.cells[i].ports \in T
  OBVIOUS
<1> HIDE DEF T, D, f
<1>6. IsFiniteSet(UNION T)
  BY <1>2, <1>3, FS_UNION
<1>7. QED
  BY <1>3, <1>4, <1>5, <1>6 DEF D

\* Numbers given in order from n on are new, and no two are the same.
LEMMA FreshNumbers ==
  ASSUME NEW S, S \subseteq Nat, IsFiniteSet(S), NEW n \in Nat
  PROVE  /\ \A x \in S : /\ n + Rank(x, S) \in Nat /\ n <= n + Rank(x, S)
                         /\ n + Rank(x, S) < n + Cardinality(S)
         /\ \A x, y \in S : n + Rank(x, S) = n + Rank(y, S) => x = y
<1>1. \A x \in S : Rank(x, S) \in Nat /\ Rank(x, S) < Cardinality(S)
  BY RankGrows
<1>2. Cardinality(S) \in Nat
  BY FS_CardinalityType
<1>3. \A x \in S : /\ n + Rank(x, S) \in Nat /\ n <= n + Rank(x, S)
                   /\ n + Rank(x, S) < n + Cardinality(S)
  BY <1>1, <1>2
<1>4. ASSUME NEW x \in S, NEW y \in S, n + Rank(x, S) = n + Rank(y, S) PROVE x = y
  <2>1. Rank(x, S) = Rank(y, S)
    BY <1>1, <1>4
  <2>2. QED
    BY <2>1, RankTells
<1>5. QED
  BY <1>3, <1>4

\* What joining does, in terms of the names it gives.
Names(acc, nested, sink, Id, Port, connector) ==
  LET D == DOMAIN nested.cells
  IN  /\ \A i \in D : Id[i] \in Nat /\ Id[i] \notin DOMAIN acc.cells
      /\ \A i, j \in D : Id[i] = Id[j] => i = j
      /\ connector \in Nat /\ connector \notin PortsOf(acc.cells)
      /\ \A p \in PortsOf(nested.cells) :
           Port[p] \in Nat /\ Port[p] \notin PortsOf(acc.cells) /\ Port[p] # connector
      /\ \A p, q \in PortsOf(nested.cells) : Port[p] = Port[q] => p = q

Renamed(nested, sink, Port, connector, i) ==
  {Port[p] : p \in nested.cells[i].ports} \cup (IF i = sink THEN {connector} ELSE {})

JoinedAs(g, acc, parent, nested, sink, Id, Port, connector) ==
  LET D == DOMAIN nested.cells
      new == {Id[i] : i \in D}
  IN  /\ DOMAIN g.cells = new \cup DOMAIN acc.cells
      /\ \A i \in DOMAIN acc.cells : g.cells[i] = acc.cells[i]
      /\ \A i \in D : g.cells[Id[i]] =
           [nested.cells[i] EXCEPT !.ports = Renamed(nested, sink, Port, connector, i)]
      /\ g.edges = acc.edges \cup {<<Id[e[1]], Id[e[2]], Port[e[3]]>> : e \in nested.edges}
                   \cup {<<parent, Id[sink], connector>>}
      /\ DOMAIN g.paths = {Id[i] : i \in DOMAIN nested.paths} \cup DOMAIN acc.paths
      /\ \A i \in DOMAIN acc.paths : g.paths[i] = acc.paths[i]
      /\ \A i \in DOMAIN nested.paths : g.paths[Id[i]] = <<parent>> \o nested.paths[i]

LEMMA JoinedNames ==
  ASSUME NEW acc, NEW parent, NEW nested, NEW sink,
         IsGraph(acc), IsGraph(nested), Valid(nested.cells, nested.edges),
         sink \in DOMAIN nested.cells
  PROVE  \E Id, Port, connector :
           /\ Names(acc, nested, sink, Id, Port, connector)
           /\ JoinedAs(Joined(acc, parent, nested, sink), acc, parent, nested, sink, Id, Port,
                       connector)
<1> DEFINE D == DOMAIN nested.cells
           P == PortsOf(nested.cells)
           n == Next1(DOMAIN acc.cells)
           m == Next1(PortsOf(acc.cells))
           connector == m + Cardinality(P)
           Id == [i \in D |-> n + Rank(i, D)]
           Port == [p \in P |-> m + Rank(p, P)]
           Local(id) == CHOOSE i \in D : n + Rank(i, D) = id
<1>1. /\ D \subseteq Nat /\ IsFiniteSet(D) /\ P \subseteq Nat /\ IsFiniteSet(P)
      /\ \A i \in D : nested.cells[i].ports \subseteq P
      /\ DOMAIN nested.paths \subseteq D /\ DOMAIN acc.paths \subseteq DOMAIN acc.cells
  BY PortsAreFinite DEF IsGraph
<1>2. n \in Nat /\ \A i \in DOMAIN acc.cells : i \in Nat /\ i < n
  BY Next1Exceeds DEF IsGraph
<1>3. m \in Nat /\ \A p \in PortsOf(acc.cells) : p \in Nat /\ p < m
  BY PortsAreFinite, Next1Exceeds
<1>4. Cardinality(P) \in Nat
  BY <1>1, FS_CardinalityType
<1> DEFINE g == Joined(acc, parent, nested, sink)
           new == {n + Rank(i, D) : i \in D}
           newCells == [id \in new |->
                          [nested.cells[Local(id)] EXCEPT
                             !.ports = {m + Rank(p, P) : p \in @}
                                       \cup (IF Local(id) = sink THEN {connector} ELSE {})]]
           newPaths == [id \in {n + Rank(i, D) : i \in DOMAIN nested.paths} |->
                          <<parent>> \o nested.paths[Local(id)]]
<1>5. g = [cells |-> Over(newCells, acc.cells),
           edges |-> acc.edges
                     \cup {<<n + Rank(e[1], D), n + Rank(e[2], D), m + Rank(e[3], P)>> :
                             e \in nested.edges}
                     \cup {<<parent, n + Rank(sink, D), connector>>},
           paths |-> Over(newPaths, acc.paths)]
  BY Zenon DEF Joined
<1> HIDE DEF g
<1> HIDE DEF newCells, newPaths, connector, n, m
<1>6. /\ \A i \in D : n + Rank(i, D) \in Nat /\ n <= n + Rank(i, D)
      /\ \A i, j \in D : n + Rank(i, D) = n + Rank(j, D) => i = j
  BY <1>1, <1>2, FreshNumbers
<1>7. /\ \A p \in P : m + Rank(p, P) \in Nat /\ m <= m + Rank(p, P)
                      /\ m + Rank(p, P) < connector
      /\ \A p, q \in P : m + Rank(p, P) = m + Rank(q, P) => p = q
  BY <1>1, <1>3, FreshNumbers DEF connector
<1>8. \A i \in D : Local(n + Rank(i, D)) = i
  <2>1. TAKE i \in D
  <2>2. \A j \in D : n + Rank(j, D) = n + Rank(i, D) => j = i
    BY <1>6
  <2>3. QED
    BY <2>2
<1>9. /\ \A i \in D : Id[i] = n + Rank(i, D)
      /\ \A p \in P : Port[p] = m + Rank(p, P)
  OBVIOUS
<1> HIDE DEF Id, Port, Local
<1>10. Names(acc, nested, sink, Id, Port, connector)
  <2>1. \A i \in D : Id[i] \in Nat /\ Id[i] \notin DOMAIN acc.cells
    <3>1. TAKE i \in D
    <3>2. Id[i] \in Nat /\ n <= Id[i]
      BY <1>6, <1>9
    <3>3. QED
      BY <1>2, <3>2
  <2>2. \A i, j \in D : Id[i] = Id[j] => i = j
    BY <1>6, <1>9
  <2>3. connector \in Nat /\ connector \notin PortsOf(acc.cells)
    <3>1. connector \in Nat /\ m <= connector
      BY <1>3, <1>4 DEF connector
    <3>2. QED
      BY <1>3, <3>1
  <2>4. \A p \in P : Port[p] \in Nat /\ Port[p] \notin PortsOf(acc.cells) /\ Port[p] # connector
    <3>1. TAKE p \in P
    <3>2. Port[p] \in Nat /\ m <= Port[p] /\ Port[p] < connector
      BY <1>7, <1>9
    <3>3. QED
      BY <1>3, <2>3, <3>2
  <2>5. \A p, q \in P : Port[p] = Port[q] => p = q
    BY <1>7, <1>9
  <2>6. QED
    BY <2>1, <2>2, <2>3, <2>4, <2>5 DEF Names
<1>11. new = {Id[i] : i \in D} /\ DOMAIN newCells = new
  BY <1>9 DEF newCells
<1>12. {n + Rank(i, D) : i \in DOMAIN nested.paths} = {Id[i] : i \in DOMAIN nested.paths}
       /\ DOMAIN newPaths = {Id[i] : i \in DOMAIN nested.paths}
  BY <1>1, <1>9 DEF newPaths
<1>13. \A i \in D : Id[i] \in new
  BY <1>11
<1> HIDE DEF new
<1>14. DOMAIN g.cells = new \cup DOMAIN acc.cells
  BY <1>5, <1>11 DEF Over
<1>15. ASSUME NEW i \in DOMAIN acc.cells PROVE g.cells[i] = acc.cells[i]
  <2>1. i \notin new
    BY <1>10, <1>11 DEF Names
  <2>2. QED
    BY <1>5, <1>11, <1>15, <2>1 DEF Over
<1>16. ASSUME NEW i \in D
       PROVE  g.cells[Id[i]] =
                [nested.cells[i] EXCEPT !.ports = Renamed(nested, sink, Port, connector, i)]
  <2>1. g.cells[Id[i]] = newCells[Id[i]]
    BY <1>5, <1>11, <1>13 DEF Over
  <2>2. Local(Id[i]) = i
    BY <1>8, <1>9
  <2>3. {m + Rank(p, P) : p \in nested.cells[i].ports} = {Port[p] : p \in nested.cells[i].ports}
    BY <1>1, <1>9
  <2>4. newCells[Id[i]] = [nested.cells[i] EXCEPT
                             !.ports = {m + Rank(p, P) : p \in @}
                                       \cup (IF i = sink THEN {connector} ELSE {})]
    BY <1>13, <2>2 DEF newCells
  <2>5. QED
    BY <2>1, <2>3, <2>4 DEF Renamed
<1>17. g.edges = acc.edges \cup {<<Id[e[1]], Id[e[2]], Port[e[3]]>> : e \in nested.edges}
                 \cup {<<parent, Id[sink], connector>>}
  <2>1. \A e \in nested.edges : e[1] \in D /\ e[2] \in D /\ e[3] \in P
    BY <1>1 DEF Valid
  <2>2. \A e \in nested.edges : <<n + Rank(e[1], D), n + Rank(e[2], D), m + Rank(e[3], P)>>
                                = <<Id[e[1]], Id[e[2]], Port[e[3]]>>
    BY <1>9, <2>1
  <2>3. {<<n + Rank(e[1], D), n + Rank(e[2], D), m + Rank(e[3], P)>> : e \in nested.edges}
        = {<<Id[e[1]], Id[e[2]], Port[e[3]]>> : e \in nested.edges}
    BY <2>2
  <2>4. n + Rank(sink, D) = Id[sink]
    BY <1>9
  <2>5. QED
    BY <1>5, <2>3, <2>4
<1>18. DOMAIN g.paths = {Id[i] : i \in DOMAIN nested.paths} \cup DOMAIN acc.paths
  BY <1>5, <1>12 DEF Over
<1>19. ASSUME NEW i \in DOMAIN acc.paths PROVE g.paths[i] = acc.paths[i]
  <2>1. i \notin DOMAIN newPaths
    BY <1>1, <1>10, <1>12 DEF Names
  <2>2. QED
    BY <1>5, <1>19, <2>1 DEF Over
<1>20. ASSUME NEW i \in DOMAIN nested.paths
       PROVE  g.paths[Id[i]] = <<parent>> \o nested.paths[i]
  <2>1. Id[i] \in DOMAIN newPaths
    BY <1>12
  <2>2. g.paths[Id[i]] = newPaths[Id[i]]
    BY <1>5, <2>1 DEF Over
  <2>3. Local(Id[i]) = i
    BY <1>1, <1>8, <1>9
  <2>4. QED
    BY <1>12, <2>1, <2>2, <2>3 DEF newPaths
<1>21. JoinedAs(g, acc, parent, nested, sink, Id, Port, connector)
  BY <1>11, <1>14, <1>15, <1>16, <1>17, <1>18, <1>19, <1>20 DEF JoinedAs
<1>22. QED
  BY <1>10, <1>21 DEF g

LEMMA JoinedCells ==
  ASSUME NEW g, NEW acc, NEW parent, NEW nested, NEW sink, NEW Id, NEW Port, NEW connector,
         IsGraph(acc), IsGraph(nested), Names(acc, nested, sink, Id, Port, connector),
         JoinedAs(g, acc, parent, nested, sink, Id, Port, connector),
         NEW i \in DOMAIN nested.cells
  PROVE  /\ Id[i] \in DOMAIN g.cells /\ Id[i] \notin DOMAIN acc.cells
         /\ IsCell(g.cells[Id[i]])
         /\ g.cells[Id[i]].ports = Renamed(nested, sink, Port, connector, i)
         /\ g.cells[Id[i]].sun = nested.cells[i].sun
         /\ g.cells[Id[i]].local = nested.cells[i].local
         /\ g.cells[Id[i]].warp = nested.cells[i].warp
<1> DEFINE P == nested.cells[i].ports
           R == {Port[p] : p \in P}
           f == [p \in P |-> Port[p]]
<1>1. IsCell(nested.cells[i]) /\ IsFiniteSet(P) /\ P \subseteq PortsOf(nested.cells)
  BY PortsAreFinite DEF IsGraph, IsCell
<1>2. f \in Surjection(P, R)
  BY DEF Surjection
<1>3. IsFiniteSet(R)
  BY <1>1, <1>2, FS_Surjection
<1>4. R \subseteq Nat /\ connector \in Nat
  BY <1>1 DEF Names
<1> HIDE DEF R, f, P
<1>5. IsFiniteSet(R \cup {connector})
  BY <1>3, FS_AddElement
<1>6. Renamed(nested, sink, Port, connector, i) = IF i = sink THEN R \cup {connector} ELSE R
  BY DEF Renamed, R, P
<1>7. IsFiniteSet(Renamed(nested, sink, Port, connector, i))
      /\ Renamed(nested, sink, Port, connector, i) \subseteq Nat
  BY <1>3, <1>4, <1>5, <1>6
<1>8. g.cells[Id[i]]
      = [nested.cells[i] EXCEPT !.ports = Renamed(nested, sink, Port, connector, i)]
  BY DEF JoinedAs
<1>9. Id[i] \in DOMAIN g.cells /\ Id[i] \notin DOMAIN acc.cells
  BY DEF JoinedAs, Names
<1>10. QED
  BY <1>1, <1>7, <1>8, <1>9, WithPorts

LEMMA JoinedIsGraph ==
  ASSUME NEW g, NEW acc, NEW parent, NEW nested, NEW sink, NEW Id, NEW Port, NEW connector,
         IsGraph(acc), IsGraph(nested), Names(acc, nested, sink, Id, Port, connector),
         JoinedAs(g, acc, parent, nested, sink, Id, Port, connector)
  PROVE  IsGraph(g)
<1> DEFINE D == DOMAIN nested.cells
           new == {Id[i] : i \in D}
           f == [i \in D |-> Id[i]]
<1>1. f \in Surjection(D, new)
  BY DEF Surjection
<1>2. IsFiniteSet(new)
  BY <1>1, FS_Surjection DEF IsGraph
<1>3. DOMAIN g.cells = new \cup DOMAIN acc.cells
  BY DEF JoinedAs
<1>4. new \subseteq Nat
  BY DEF Names
<1>5. \A i \in D : Id[i] \in new
  OBVIOUS
<1>6. \A x \in new : \E i \in D : x = Id[i]
  OBVIOUS
<1> HIDE DEF new, f
<1>7. IsFiniteSet(new \cup DOMAIN acc.cells)
  BY <1>2, FS_Union DEF IsGraph
<1>8. IsFiniteSet(DOMAIN g.cells) /\ DOMAIN g.cells \subseteq Nat
  BY <1>3, <1>4, <1>7 DEF IsGraph
<1>9. \A x \in DOMAIN acc.cells : g.cells[x] = acc.cells[x]
  BY DEF JoinedAs
<1>10. \A i \in D : IsCell(g.cells[Id[i]]) /\ g.cells[Id[i]].warp = nested.cells[i].warp
                    /\ Id[i] \notin DOMAIN acc.cells
  BY JoinedCells
<1>11. \A x \in DOMAIN g.cells : IsCell(g.cells[x])
  BY <1>3, <1>6, <1>9, <1>10 DEF IsGraph
<1>12. DOMAIN g.paths = {Id[i] : i \in DOMAIN nested.paths} \cup DOMAIN acc.paths
  BY DEF JoinedAs
<1>13. \A i \in D : i \in DOMAIN nested.paths <=> nested.cells[i].warp # NoSun
  BY DEF IsGraph
<1>14. \A x \in DOMAIN acc.cells : x \in DOMAIN acc.paths <=> acc.cells[x].warp # NoSun
  BY DEF IsGraph
<1>15. DOMAIN nested.paths \subseteq D /\ DOMAIN acc.paths \subseteq DOMAIN acc.cells
  BY DEF IsGraph
<1>16. \A i, j \in D : Id[i] = Id[j] => i = j
  BY DEF Names
<1>17. ASSUME NEW x \in new
       PROVE  x \in DOMAIN g.paths <=> g.cells[x].warp # NoSun
  <2>1. PICK i \in D : x = Id[i]
    BY <1>6
  <2>2. x \in DOMAIN g.paths <=> i \in DOMAIN nested.paths
    BY <1>10, <1>12, <1>15, <1>16, <2>1
  <2>3. QED
    BY <1>10, <1>13, <2>1, <2>2
<1>18. ASSUME NEW x \in DOMAIN acc.cells
       PROVE  x \in DOMAIN g.paths <=> g.cells[x].warp # NoSun
  <2>1. \A i \in DOMAIN nested.paths : Id[i] # x
    BY <1>10, <1>15
  <2>2. x \in DOMAIN g.paths <=> x \in DOMAIN acc.paths
    BY <1>12, <2>1
  <2>3. QED
    BY <1>9, <1>14, <2>2
<1>19. DOMAIN g.paths \subseteq DOMAIN g.cells
  BY <1>3, <1>5, <1>12, <1>15
<1>20. DOMAIN g.paths = {x \in DOMAIN g.cells : g.cells[x].warp # NoSun}
  BY <1>3, <1>17, <1>18, <1>19
<1>21. QED
  BY <1>8, <1>11, <1>20 DEF IsGraph

\* Joining a well-formed graph to one gives a well-formed graph: no port has
\* two owners.
LEMMA JoinedIsValid ==
  ASSUME NEW g, NEW acc, NEW parent, NEW nested, NEW sink, NEW Id, NEW Port, NEW connector,
         IsGraph(acc), IsGraph(nested), Names(acc, nested, sink, Id, Port, connector),
         JoinedAs(g, acc, parent, nested, sink, Id, Port, connector),
         Valid(acc.cells, acc.edges), Valid(nested.cells, nested.edges),
         parent \in DOMAIN acc.cells, sink \in DOMAIN nested.cells
  PROVE  Valid(g.cells, g.edges)
<1> DEFINE D == DOMAIN nested.cells
           new == {Id[i] : i \in D}
           P == PortsOf(nested.cells)
           Q == PortsOf(acc.cells)
           ports(i) == Renamed(nested, sink, Port, connector, i)
<1>1. /\ \A i \in D : g.cells[Id[i]].ports = ports(i) /\ Id[i] \in DOMAIN g.cells
                      /\ Id[i] \notin DOMAIN acc.cells
      /\ \A x \in DOMAIN acc.cells : g.cells[x] = acc.cells[x] /\ x \in DOMAIN g.cells
  <2>1. \A i \in D : g.cells[Id[i]].ports = ports(i) /\ Id[i] \in DOMAIN g.cells
                     /\ Id[i] \notin DOMAIN acc.cells
    BY JoinedCells
  <2>2. \A x \in DOMAIN acc.cells : g.cells[x] = acc.cells[x] /\ x \in DOMAIN g.cells
    BY DEF JoinedAs
  <2>3. QED
    BY <2>1, <2>2
<1>2. \A x \in DOMAIN g.cells : x \in DOMAIN acc.cells \/ \E i \in D : x = Id[i]
  BY DEF JoinedAs
<1>3. /\ \A i \in D : nested.cells[i].ports \subseteq P
      /\ \A x \in DOMAIN acc.cells : acc.cells[x].ports \subseteq Q
  BY DEF PortsOf
<1>4. /\ \A i, j \in D : Id[i] = Id[j] => i = j
      /\ connector \notin Q
      /\ \A p \in P : Port[p] \notin Q /\ Port[p] # connector
      /\ \A p, q \in P : Port[p] = Port[q] => p = q
  BY DEF Names
<1>5. \A i \in D : \A z \in ports(i) :
        \/ \E p \in nested.cells[i].ports : z = Port[p]
        \/ i = sink /\ z = connector
  BY DEF Renamed
<1>6. /\ \A i \in D : \A p \in nested.cells[i].ports : Port[p] \in ports(i)
      /\ connector \in ports(sink)
  BY DEF Renamed
<1>7. g.edges = acc.edges \cup {<<Id[e[1]], Id[e[2]], Port[e[3]]>> : e \in nested.edges}
                \cup {<<parent, Id[sink], connector>>}
  BY DEF JoinedAs
<1>8. /\ \A i, j \in D : i # j => nested.cells[i].ports \cap nested.cells[j].ports = {}
      /\ \A e \in nested.edges : /\ e[1] \in D /\ e[2] \in D
                                 /\ e[1] # e[2] /\ e[3] \in nested.cells[e[2]].ports
  BY DEF Valid
<1>9. /\ \A a, b \in DOMAIN acc.cells : a # b => acc.cells[a].ports \cap acc.cells[b].ports = {}
      /\ \A e \in acc.edges : /\ e[1] \in DOMAIN acc.cells /\ e[2] \in DOMAIN acc.cells
                              /\ e[1] # e[2] /\ e[3] \in acc.cells[e[2]].ports
  BY DEF Valid
<1> HIDE DEF ports, P, Q, D, new
<1>10. ASSUME NEW i \in D, NEW x \in DOMAIN acc.cells
       PROVE  ports(i) \cap acc.cells[x].ports = {}
  BY <1>3, <1>4, <1>5
<1>11. ASSUME NEW i \in D, NEW j \in D, i # j
       PROVE  ports(i) \cap ports(j) = {}
  <2>1. ASSUME NEW z \in ports(i), z \in ports(j) PROVE FALSE
    <3>1. CASE z = connector
      <4>1. i = sink /\ j = sink
        BY <1>3, <1>4, <1>5, <2>1, <3>1
      <4>2. QED
        BY <1>11, <4>1
    <3>2. CASE z # connector
      <4>1. PICK p \in nested.cells[i].ports : z = Port[p]
        BY <1>5, <3>2
      <4>2. PICK q \in nested.cells[j].ports : z = Port[q]
        BY <1>5, <2>1, <3>2
      <4>3. p = q
        BY <1>3, <1>4, <4>1, <4>2
      <4>4. QED
        BY <1>8, <1>11, <4>1, <4>2, <4>3
    <3>3. QED
      BY <3>1, <3>2
  <2>2. QED
    BY <2>1
<1>12. ASSUME NEW a \in DOMAIN g.cells, NEW b \in DOMAIN g.cells, a # b
       PROVE  g.cells[a].ports \cap g.cells[b].ports = {}
  <2>1. CASE a \in DOMAIN acc.cells /\ b \in DOMAIN acc.cells
    BY <1>1, <1>9, <1>12, <2>1
  <2>2. CASE a \in DOMAIN acc.cells /\ b \notin DOMAIN acc.cells
    <3>1. PICK i \in D : b = Id[i]
      BY <1>2, <2>2
    <3>2. QED
      BY <1>1, <1>10, <2>2, <3>1
  <2>3. CASE a \notin DOMAIN acc.cells /\ b \in DOMAIN acc.cells
    <3>1. PICK i \in D : a = Id[i]
      BY <1>2, <2>3
    <3>2. QED
      BY <1>1, <1>10, <2>3, <3>1
  <2>4. CASE a \notin DOMAIN acc.cells /\ b \notin DOMAIN acc.cells
    <3>1. PICK i \in D : a = Id[i]
      BY <1>2, <2>4
    <3>2. PICK j \in D : b = Id[j]
      BY <1>2, <2>4
    <3>3. i # j
      BY <1>12, <3>1, <3>2
    <3>4. QED
      BY <1>1, <1>11, <3>1, <3>2, <3>3
  <2>5. QED
    BY <2>1, <2>2, <2>3, <2>4
<1>13. ASSUME NEW e \in g.edges
       PROVE  /\ e[1] \in DOMAIN g.cells /\ e[2] \in DOMAIN g.cells
              /\ e[1] # e[2] /\ e[3] \in g.cells[e[2]].ports
  <2>1. CASE e \in acc.edges
    BY <1>1, <1>9, <2>1
  <2>2. CASE e \in {<<Id[d[1]], Id[d[2]], Port[d[3]]>> : d \in nested.edges}
    <3>1. PICK d \in nested.edges : e = <<Id[d[1]], Id[d[2]], Port[d[3]]>>
      BY <2>2
    <3>2. e[1] = Id[d[1]] /\ e[2] = Id[d[2]] /\ e[3] = Port[d[3]]
      BY <3>1
    <3>3. Port[d[3]] \in ports(d[2])
      BY <1>6, <1>8
    <3>4. QED
      BY <1>1, <1>4, <1>8, <3>2, <3>3
  <2>3. CASE e = <<parent, Id[sink], connector>>
    <3>1. e[1] = parent /\ e[2] = Id[sink] /\ e[3] = connector
      BY <2>3
    <3>2. sink \in D
      BY DEF D
    <3>3. QED
      BY <1>1, <1>6, <3>1, <3>2
  <2>4. QED
    BY <1>7, <2>1, <2>2, <2>3
<1>14. QED
  BY <1>12, <1>13 DEF Valid
-----------------------------------------------------------------------------
(* Paths.                                                                  *)

LEMMA PathEnds ==
  ASSUME NEW p \in Seq(Nat), NEW i \in Nat
  PROVE  /\ Append(p, i) \in Seq(Nat) /\ Append(p, i) # <<>> /\ Len(Append(p, i)) = Len(p) + 1
         /\ Front(Append(p, i)) = p /\ Last(Append(p, i)) = i
<1> DEFINE q == Append(p, i)
<1>1. q \in Seq(Nat) /\ Len(q) = Len(p) + 1 /\ q # <<>> /\ Len(p) \in Nat
  OBVIOUS
<1>2. /\ \A n \in 1 .. Len(p) : q[n] = p[n]
      /\ q[Len(p) + 1] = i
  OBVIOUS
<1> HIDE DEF q
<1>3. Last(q) = i
  BY <1>1, <1>2 DEF Last
<1>4. Front(q) = SubSeq(q, 1, Len(p))
  BY <1>1 DEF Front
<1>5. Len(SubSeq(q, 1, Len(p))) = Len(p)
      /\ \A n \in 1 .. Len(p) : SubSeq(q, 1, Len(p))[n] = q[n]
  BY <1>1
<1>6. SubSeq(q, 1, Len(p)) \in Seq(Nat)
  BY <1>1
<1>7. Front(q) = p
  BY <1>2, <1>4, <1>5, <1>6, SeqEqual
<1>8. QED
  BY <1>1, <1>3, <1>7 DEF q

LEMMA PrefixOf ==
  ASSUME NEW p \in Seq(Nat), NEW n \in 0 .. Len(p)
  PROVE  /\ SubSeq(p, 1, n) \in Seq(Nat) /\ Len(SubSeq(p, 1, n)) = n
         /\ \A k \in 1 .. n : SubSeq(p, 1, n)[k] = p[k]
<1>1. Len(p) \in Nat /\ n \in Nat
  OBVIOUS
<1>2. \A k \in 1 .. n : p[k] \in Nat
  BY <1>1
<1>3. /\ SubSeq(p, 1, n) \in Seq(Nat)
      /\ Len(SubSeq(p, 1, n)) = IF 1 <= n THEN n - 1 + 1 ELSE 0
      /\ \A k \in 1 .. n - 1 + 1 : SubSeq(p, 1, n)[k] = p[1 + k - 1]
  BY <1>1, <1>2, SubSeqProperties
<1> DEFINE q == SubSeq(p, 1, n)
<1> HIDE DEF q
<1>4. ASSUME NEW k \in 1 .. n PROVE q[k] = p[k]
  <2>1. k \in 1 .. n - 1 + 1 /\ 1 + k - 1 = k
    BY <1>1
  <2>2. QED
    BY <1>3, <2>1 DEF q
<1>5. Len(q) = n
  BY <1>1, <1>3 DEF q
<1>6. QED
  BY <1>3, <1>4, <1>5 DEF q

LEMMA PathSplits ==
  ASSUME NEW p \in Seq(Nat), p # <<>>
  PROVE  /\ Front(p) \in Seq(Nat) /\ Last(p) \in Nat /\ Append(Front(p), Last(p)) = p
         /\ Len(p) = Len(Front(p)) + 1
<1>1. Len(p) \in Nat \ {0}
  BY EmptySeq
<1>2. Front(p) \in Seq(Nat) /\ Len(Front(p)) = Len(p) - 1
      /\ \A n \in 1 .. Len(p) - 1 : Front(p)[n] = p[n]
  <2>1. Front(p) = SubSeq(p, 1, Len(p) - 1) /\ Len(p) - 1 \in 0 .. Len(p)
    BY <1>1 DEF Front
  <2>2. QED
    BY <2>1, PrefixOf
<1>3. Last(p) \in Nat /\ Last(p) = p[Len(p)]
  BY <1>1 DEF Last
<1> DEFINE f == Front(p)
           q == Append(f, Last(p))
<1> HIDE DEF f
<1>4. q \in Seq(Nat) /\ Len(q) = Len(p)
  BY <1>1, <1>2, <1>3 DEF f
<1>5. \A n \in 1 .. Len(p) : q[n] = p[n]
  <2>1. TAKE n \in 1 .. Len(p)
  <2>2. CASE n = Len(p)
    BY <1>1, <1>2, <1>3, <2>2 DEF f
  <2>3. CASE n # Len(p)
    BY <1>1, <1>2, <1>3, <2>3 DEF f
  <2>4. QED
    BY <2>2, <2>3
<1>6. q = p
  BY <1>4, <1>5, SeqEqual
<1>7. QED
  BY <1>1, <1>2, <1>3, <1>6 DEF f

LEMMA Concatenated ==
  ASSUME NEW s \in Seq(Nat), NEW t \in Seq(Nat)
  PROVE  /\ s \o t \in Seq(Nat) /\ Len(s \o t) = Len(s) + Len(t)
         /\ \A k \in 1 .. Len(s) : (s \o t)[k] = s[k]
         /\ \A k \in 1 .. Len(t) : (s \o t)[Len(s) + k] = t[k]
<1>1. Len(s) \in Nat /\ Len(t) \in Nat
  OBVIOUS
<1>2. s \o t \in Seq(Nat) /\ Len(s \o t) = Len(s) + Len(t)
      /\ \A k \in 1 .. Len(s) + Len(t) :
           (s \o t)[k] = IF k <= Len(s) THEN s[k] ELSE t[k - Len(s)]
  BY ConcatProperties
<1> DEFINE r == s \o t
<1> HIDE DEF r
<1>3. ASSUME NEW k \in 1 .. Len(s) PROVE r[k] = s[k]
  <2>1. k \in 1 .. Len(s) + Len(t) /\ k <= Len(s)
    BY <1>1
  <2>2. QED
    BY <1>2, <2>1 DEF r
<1>4. ASSUME NEW k \in 1 .. Len(t) PROVE r[Len(s) + k] = t[k]
  <2>1. Len(s) + k \in 1 .. Len(s) + Len(t) /\ ~(Len(s) + k <= Len(s)) /\ Len(s) + k - Len(s) = k
    BY <1>1
  <2>2. QED
    BY <1>2, <2>1 DEF r
<1>5. QED
  BY <1>2, <1>3, <1>4 DEF r

\* What a path through a boundary cell passes, passed from behind the cell.
Through(p, i, q, n) == p \o SubSeq(<<i>> \o q, 1, n)
From(p, i, q, n) == IF n = 1 THEN Append(p, i) ELSE Append(p, i) \o SubSeq(q, 1, n - 1)

LEMMA PrefixBelow ==
  ASSUME NEW p \in Seq(Nat), NEW i \in Nat, NEW q \in Seq(Nat), NEW n \in 1 .. Len(q)
  PROVE  /\ <<i>> \o q \in Seq(Nat) /\ Len(<<i>> \o q) = Len(q) + 1
         /\ (<<i>> \o q)[1] = i /\ \A k \in 1 .. Len(q) : (<<i>> \o q)[k + 1] = q[k]
         /\ Through(p, i, q, n) = From(p, i, q, n)
<1> DEFINE r == <<i>> \o q
<1>1. <<i>> \in Seq(Nat) /\ Len(<<i>>) = 1 /\ <<i>>[1] = i
  OBVIOUS
<1>2. Len(q) \in Nat /\ n \in Nat \ {0} /\ Len(p) \in Nat
  OBVIOUS
<1>3. r \in Seq(Nat) /\ Len(r) = Len(q) + 1
  BY <1>1, ConcatProperties
<1>4. r[1] = i /\ \A k \in 1 .. Len(q) : r[k + 1] = q[k]
  BY <1>1, <1>2
<1> HIDE DEF r
<1> DEFINE s == SubSeq(r, 1, n)
           t == SubSeq(q, 1, n - 1)
           l == p \o s
           m == Append(p, i) \o t
<1>5. n \in 0 .. Len(r) /\ n - 1 \in 0 .. Len(q)
  BY <1>2, <1>3
<1>6. s \in Seq(Nat) /\ Len(s) = n /\ \A k \in 1 .. n : s[k] = r[k]
  BY <1>3, <1>5, PrefixOf
<1>7. t \in Seq(Nat) /\ Len(t) = n - 1 /\ \A k \in 1 .. n - 1 : t[k] = q[k]
  BY <1>5, PrefixOf
<1> HIDE DEF s, t
<1>8. \A k \in 2 .. n : s[k] = t[k - 1]
  <2>1. TAKE k \in 2 .. n
  <2>2. k - 1 \in 1 .. Len(q) /\ k - 1 \in 1 .. n - 1 /\ k \in 1 .. n /\ k - 1 + 1 = k
    BY <1>2
  <2>3. QED
    BY <1>4, <1>6, <1>7, <2>2
<1>9. s[1] = i
  <2>1. 1 \in 1 .. n
    BY <1>2
  <2>2. QED
    BY <1>4, <1>6, <2>1
<1> DEFINE a == Append(p, i)
<1>10. a \in Seq(Nat) /\ Len(a) = Len(p) + 1 /\ a[Len(p) + 1] = i
       /\ \A k \in 1 .. Len(p) : a[k] = p[k]
  BY <1>2
<1> HIDE DEF a
<1>11. l \in Seq(Nat) /\ Len(l) = Len(p) + n
       /\ (\A k \in 1 .. Len(p) : l[k] = p[k])
       /\ (\A k \in 1 .. n : l[Len(p) + k] = s[k])
  BY <1>6, Concatenated
<1>12. m = a \o t
  BY DEF a
<1> HIDE DEF l, m
<1>13. m \in Seq(Nat) /\ Len(m) = Len(p) + 1 + (n - 1)
       /\ (\A k \in 1 .. Len(p) + 1 : m[k] = a[k])
       /\ (\A k \in 1 .. n - 1 : m[Len(p) + 1 + k] = t[k])
  <2>1. m = a \o t
    BY <1>12
  <2>2. a \in Seq(Nat) /\ t \in Seq(Nat)
    BY <1>7, <1>10
  <2>3. m \in Seq(Nat) /\ Len(m) = Len(a) + Len(t)
        /\ (\A k \in 1 .. Len(a) : m[k] = a[k])
        /\ (\A k \in 1 .. Len(t) : m[Len(a) + k] = t[k])
    BY <2>1, <2>2, Concatenated
  <2>4. Len(a) = Len(p) + 1 /\ Len(t) = n - 1
    BY <1>7, <1>10
  <2>5. QED
    BY <2>3, <2>4
<1>14. Len(m) = Len(l)
  BY <1>2, <1>11, <1>13
<1>15. \A k \in 1 .. Len(l) : l[k] = m[k]
  <2>1. TAKE k \in 1 .. Len(l)
  <2>2. CASE k <= Len(p)
    <3>1. k \in 1 .. Len(p) /\ k \in 1 .. Len(p) + 1
      BY <1>2, <1>11, <2>2
    <3>2. QED
      BY <1>10, <1>11, <1>13, <3>1
  <2>3. CASE k = Len(p) + 1
    <3>1. 1 \in 1 .. n /\ k \in 1 .. Len(p) + 1
      BY <1>2, <2>3
    <3>2. l[k] = s[1] /\ m[k] = a[Len(p) + 1]
      BY <1>11, <1>13, <2>3, <3>1
    <3>3. QED
      BY <1>9, <1>10, <3>2
  <2>4. CASE k > Len(p) + 1
    <3>1. PICK h \in 2 .. n : k = Len(p) + h
      <4>1. k \in Int /\ k <= Len(p) + n
        BY <1>2, <1>11
      <4>2. k - Len(p) \in 2 .. n /\ k = Len(p) + (k - Len(p))
        BY <1>2, <2>4, <4>1
      <4>3. QED
        BY <4>2
    <3>2. h \in 1 .. n /\ h - 1 \in 1 .. n - 1 /\ k = Len(p) + 1 + (h - 1)
      BY <1>2, <3>1
    <3>3. l[k] = s[h]
      BY <1>11, <3>1, <3>2
    <3>4. m[k] = t[h - 1]
      BY <1>13, <3>2
    <3>5. QED
      BY <1>8, <3>3, <3>4
  <2>5. k \in Nat
    BY <1>2, <1>11
  <2>6. k <= Len(p) \/ k = Len(p) + 1 \/ k > Len(p) + 1
    BY SMTT(40), <1>2, <2>5
  <2>7. QED
    BY <2>2, <2>3, <2>4, <2>6
<1>16. l = m
  BY <1>11, <1>13, <1>14, <1>15, SeqEqual
<1>17. ASSUME n = 1 PROVE m = Append(p, i)
  <2>0. t \in Seq(Nat) /\ Len(t) = 0
    BY <1>7, <1>17
  <2>1. t = <<>>
    BY <2>0, EmptySeq
  <2>2. QED
    BY <1>10, <2>1, ConcatEmptySeq DEF m, a
<1>18. QED
  BY <1>3, <1>4, <1>16, <1>17 DEF l, m, r, s, t, Through, From

LEMMA PassedBelow ==
  ASSUME NEW D, NEW p \in Seq(Nat), NEW i \in Nat, NEW q \in Seq(Nat), Append(p, i) \in D,
         \A n \in 1 .. Len(q) - 1 : Append(p, i) \o SubSeq(q, 1, n) \in D
  PROVE  \A n \in 1 .. Len(q) : p \o SubSeq(<<i>> \o q, 1, n) \in D
<1>1. TAKE n \in 1 .. Len(q)
<1>2. Through(p, i, q, n) = From(p, i, q, n)
  BY PrefixBelow
<1>3. CASE n = 1
  BY <1>2, <1>3 DEF Through, From
<1>4. CASE n # 1
  <2>1. n - 1 \in 1 .. Len(q) - 1
    BY <1>4
  <2>2. From(p, i, q, n) \in D
    BY <1>4, <2>1 DEF From
  <2>3. QED
    BY <1>2, <2>2 DEF Through
<1>5. QED
  BY <1>3, <1>4

LEMMA SamePathBehind ==
  ASSUME NEW i \in Nat, NEW q \in Seq(Nat), NEW r \in Seq(Nat), <<i>> \o q = <<i>> \o r
  PROVE  q = r
<1>1. <<i>> \in Seq(Nat) /\ Len(<<i>>) = 1
  OBVIOUS
<1>2. /\ Len(<<i>> \o q) = 1 + Len(q) /\ Len(<<i>> \o r) = 1 + Len(r)
      /\ \A k \in 1 .. Len(q) : (<<i>> \o q)[1 + k] = q[k]
      /\ \A k \in 1 .. Len(r) : (<<i>> \o r)[1 + k] = r[k]
  BY <1>1, Concatenated
<1>3. Len(q) = Len(r)
  <2>1. Len(q) \in Nat /\ Len(r) \in Nat
    OBVIOUS
  <2>2. QED
    BY <1>2, <2>1
<1>4. \A k \in 1 .. Len(q) : q[k] = r[k]
  BY <1>2, <1>3
<1>5. QED
  BY <1>3, <1>4, SeqEqual

LEMMA LeadsHere ==
  ASSUME NEW j \in DOMAIN Suns, NEW i \in Nat
  PROVE  Leads(j, <<i>>, <<j, i>>)
<1> DEFINE sun == [k \in 1 .. 1 |-> j]
<1>1. Len(<<i>>) = 1 /\ <<i>>[1] = i
  OBVIOUS
<1>2. sun \in [1 .. Len(<<i>>) -> DOMAIN Suns] /\ sun[1] = j
  BY <1>1
<1>3. \A k \in 2 .. Len(<<i>>) : sun[k] = Suns[sun[k - 1]].cells[<<i>>[k - 1]].warp
  BY <1>1
<1>4. <<j, i>> = <<sun[Len(<<i>>)], <<i>>[Len(<<i>>)]>>
  BY <1>1, <1>2
<1> HIDE DEF sun
<1>5. QED
  BY <1>2, <1>3, <1>4 DEF Leads

LEMMA LeadsThrough ==
  ASSUME NEW j \in DOMAIN Suns, NEW i \in Nat, NEW q \in Seq(Nat), q # <<>>, NEW cell,
         Leads(Suns[j].cells[i].warp, q, cell)
  PROVE  Leads(j, <<i>> \o q, cell)
<1> DEFINE r == <<i>> \o q
           n == Len(q)
           w == Suns[j].cells[i].warp
<1>1. n \in Nat \ {0}
  BY EmptySeq
<1>2. Len(r) = n + 1 /\ r[1] = i /\ \A k \in 1 .. n : r[k + 1] = q[k]
  <2>1. 1 \in 1 .. n
    BY <1>1
  <2>2. QED
    BY <2>1, PrefixBelow, EmptySeq
<1>3. PICK sun \in [1 .. n -> DOMAIN Suns] :
        /\ sun[1] = w
        /\ \A k \in 2 .. n : sun[k] = Suns[sun[k - 1]].cells[q[k - 1]].warp
        /\ cell = <<sun[n], q[n]>>
  BY DEF Leads
<1> HIDE DEF r, n
<1> DEFINE s == [k \in 1 .. n + 1 |-> IF k = 1 THEN j ELSE sun[k - 1]]
<1>4. ASSUME NEW k \in 1 .. n + 1 PROVE s[k] \in DOMAIN Suns
  <2>1. CASE k = 1
    BY <2>1
  <2>2. CASE k # 1
    <3>1. k - 1 \in 1 .. n
      BY <1>1, <2>2
    <3>2. QED
      BY <1>3, <2>2, <3>1
  <2>3. QED
    BY <2>1, <2>2
<1>5. s \in [1 .. n + 1 -> DOMAIN Suns]
  BY <1>4
<1>6. s[1] = j /\ \A k \in 1 .. n : s[k + 1] = sun[k]
  <2>1. 1 \in 1 .. n + 1
    BY <1>1
  <2>2. ASSUME NEW k \in 1 .. n PROVE s[k + 1] = sun[k]
    <3>1. k + 1 \in 1 .. n + 1 /\ k + 1 # 1 /\ k + 1 - 1 = k
      BY <1>1
    <3>2. QED
      BY <3>1
  <2>3. QED
    BY <2>1, <2>2
<1> HIDE DEF s
<1>7. ASSUME NEW k \in 2 .. n + 1 PROVE s[k] = Suns[s[k - 1]].cells[r[k - 1]].warp
  <2>1. CASE k = 2
    <3>1. 1 \in 1 .. n /\ k = 1 + 1 /\ k - 1 = 1
      BY <1>1, <2>1
    <3>2. s[k] = sun[1]
      BY <1>6, <3>1
    <3>3. QED
      BY <1>2, <1>3, <1>6, <3>1, <3>2
  <2>2. CASE k # 2
    <3>1. PICK h \in 2 .. n : k = h + 1
      <4>1. k - 1 \in 2 .. n /\ k = k - 1 + 1
        BY <1>1, <2>2
      <4>2. QED
        BY <4>1
    <3>2. h \in 1 .. n /\ h - 1 \in 1 .. n /\ k - 1 = h - 1 + 1
      BY <1>1, <3>1
    <3>3. s[k] = sun[h] /\ s[k - 1] = sun[h - 1] /\ r[k - 1] = q[h - 1]
      BY <1>2, <1>6, <3>1, <3>2
    <3>4. QED
      BY <1>3, <3>3
  <2>3. QED
    BY <2>1, <2>2
<1>8. cell = <<s[n + 1], r[n + 1]>>
  <2>1. n \in 1 .. n
    BY <1>1
  <2>2. QED
    BY <1>2, <1>3, <1>6, <2>1
<1>9. Leads(j, r, cell)
  BY <1>2, <1>5, <1>6, <1>7, <1>8 DEF Leads
<1>10. QED
  BY <1>9 DEF r
-----------------------------------------------------------------------------
(* Merging the Suns of a fetch.                                            *)

\* Every path of a fetch leads from the watched Sun through warp cells.
Nests(E) ==
  /\ <<>> \in DOMAIN E /\ E[<<>>].sun = Top
  /\ \A p \in DOMAIN E :
       /\ p \in Seq(Nat) /\ Len(p) <= MaxWarpDepth
       /\ E[p].sun \in DOMAIN Suns /\ DOMAIN E[p].seqs = DOMAIN Suns[E[p].sun].cells
       /\ p # <<>> => /\ Front(p) \in DOMAIN E
                      /\ Last(p) \in DOMAIN Suns[E[Front(p)].sun].cells
                      /\ E[p].sun = Suns[E[Front(p)].sun].cells[Last(p)].warp

LEMMA ParentsLead ==
  ASSUME NEW E, Nests(E), NEW p \in DOMAIN E
  PROVE  /\ \A i \in Parents(E, p) :
              /\ i \in Nat /\ Append(p, i) \in DOMAIN E
              /\ i \in DOMAIN Suns[E[p].sun].cells
              /\ E[Append(p, i)].sun = Suns[E[p].sun].cells[i].warp
         /\ IsFiniteSet(Parents(E, p)) /\ Parents(E, p) \subseteq Nat
<1> DEFINE D == DOMAIN Suns[E[p].sun].cells
<1>1. p \in Seq(Nat) /\ E[p].sun \in DOMAIN Suns
  BY DEF Nests
<1>2. D \subseteq Nat /\ IsFiniteSet(D)
  BY <1>1, SunsAssumption
<1>3. ASSUME NEW i \in Parents(E, p)
      PROVE  /\ i \in Nat /\ Append(p, i) \in DOMAIN E /\ i \in D
             /\ E[Append(p, i)].sun = Suns[E[p].sun].cells[i].warp
  <2>1. PICK q \in DOMAIN E : q # <<>> /\ Front(q) = p /\ i = Last(q)
    BY <1>3 DEF Parents
  <2>2. q \in Seq(Nat) /\ i \in D /\ E[q].sun = Suns[E[p].sun].cells[i].warp
    BY <2>1 DEF Nests
  <2>3. Append(p, i) = q
    BY <2>1, <2>2, PathSplits
  <2>4. QED
    BY <1>2, <2>2, <2>3
<1>4. Parents(E, p) \in SUBSET D
  BY <1>3
<1>5. IsFiniteSet(Parents(E, p))
  BY <1>2, <1>4, FS_Subset
<1>6. QED
  BY <1>2, <1>3, <1>5

\* The paths of a graph merged at p of E lead home.
Home(E, p, K, q, cell) ==
  /\ q \in Seq(Nat) /\ q # <<>>
  /\ Leads(E[p].sun, q, <<cell.sun, cell.local>>)
  /\ Len(q) > 1 => q[1] \in K
  /\ \A n \in 1 .. Len(q) - 1 : p \o SubSeq(q, 1, n) \in DOMAIN E

\* A graph of the Sun at p of E, with the Suns behind the cells K merged.
Merged(E, p, K, g) ==
  /\ IsGraph(g)
  /\ \A i \in DOMAIN E[p].seqs : i \in DOMAIN g.cells /\ g.cells[i] = OwnCells(E[p])[i]
  /\ Suns[E[p].sun].edges \subseteq g.edges
  /\ Valid(Alone(E[p]).cells, Alone(E[p]).edges) => Valid(g.cells, g.edges)
  /\ \A id \in DOMAIN g.paths :
       /\ Home(E, p, K, g.paths[id], g.cells[id])
       /\ \A other \in DOMAIN g.paths : g.paths[other] = g.paths[id] => other = id

LEMMA AloneIsMerged ==
  ASSUME NEW E, Nests(E), NEW p \in DOMAIN E
  PROVE  Merged(E, p, {}, Alone(E[p]))
<1> DEFINE app == E[p]
           cells == Suns[app.sun].cells
           D == DOMAIN app.seqs
           g == Alone(app)
           P == {k \in D : cells[k].warp # NoSun}
<1>1. app.sun \in DOMAIN Suns /\ D = DOMAIN cells
  BY DEF Nests
<1>2. D \subseteq Nat /\ IsFiniteSet(D)
      /\ \A i \in D : IsFiniteSet(cells[i].ports) /\ cells[i].ports \subseteq Nat
  BY <1>1, SunsAssumption
<1>3. g = [cells |-> OwnCells(app), edges |-> Suns[app.sun].edges, paths |-> [i \in P |-> <<i>>]]
  BY DEF Alone
<1>4. DOMAIN OwnCells(app) = D
      /\ \A i \in D : OwnCells(app)[i] =
           [sun |-> app.sun, local |-> i, ports |-> cells[i].ports, warp |-> cells[i].warp,
            panel |-> cells[i].panel, seq |-> app.seqs[i]]
  BY DEF OwnCells
<1> HIDE DEF g
<1>5. g.cells = OwnCells(app) /\ g.edges = Suns[app.sun].edges
      /\ DOMAIN g.paths = P /\ \A i \in P : g.paths[i] = <<i>>
  BY <1>3
<1> HIDE DEF cells
<1>6. \A i \in D : IsCell(g.cells[i]) /\ g.cells[i].warp = cells[i].warp
                   /\ g.cells[i].sun = app.sun /\ g.cells[i].local = i
  <2>1. TAKE i \in D
  <2>2. PICK r : r = [sun |-> app.sun, local |-> i, ports |-> cells[i].ports,
                      warp |-> cells[i].warp, panel |-> cells[i].panel, seq |-> app.seqs[i]]
    OBVIOUS
  <2>3. IsFiniteSet(cells[i].ports) /\ cells[i].ports \subseteq Nat
    BY <1>2
  <2>4. IsCell(r) /\ r.warp = cells[i].warp /\ r.sun = app.sun /\ r.local = i
    BY <2>2, <2>3 DEF IsCell
  <2>5. g.cells[i] = r
    BY <1>4, <1>5, <2>2
  <2>6. QED
    BY <2>4, <2>5
<1> HIDE DEF app, D, P
<1>7. P = {i \in DOMAIN g.cells : g.cells[i].warp # NoSun}
  BY <1>4, <1>5, <1>6 DEF P
<1>8. IsGraph(g)
  BY <1>2, <1>4, <1>5, <1>6, <1>7 DEF IsGraph
<1>9. ASSUME NEW i \in P PROVE Home(E, p, {}, g.paths[i], g.cells[i])
  <2>1. i \in D
    BY DEF P
  <2>2. i \in Nat /\ g.paths[i] = <<i>> /\ Len(<<i>>) = 1 /\ <<i>> \in Seq(Nat) /\ <<i>> # <<>>
    BY <1>2, <1>5, <2>1
  <2>3. Leads(app.sun, <<i>>, <<app.sun, i>>)
    BY <1>1, <2>2, LeadsHere
  <2>4. \A n \in 1 .. Len(<<i>>) - 1 : p \o SubSeq(<<i>>, 1, n) \in DOMAIN E
    BY <2>2
  <2>5. ~(Len(<<i>>) > 1)
    BY <2>2
  <2>6. QED
    BY <1>6, <2>1, <2>2, <2>3, <2>4, <2>5 DEF Home, app
<1>10. ASSUME NEW i \in P, NEW other \in P, g.paths[other] = g.paths[i] PROVE other = i
  <2>1. <<other>> = <<i>>
    BY <1>5, <1>10
  <2>2. <<other>>[1] = other /\ <<i>>[1] = i
    OBVIOUS
  <2>3. QED
    BY <2>1, <2>2
<1>11. Merged(E, p, {}, g)
  <2>1. \A i \in DOMAIN E[p].seqs : i \in DOMAIN g.cells /\ g.cells[i] = OwnCells(E[p])[i]
    BY <1>4, <1>5 DEF D, app
  <2>2. Suns[E[p].sun].edges \subseteq g.edges
    BY <1>5 DEF app
  <2>3. Valid(Alone(E[p]).cells, Alone(E[p]).edges) => Valid(g.cells, g.edges)
    BY DEF g, app
  <2>4. \A id \in DOMAIN g.paths :
          /\ Home(E, p, {}, g.paths[id], g.cells[id])
          /\ \A other \in DOMAIN g.paths : g.paths[other] = g.paths[id] => other = id
    BY <1>5, <1>9, <1>10
  <2>5. QED
    BY <1>8, <2>1, <2>2, <2>3, <2>4 DEF Merged
<1>12. QED
  BY <1>11 DEF g, app

\* Merging the Sun behind one more cell.
LEMMA MergeKeeps ==
  ASSUME NEW E, Nests(E), NEW p \in DOMAIN E, NEW K, NEW i \in Parents(E, p), i \notin K,
         NEW acc, Merged(E, p, K, acc), NEW N, NEW nested, Merged(E, Append(p, i), N, nested)
  PROVE  Merged(E, p, K \cup {i}, Merge(acc, i, E[Append(p, i)], nested))
<1> DEFINE app == E[Append(p, i)]
           L == K \cup {i}
           j == E[p].sun
<1>1. /\ p \in Seq(Nat) /\ j \in DOMAIN Suns /\ DOMAIN E[p].seqs = DOMAIN Suns[j].cells
      /\ i \in Nat /\ Append(p, i) \in DOMAIN E /\ i \in DOMAIN Suns[j].cells
      /\ app.sun = Suns[j].cells[i].warp
      /\ DOMAIN app.seqs = DOMAIN Suns[app.sun].cells
  <2>1. p \in Seq(Nat) /\ j \in DOMAIN Suns /\ DOMAIN E[p].seqs = DOMAIN Suns[j].cells
    BY DEF Nests
  <2>2. /\ i \in Nat /\ Append(p, i) \in DOMAIN E /\ i \in DOMAIN Suns[j].cells
        /\ app.sun = Suns[j].cells[i].warp
    BY ParentsLead
  <2>3. DOMAIN app.seqs = DOMAIN Suns[app.sun].cells
    BY <2>2 DEF Nests
  <2>4. QED
    BY <2>1, <2>2, <2>3
<1>2. ASSUME NEW q, NEW cell, Home(E, p, K, q, cell) PROVE Home(E, p, L, q, cell)
  BY <1>2 DEF Home
<1>3. CASE Merge(acc, i, app, nested) = acc
  <2>1. Merged(E, p, L, acc)
    BY <1>2 DEF Merged
  <2>2. QED
    BY <1>3, <2>1
<1>4. CASE Merge(acc, i, app, nested) # acc
  <2> DEFINE sink == CHOOSE s \in Sinks(app.sun) : TRUE
             g == Joined(acc, i, nested, sink)
             D == DOMAIN nested.cells
  <2>1. /\ Valid(nested.cells, nested.edges) /\ Cardinality(Sinks(app.sun)) = 1
        /\ Merge(acc, i, app, nested) = g
    BY <1>4 DEF Merge
  <2>2. Sinks(app.sun) # {}
    BY <2>1, FS_EmptySet
  <2>3. sink \in D
    <3>1. sink \in DOMAIN Suns[app.sun].cells
      BY <2>2 DEF Sinks
    <3>2. QED
      BY <1>1, <3>1 DEF Merged
  <2> HIDE DEF sink
  <2>4. IsGraph(acc) /\ IsGraph(nested)
    BY DEF Merged
  <2>5. PICK Id, Port, connector :
          /\ Names(acc, nested, sink, Id, Port, connector)
          /\ JoinedAs(g, acc, i, nested, sink, Id, Port, connector)
    BY <2>1, <2>3, <2>4, JoinedNames
  <2> HIDE DEF g
  <2>6. IsGraph(g)
    BY <2>4, <2>5, JoinedIsGraph
  <2>7. i \in DOMAIN acc.cells
    BY <1>1 DEF Merged
  <2>8. \A x \in DOMAIN acc.cells : x \in DOMAIN g.cells /\ g.cells[x] = acc.cells[x]
    BY <2>5 DEF JoinedAs
  <2>9. \A x \in DOMAIN E[p].seqs : x \in DOMAIN g.cells /\ g.cells[x] = OwnCells(E[p])[x]
    BY <2>8 DEF Merged
  <2>10. Suns[j].edges \subseteq g.edges
    BY <2>5 DEF JoinedAs, Merged
  <2>11. ASSUME Valid(Alone(E[p]).cells, Alone(E[p]).edges) PROVE Valid(g.cells, g.edges)
    <3>1. Valid(acc.cells, acc.edges)
      BY <2>11 DEF Merged
    <3>2. QED
      BY <2>1, <2>3, <2>4, <2>5, <2>7, <3>1, JoinedIsValid
  <2>12. /\ \A x \in DOMAIN g.paths : x \in DOMAIN acc.paths
                                      \/ \E y \in DOMAIN nested.paths : x = Id[y]
         /\ \A x \in DOMAIN acc.paths : g.paths[x] = acc.paths[x]
         /\ \A y \in DOMAIN nested.paths : g.paths[Id[y]] = <<i>> \o nested.paths[y]
    BY <2>5 DEF JoinedAs
  <2>13. DOMAIN acc.paths \subseteq DOMAIN acc.cells /\ DOMAIN nested.paths \subseteq D
    BY <2>4 DEF IsGraph
  <2>14. ASSUME NEW x \in DOMAIN acc.paths PROVE Home(E, p, L, g.paths[x], g.cells[x])
    <3>1. Home(E, p, K, acc.paths[x], acc.cells[x])
      BY DEF Merged
    <3>2. QED
      BY <1>2, <2>8, <2>12, <2>13, <3>1
  <2>15. ASSUME NEW y \in DOMAIN nested.paths
         PROVE  /\ Home(E, p, L, g.paths[Id[y]], g.cells[Id[y]])
                /\ g.paths[Id[y]][1] = i /\ Len(g.paths[Id[y]]) > 1
    <3> DEFINE q == nested.paths[y]
               r == <<i>> \o q
               cell == nested.cells[y]
    <3>1. Home(E, Append(p, i), N, q, cell)
      BY DEF Merged
    <3>2. q \in Seq(Nat) /\ q # <<>> /\ Len(q) \in Nat \ {0}
      BY <3>1, EmptySeq DEF Home
    <3>3. g.cells[Id[y]].sun = cell.sun /\ g.cells[Id[y]].local = cell.local
      BY <2>4, <2>5, <2>13, JoinedCells
    <3>4. g.paths[Id[y]] = r
      BY <2>12
    <3>5. Leads(app.sun, q, <<cell.sun, cell.local>>)
      BY <3>1 DEF Home
    <3> HIDE DEF q, cell
    <3>6. Leads(j, r, <<cell.sun, cell.local>>)
      BY <1>1, <3>2, <3>5, LeadsThrough
    <3>7. r \in Seq(Nat) /\ Len(r) = Len(q) + 1 /\ r[1] = i
      <4>1. 1 \in 1 .. Len(q)
        BY <3>2
      <4>2. QED
        BY <1>1, <3>2, <4>1, PrefixBelow
    <3>8. \A n \in 1 .. Len(q) : p \o SubSeq(r, 1, n) \in DOMAIN E
      <4>1. \A n \in 1 .. Len(q) - 1 : Append(p, i) \o SubSeq(q, 1, n) \in DOMAIN E
        BY <3>1 DEF Home
      <4>2. QED
        BY <1>1, <3>2, <4>1, PassedBelow
    <3> HIDE DEF r
    <3>9. Len(r) - 1 = Len(q) /\ Len(r) > 1
      BY <3>2, <3>7
    <3>10. r # <<>>
      BY <3>7, <3>9, EmptySeq
    <3>11. Home(E, p, L, r, [sun |-> cell.sun, local |-> cell.local])
      BY <3>6, <3>7, <3>8, <3>9, <3>10 DEF Home
    <3>12. Home(E, p, L, r, g.cells[Id[y]])
      BY <3>3, <3>11 DEF Home
    <3>13. QED
      BY <3>4, <3>7, <3>9, <3>12
  <2>16. ASSUME NEW x \in DOMAIN acc.paths, NEW y \in DOMAIN nested.paths
         PROVE  g.paths[x] # g.paths[Id[y]]
    <3>1. Home(E, p, K, g.paths[x], acc.cells[x])
      BY <2>12 DEF Merged
    <3>2. Len(g.paths[x]) > 1 => g.paths[x][1] # i
      BY <3>1 DEF Home
    <3>3. QED
      BY <2>15, <3>2
  <2>17. ASSUME NEW x \in DOMAIN nested.paths, NEW y \in DOMAIN nested.paths,
                g.paths[Id[x]] = g.paths[Id[y]]
         PROVE  x = y
    <3>1. <<i>> \o nested.paths[x] = <<i>> \o nested.paths[y]
      BY <2>12, <2>17
    <3>2. /\ Home(E, Append(p, i), N, nested.paths[x], nested.cells[x])
          /\ Home(E, Append(p, i), N, nested.paths[y], nested.cells[y])
      BY DEF Merged
    <3>3. nested.paths[x] \in Seq(Nat) /\ nested.paths[y] \in Seq(Nat)
      BY <3>2 DEF Home
    <3>4. nested.paths[x] = nested.paths[y]
      BY <1>1, <3>1, <3>3, SamePathBehind
    <3>5. QED
      BY <3>4 DEF Merged
  <2>18. ASSUME NEW x \in DOMAIN acc.paths, NEW y \in DOMAIN acc.paths, g.paths[x] = g.paths[y]
         PROVE  x = y
    BY <2>12, <2>18 DEF Merged
  <2>19. ASSUME NEW id \in DOMAIN g.paths
         PROVE  Home(E, p, L, g.paths[id], g.cells[id])
    BY <2>12, <2>14, <2>15
  <2>20. ASSUME NEW id \in DOMAIN g.paths, NEW other \in DOMAIN g.paths,
                g.paths[other] = g.paths[id]
         PROVE  other = id
    <3>1. CASE id \in DOMAIN acc.paths /\ other \in DOMAIN acc.paths
      BY <2>18, <2>20, <3>1
    <3>2. CASE id \notin DOMAIN acc.paths /\ other \notin DOMAIN acc.paths
      <4>1. PICK x \in DOMAIN nested.paths : id = Id[x]
        BY <2>12, <3>2
      <4>2. PICK y \in DOMAIN nested.paths : other = Id[y]
        BY <2>12, <3>2
      <4>3. x = y
        BY <2>17, <2>20, <4>1, <4>2
      <4>4. QED
        BY <4>1, <4>2, <4>3
    <3>3. CASE id \in DOMAIN acc.paths /\ other \notin DOMAIN acc.paths
      BY <2>12, <2>16, <2>20, <3>3
    <3>4. CASE id \notin DOMAIN acc.paths /\ other \in DOMAIN acc.paths
      BY <2>12, <2>16, <2>20, <3>4
    <3>5. QED
      BY <3>1, <3>2, <3>3, <3>4
  <2>21. Merged(E, p, L, g)
    BY <2>6, <2>9, <2>10, <2>11, <2>19, <2>20 DEF Merged
  <2>22. QED
    BY <2>1, <2>21
<1>5. QED
  BY <1>3, <1>4

\* The graphs made on the way, one more Sun merged in each.
Step(f, k, E, p, nested, order) ==
  IF k = 0 THEN Alone(E[p])
  ELSE Merge(f[k - 1], order[k], E[Append(p, order[k])], nested[order[k]])

Merging(f, E, p, nested, order, n) == f = [k \in 0 .. n |-> Step(f, k, E, p, nested, order)]

LEMMA MergingExists ==
  ASSUME NEW E, NEW p, NEW nested, NEW order, NEW n \in Nat
  PROVE  \E f : Merging(f, E, p, nested, order, n)
<1> DEFINE Bad == {m \in Nat : ~\E f : Merging(f, E, p, nested, order, m)}
<1>1. SUFFICES ASSUME Bad # {} PROVE FALSE
  BY <1>1
<1>2. PICK m \in Bad : \A h \in Bad : m <= h
  BY <1>1, LeastNumber
<1>3. CASE m = 0
  <2> DEFINE f == [k \in 0 .. 0 |-> Alone(E[p])]
  <2>1. \A k \in 0 .. 0 : Step(f, k, E, p, nested, order) = Alone(E[p])
    BY DEF Step
  <2> HIDE DEF Bad
  <2>2. f = [k \in 0 .. 0 |-> Step(f, k, E, p, nested, order)]
    BY <2>1
  <2>3. Merging(f, E, p, nested, order, 0)
    BY <2>2 DEF Merging
  <2>4. QED
    BY <1>3, <2>3 DEF Bad
<1>4. CASE m # 0
  <2>1. m \in Nat \ {0} /\ m - 1 \in Nat /\ m - 1 < m
    BY <1>4
  <2>2. PICK f : Merging(f, E, p, nested, order, m - 1)
    BY <1>2, <2>1
  <2> DEFINE g == [k \in 0 .. m |-> IF k = m THEN Step(f, m, E, p, nested, order) ELSE f[k]]
  <2>3. \A k \in 0 .. m - 1 : g[k] = f[k]
    <3>1. \A k \in 0 .. m - 1 : k \in 0 .. m /\ k # m
      BY <2>1
    <3>2. QED
      BY <3>1
  <2>4. \A k \in 0 .. m - 1 : f[k] = Step(f, k, E, p, nested, order)
    BY <2>2, Zenon DEF Merging
  <2>5. DOMAIN g = 0 .. m /\ g[m] = Step(f, m, E, p, nested, order)
    BY <2>1
  <2>6. g = [k \in 0 .. m |-> g[k]]
    OBVIOUS
  <2> HIDE DEF g, Bad
  <2>7. \A k \in 0 .. m : Step(g, k, E, p, nested, order) = Step(f, k, E, p, nested, order)
    <3>1. TAKE k \in 0 .. m
    <3>2. CASE k = 0
      BY <3>2 DEF Step
    <3>3. CASE k # 0
      <4>1. k - 1 \in 0 .. m - 1
        BY <2>1, <3>3
      <4>2. g[k - 1] = f[k - 1]
        BY <2>3, <4>1
      <4>3. QED
        BY <3>3, <4>2 DEF Step
    <3>4. QED
      BY <3>2, <3>3
  <2>8. \A k \in 0 .. m : g[k] = Step(g, k, E, p, nested, order)
    <3>1. TAKE k \in 0 .. m
    <3>2. CASE k = m
      BY <2>5, <2>7, <3>2
    <3>3. CASE k # m
      <4>1. k \in 0 .. m - 1
        BY <2>1, <3>3
      <4>2. QED
        BY <2>3, <2>4, <2>7, <4>1
    <3>4. QED
      BY <3>2, <3>3
  <2>9. Merging(g, E, p, nested, order, m)
    BY <2>6, <2>8 DEF Merging
  <2>10. QED
    BY <1>2, <2>9 DEF Bad
<1>5. QED
  BY <1>3, <1>4

\* The cells of a Sun, with everything behind them.
LEMMA MergeIsMerged ==
  ASSUME NEW E, Nests(E), NEW p \in DOMAIN E, NEW nested,
         \A i \in Parents(E, p) : Merged(E, Append(p, i), Parents(E, Append(p, i)), nested[i])
  PROVE  Merged(E, p, Parents(E, p), merge_appearance(E, p, nested))
<1> DEFINE P == Parents(E, p)
           order == SortedIds(P)
           n == Len(order)
           f == CHOOSE h : Merging(h, E, p, nested, order, n)
           First(k) == {order[l] : l \in 1 .. k}
<1>1. P \subseteq Nat /\ IsFiniteSet(P)
  BY ParentsLead
<1>2. order \in Seq(P) /\ \A k, l \in 1 .. n : order[k] = order[l] => k = l
  BY <1>1, SortedIdsLists
<1>3. n \in Nat
  BY <1>2
<1>4. Merging(f, E, p, nested, order, n)
  BY <1>3, MergingExists
<1>5. merge_appearance(E, p, nested) = f[n]
  BY Zenon DEF merge_appearance, Merging, Step
<1> HIDE DEF f, n, order
<1>6. \A k \in 0 .. n : f[k] = Step(f, k, E, p, nested, order)
  BY <1>4, Zenon DEF Merging
<1> DEFINE Bad == {k \in 0 .. n : ~Merged(E, p, First(k), f[k])}
<1>7. Bad = {}
  <2>1. SUFFICES ASSUME Bad # {} PROVE FALSE
    BY <2>1
  <2>2. Bad \subseteq Nat
    BY <1>3
  <2>3. PICK k \in Bad : \A h \in Bad : k <= h
    BY <2>1, <2>2, LeastNumber
  <2>4. k \in 0 .. n /\ ~Merged(E, p, First(k), f[k])
    BY <2>3
  <2>5. CASE k = 0
    <3>1. f[0] = Alone(E[p])
      BY <1>6, <2>4, <2>5 DEF Step
    <3>2. First(0) = {}
      OBVIOUS
    <3>3. QED
      BY <2>4, <2>5, <3>1, <3>2, AloneIsMerged
  <2>6. CASE k # 0
    <3>1. k \in 1 .. n /\ k - 1 \in 0 .. n /\ k - 1 < k
      BY <1>3, <2>4, <2>6
    <3> DEFINE i == order[k]
    <3>2. Merged(E, p, First(k - 1), f[k - 1])
      <4>1. k - 1 \notin Bad
        <5> HIDE DEF Bad
        <5>1. k \in Nat /\ \A h \in Bad : k <= h
          BY <2>2, <2>3
        <5>2. QED
          BY <3>1, <5>1
      <4> HIDE DEF First
      <4>2. QED
        BY <3>1, <4>1
    <3>3. i \in P
      BY <1>2, <3>1 DEF n
    <3>4. f[k] = Merge(f[k - 1], i, E[Append(p, i)], nested[i])
      BY <1>6, <2>4, <2>6 DEF Step
    <3>5. First(k) = First(k - 1) \cup {i}
      <4>1. \A l \in 1 .. k : l \in 1 .. k - 1 \/ l = k
        BY <3>1
      <4>2. \A l \in 1 .. k - 1 : l \in 1 .. k
        BY <3>1
      <4>3. k \in 1 .. k
        BY <3>1
      <4>4. QED
        BY <4>1, <4>2, <4>3
    <3>6. i \notin First(k - 1)
      <4>1. \A l \in 1 .. k - 1 : l \in 1 .. n /\ l # k
        BY <1>3, <3>1
      <4>2. QED
        BY <1>2, <3>1, <4>1
    <3> HIDE DEF First, i
    <3>7. Merged(E, p, First(k - 1) \cup {i}, Merge(f[k - 1], i, E[Append(p, i)], nested[i]))
      BY <3>2, <3>3, <3>6, MergeKeeps
    <3>8. QED
      BY <2>4, <3>4, <3>5, <3>7
  <2>7. QED
    BY <2>5, <2>6
<1>8. Merged(E, p, First(n), f[n])
  <2>1. n \in 0 .. n
    BY <1>3
  <2>2. QED
    BY <1>7, <2>1
<1>9. First(n) \subseteq P
  BY <1>2 DEF n
<1> HIDE DEF First
<1>10. Merged(E, p, P, f[n])
  BY SMTT(40), <1>8, <1>9 DEF Merged, Home
<1>11. QED
  BY <1>5, <1>10

\* The graph at each path of S, from those at the paths that extend it.
Behind(f, E, p) == merge_appearance(E, p, [i \in Parents(E, p) |-> f[Append(p, i)]])
Graphs(f, E, S) == f = [p \in S |-> Behind(f, E, p)]

LEMMA GraphsExist ==
  ASSUME NEW E, Nests(E)
  PROVE  \E f : Graphs(f, E, DOMAIN E)
<1> DEFINE Deep(n) == {q \in DOMAIN E : Len(q) + n > MaxWarpDepth}
           Bad == {m \in Nat : ~\E f : Graphs(f, E, Deep(m))}
<1>1. MaxWarpDepth \in Nat /\ \A q \in DOMAIN E : q \in Seq(Nat) /\ Len(q) \in Nat
                                                  /\ Len(q) <= MaxWarpDepth
  BY ViewAssumption DEF Nests
<1>2. Bad = {}
  <2>1. SUFFICES ASSUME Bad # {} PROVE FALSE
    BY <2>1
  <2>2. Bad \subseteq Nat
    OBVIOUS
  <2>3. PICK m \in Bad : \A h \in Bad : m <= h
    BY <2>1, <2>2, LeastNumber
  <2>4. m \in Nat /\ ~\E f : Graphs(f, E, Deep(m))
    BY <2>3
  <2>5. CASE m = 0
    <3>1. \A q \in DOMAIN E : ~(Len(q) + 0 > MaxWarpDepth)
      BY <1>1
    <3>2. Deep(0) = {}
      BY <3>1
    <3> DEFINE f == [q \in {} |-> q]
    <3>3. f = [q \in {} |-> Behind(f, E, q)]
      OBVIOUS
    <3>4. Graphs(f, E, Deep(0))
      BY <3>2, <3>3 DEF Graphs
    <3>5. QED
      BY <2>4, <2>5, <3>4
  <2>6. CASE m # 0
    <3>1. m - 1 \in Nat /\ m - 1 < m
      BY <2>4, <2>6
    <3>2. m - 1 \notin Bad
      <4> HIDE DEF Bad
      <4>1. QED
        BY <2>2, <2>3, <3>1
    <3>3. PICK f : Graphs(f, E, Deep(m - 1))
      BY <3>1, <3>2
    <3> DEFINE S == Deep(m - 1)
               T == Deep(m)
               g == [q \in T |-> IF q \in S THEN f[q] ELSE Behind(f, E, q)]
    <3>4. S \subseteq T
      BY <1>1, <3>1
    <3>5. \A q \in T : \A i \in Parents(E, q) : Append(q, i) \in S
      <4>1. TAKE q \in T
      <4>2. TAKE i \in Parents(E, q)
      <4>3. q \in DOMAIN E /\ Len(q) + m > MaxWarpDepth
        OBVIOUS
      <4>4. i \in Nat /\ Append(q, i) \in DOMAIN E
        BY <4>3, ParentsLead
      <4>5. Len(Append(q, i)) = Len(q) + 1
        BY <1>1, <4>3, <4>4
      <4>6. Len(Append(q, i)) + (m - 1) > MaxWarpDepth
        BY <1>1, <2>4, <3>1, <4>3, <4>5
      <4>7. QED
        BY <4>4, <4>6
    <3>6. T \subseteq DOMAIN E
      OBVIOUS
    <3> HIDE DEF S, T
    <3>7. \A q \in S : g[q] = f[q]
      BY <3>4
    <3>8. \A q \in S : f[q] = Behind(f, E, q)
      BY <3>3, Zenon DEF Graphs, S
    <3>9. \A q \in T : q \in S \/ g[q] = Behind(f, E, q)
      OBVIOUS
    <3>10. g = [q \in T |-> g[q]]
      OBVIOUS
    <3> HIDE DEF g
    <3>11. \A q \in T : Behind(g, E, q) = Behind(f, E, q)
      <4>1. TAKE q \in T
      <4>2. \A i \in Parents(E, q) : g[Append(q, i)] = f[Append(q, i)]
        BY <3>5, <3>7
      <4>3. [i \in Parents(E, q) |-> g[Append(q, i)]] = [i \in Parents(E, q) |-> f[Append(q, i)]]
        BY <4>2
      <4>4. QED
        BY <4>3 DEF Behind
    <3>12. \A q \in T : g[q] = Behind(g, E, q)
      BY <3>4, <3>7, <3>8, <3>9, <3>11
    <3>13. Graphs(g, E, T)
      BY <3>10, <3>12 DEF Graphs
    <3>14. QED
      BY <2>4, <3>13 DEF T
  <2>7. QED
    BY <2>5, <2>6
<1>3. Deep(MaxWarpDepth + 1) = DOMAIN E
  <2>1. \A q \in DOMAIN E : Len(q) + (MaxWarpDepth + 1) > MaxWarpDepth
    BY <1>1
  <2>2. QED
    BY <2>1
<1>4. MaxWarpDepth + 1 \in Nat
  BY <1>1
<1> HIDE DEF Deep
<1>5. \E f : Graphs(f, E, Deep(MaxWarpDepth + 1))
  BY <1>2, <1>4
<1>6. QED
  BY <1>3, <1>5

LEMMA GraphsAreMerged ==
  ASSUME NEW E, Nests(E), NEW f, Graphs(f, E, DOMAIN E), NEW p \in DOMAIN E
  PROVE  Merged(E, p, Parents(E, p), f[p])
<1> DEFINE Good(q) == Merged(E, q, Parents(E, q), f[q])
           Bad == {m \in Nat : \E q \in DOMAIN E : m = MaxWarpDepth - Len(q) /\ ~Good(q)}
<1>1. MaxWarpDepth \in Nat /\ \A q \in DOMAIN E : q \in Seq(Nat) /\ Len(q) \in Nat
                                                  /\ Len(q) <= MaxWarpDepth
  BY ViewAssumption DEF Nests
<1>2. \A q \in DOMAIN E : f[q] = Behind(f, E, q)
  BY Zenon DEF Graphs
<1> HIDE DEF Good
<1>3. Bad = {}
  <2>1. SUFFICES ASSUME Bad # {} PROVE FALSE
    BY <2>1
  <2>2. Bad \subseteq Nat
    OBVIOUS
  <2>3. PICK m \in Bad : \A h \in Bad : m <= h
    BY <2>1, <2>2, LeastNumber
  <2>4. PICK q \in DOMAIN E : m = MaxWarpDepth - Len(q) /\ ~Good(q)
    BY <2>3
  <2>5. ASSUME NEW i \in Parents(E, q) PROVE Good(Append(q, i))
    <3> DEFINE r == Append(q, i)
    <3>1. i \in Nat /\ r \in DOMAIN E
      BY ParentsLead
    <3>2. Len(r) = Len(q) + 1
      BY <1>1, <3>1
    <3> HIDE DEF r
    <3>3. MaxWarpDepth - Len(r) \in Nat /\ MaxWarpDepth - Len(r) < m
      BY <1>1, <2>4, <3>1, <3>2
    <3>4. MaxWarpDepth - Len(r) \notin Bad
      <4> HIDE DEF Bad
      <4>1. QED
        BY <2>2, <2>3, <3>3
    <3>5. Good(r)
      BY <3>1, <3>3, <3>4
    <3>6. QED
      BY <3>5 DEF r
  <2> DEFINE nested == [i \in Parents(E, q) |-> f[Append(q, i)]]
  <2>6. \A i \in Parents(E, q) :
          Merged(E, Append(q, i), Parents(E, Append(q, i)), nested[i])
    BY <2>5 DEF Good
  <2>7. f[q] = merge_appearance(E, q, nested)
    BY <1>2 DEF Behind
  <2> HIDE DEF nested
  <2>8. Merged(E, q, Parents(E, q), f[q])
    BY <2>6, <2>7, MergeIsMerged
  <2>9. QED
    BY <2>4, <2>8 DEF Good
<1>4. MaxWarpDepth - Len(p) \in Nat
  BY <1>1
<1>5. QED
  BY <1>3, <1>4 DEF Good

LEMMA PrefixTwice ==
  ASSUME NEW p \in Seq(Nat), NEW m \in 0 .. Len(p), NEW n \in 0 .. m
  PROVE  SubSeq(SubSeq(p, 1, m), 1, n) = SubSeq(p, 1, n)
<1> DEFINE q == SubSeq(p, 1, m)
<1>1. Len(p) \in Nat /\ m \in Nat /\ n \in 0 .. Len(p)
  OBVIOUS
<1>2. q \in Seq(Nat) /\ Len(q) = m /\ \A k \in 1 .. m : q[k] = p[k]
  BY PrefixOf
<1> HIDE DEF q
<1> DEFINE r == SubSeq(q, 1, n)
           s == SubSeq(p, 1, n)
<1>3. r \in Seq(Nat) /\ Len(r) = n /\ \A k \in 1 .. n : r[k] = q[k]
  BY <1>2, PrefixOf
<1>4. s \in Seq(Nat) /\ Len(s) = n /\ \A k \in 1 .. n : s[k] = p[k]
  BY <1>1, PrefixOf
<1> HIDE DEF r, s
<1>5. \A k \in 1 .. Len(r) : r[k] = s[k]
  <2>1. \A k \in 1 .. n : k \in 1 .. m
    BY <1>1
  <2>2. QED
    BY <1>2, <1>3, <1>4, <2>1
<1>6. r = s
  BY <1>3, <1>4, <1>5, SeqEqual
<1>7. QED
  BY <1>6 DEF r, s, q

LEMMA PrefixIsExpanded ==
  ASSUME NEW p \in Seq(Nat), NEW shown, is_path_expanded(p, shown), NEW m \in 0 .. Len(p)
  PROVE  is_path_expanded(SubSeq(p, 1, m), shown)
<1> DEFINE q == SubSeq(p, 1, m)
<1>1. Len(p) \in Nat /\ Len(q) = m
  BY PrefixOf
<1>2. ASSUME NEW n \in 1 .. m PROVE SubSeq(q, 1, n) \in shown
  <2>1. n \in 0 .. m /\ n \in 1 .. Len(p)
    BY <1>1
  <2>2. SubSeq(q, 1, n) = SubSeq(p, 1, n)
    BY <2>1, PrefixTwice
  <2>3. QED
    BY <2>1, <2>2 DEF is_path_expanded
<1> HIDE DEF q
<1>3. is_path_expanded(q, shown)
  BY <1>1, <1>2 DEF is_path_expanded
<1>4. QED
  BY <1>3 DEF q

LEMMA ExpandedNests ==
  ASSUME NEW snap, Nests(snap), NEW shown
  PROVE  LET E == expanded_warp_appearances(snap, shown)
         IN  /\ Nests(E) /\ E[<<>>] = snap[<<>>]
             /\ \A p \in DOMAIN E : is_path_expanded(p, shown)
<1> DEFINE E == expanded_warp_appearances(snap, shown)
<1>1. /\ DOMAIN E = {q \in DOMAIN snap : is_path_expanded(q, shown)}
      /\ \A q \in DOMAIN E : E[q] = snap[q]
  BY DEF expanded_warp_appearances
<1> HIDE DEF E
<1>2. <<>> \in DOMAIN E
  <2>1. 1 .. Len(<<>>) = {}
    OBVIOUS
  <2>2. is_path_expanded(<<>>, shown)
    BY <2>1 DEF is_path_expanded
  <2>3. QED
    BY <1>1, <2>2 DEF Nests
<1>3. ASSUME NEW p \in DOMAIN E, p # <<>> PROVE Front(p) \in DOMAIN E
  <2>1. p \in DOMAIN snap /\ p \in Seq(Nat) /\ Front(p) \in DOMAIN snap
    BY <1>1, <1>3 DEF Nests
  <2>2. Len(p) \in Nat \ {0} /\ Front(p) = SubSeq(p, 1, Len(p) - 1)
    BY <1>3, <2>1, EmptySeq DEF Front
  <2>3. is_path_expanded(p, shown)
    BY <1>1
  <2>4. is_path_expanded(Front(p), shown)
    <3>1. Len(p) - 1 \in 0 .. Len(p)
      BY <2>2
    <3>2. QED
      BY <2>1, <2>2, <2>3, <3>1, PrefixIsExpanded
  <2>5. QED
    BY <1>1, <2>1, <2>4
<1>4. Nests(E)
  <2>1. E[<<>>].sun = Top
    BY <1>1, <1>2 DEF Nests
  <2>2. ASSUME NEW p \in DOMAIN E
        PROVE  /\ p \in Seq(Nat) /\ Len(p) <= MaxWarpDepth
               /\ E[p].sun \in DOMAIN Suns /\ DOMAIN E[p].seqs = DOMAIN Suns[E[p].sun].cells
    BY <1>1 DEF Nests
  <2>3. ASSUME NEW p \in DOMAIN E, p # <<>>
        PROVE  /\ Last(p) \in DOMAIN Suns[E[Front(p)].sun].cells
               /\ E[p].sun = Suns[E[Front(p)].sun].cells[Last(p)].warp
    BY <1>1, <1>3, <2>3 DEF Nests
  <2>4. QED
    BY <1>2, <1>3, <2>1, <2>2, <2>3 DEF Nests
<1>5. E[<<>>] = snap[<<>>] /\ \A p \in DOMAIN E : is_path_expanded(p, shown)
  BY <1>1, <1>2
<1>6. QED
  BY <1>4, <1>5 DEF E

\* The graph shown is that of the watched Sun, everything expanded merged.
LEMMA GraphIsMerged ==
  ASSUME NEW snap, Nests(snap), NEW shown
  PROVE  LET E == expanded_warp_appearances(snap, shown)
         IN  /\ Nests(E) /\ E[<<>>] = snap[<<>>]
             /\ \A p \in DOMAIN E : is_path_expanded(p, shown)
             /\ Merged(E, <<>>, Parents(E, <<>>), from_appearance(snap, shown))
<1> DEFINE E == expanded_warp_appearances(snap, shown)
           f == CHOOSE h : Graphs(h, E, DOMAIN E)
<1>1. /\ Nests(E) /\ E[<<>>] = snap[<<>>]
      /\ \A p \in DOMAIN E : is_path_expanded(p, shown)
  BY ExpandedNests
<1>2. from_appearance(snap, shown) = f[<<>>]
  BY Zenon DEF from_appearance, Graphs, Behind
<1> HIDE DEF E
<1>3. Graphs(f, E, DOMAIN E)
  BY <1>1, GraphsExist
<1> HIDE DEF f
<1>4. <<>> \in DOMAIN E
  BY <1>1 DEF Nests
<1>5. Merged(E, <<>>, Parents(E, <<>>), f[<<>>])
  BY <1>1, <1>3, <1>4, GraphsAreMerged
<1>6. QED
  BY <1>1, <1>2, <1>5 DEF E
-----------------------------------------------------------------------------
(* Colours.                                                                *)

States == {"idle", "p1", "p2", "opt"}

VisualOk(v) ==
  /\ v = [current |-> v.current, pending |-> v.pending, observed |-> v.observed]
  /\ v.current \in States /\ v.pending \in Seq(States) /\ v.observed \in Nat
  /\ Latest(v) = StateAt(v.observed)

LEMMA MaxOfTwo ==
  ASSUME NEW a \in Int, NEW b \in Int
  PROVE  Max({a, b}) = IF a >= b THEN a ELSE b
<1> DEFINE m == IF a >= b THEN a ELSE b
<1>1. m \in {a, b} /\ m >= a /\ m >= b /\ m \in Int
  OBVIOUS
<1>2. \A x \in {a, b} : (\A y \in {a, b} : x >= y) => x = m
  OBVIOUS
<1>3. \A y \in {a, b} : m >= y
  BY <1>1
<1> HIDE DEF m
<1>4. Max({a, b}) = CHOOSE x \in {a, b} : \A y \in {a, b} : x >= y
  BY Zenon DEF Max
<1>5. (CHOOSE x \in {a, b} : \A y \in {a, b} : x >= y) = m
  BY <1>1, <1>2, <1>3
<1>6. QED
  BY <1>4, <1>5 DEF m

\* What is left of a sequence after its first elements ends as it did.
LEMMA Remaining ==
  ASSUME NEW s \in Seq(States), NEW m \in 1 .. Len(s) + 1
  PROVE  LET q == SubSeq(s, m, Len(s))
         IN  /\ q \in Seq(States) /\ Len(q) = Len(s) - m + 1
             /\ m <= Len(s) => q # <<>> /\ s # <<>> /\ Last(q) = Last(s)
             /\ m = Len(s) + 1 => q = <<>>
<1> DEFINE q == SubSeq(s, m, Len(s))
<1>1. Len(s) \in Nat /\ m \in Nat \ {0}
  OBVIOUS
<1>2. \A k \in m .. Len(s) : s[k] \in States
  <2>1. \A k \in m .. Len(s) : k \in 1 .. Len(s)
    BY <1>1
  <2>2. QED
    BY <2>1, ElementOfSeq
<1>3. /\ q \in Seq(States) /\ Len(q) = IF m <= Len(s) THEN Len(s) - m + 1 ELSE 0
      /\ \A k \in 1 .. Len(s) - m + 1 : q[k] = s[m + k - 1]
  BY <1>1, <1>2, SubSeqProperties
<1> HIDE DEF q
<1>4. Len(q) = Len(s) - m + 1
  BY <1>1, <1>3
<1>5. ASSUME m <= Len(s) PROVE q # <<>> /\ s # <<>> /\ Last(q) = Last(s)
  <2>1. Len(q) \in 1 .. Len(s) - m + 1 /\ m + Len(q) - 1 = Len(s) /\ Len(s) # 0 /\ Len(q) # 0
    BY <1>1, <1>4, <1>5
  <2>2. q[Len(q)] = s[Len(s)]
    BY <1>3, <2>1
  <2>3. q # <<>> /\ s # <<>>
    BY <2>1, EmptySeq
  <2>4. QED
    BY <2>2, <2>3 DEF Last
<1>6. ASSUME m = Len(s) + 1 PROVE q = <<>>
  <2>1. Len(q) = 0
    BY <1>1, <1>4, <1>6
  <2>2. QED
    BY <1>3, <2>1, EmptySeq
<1>7. QED
  BY <1>3, <1>4, <1>5, <1>6 DEF q

LEMMA Kept ==
  ASSUME NEW s \in Seq(States)
  PROVE  /\ KeepLast(s) \in Seq(States)
         /\ s = <<>> => KeepLast(s) = <<>>
         /\ s # <<>> => KeepLast(s) # <<>> /\ Last(KeepLast(s)) = Last(s)
<1> DEFINE m == Max({1, Len(s) - MaxPendingPhases + 1})
<1>1. Len(s) \in Nat /\ MaxPendingPhases \in Nat \ {0} /\ Len(s) - MaxPendingPhases + 1 \in Int
  BY ViewAssumption
<1>2. m = IF 1 >= Len(s) - MaxPendingPhases + 1 THEN 1 ELSE Len(s) - MaxPendingPhases + 1
  BY <1>1, MaxOfTwo
<1>3. KeepLast(s) = SubSeq(s, m, Len(s))
  BY DEF KeepLast
<1> HIDE DEF m
<1>4. m \in 1 .. Len(s) + 1 /\ (Len(s) # 0 => m <= Len(s)) /\ (Len(s) = 0 => m = Len(s) + 1)
  BY <1>1, <1>2
<1>5. s = <<>> <=> Len(s) = 0
  BY EmptySeq
<1>6. QED
  BY <1>3, <1>4, <1>5, Remaining

LEMMA PhaseNumbers ==
  /\ \A k \in 1 .. 3 : Phases[k] \in States \ {"idle"}
  /\ \A t \in States \ {"idle"} : \E k \in 1 .. 3 : Phases[k] = t
  /\ \A s \in States : next_phase(s) \in 1 .. 3
  /\ \A n \in Nat : StateAt(n) \in States
<1>1. Phases[1] = "p1" /\ Phases[2] = "p2" /\ Phases[3] = "opt"
  BY DEF Phases
<1>2. \A k \in 1 .. 3 : k = 1 \/ k = 2 \/ k = 3
  OBVIOUS
<1>3. \A k \in 1 .. 3 : Phases[k] \in States \ {"idle"}
  BY <1>1, <1>2 DEF States
<1>4. \A t \in States \ {"idle"} : \E k \in 1 .. 3 : Phases[k] = t
  <2>1. 1 \in 1 .. 3 /\ 2 \in 1 .. 3 /\ 3 \in 1 .. 3
    OBVIOUS
  <2>2. QED
    BY <1>1, <2>1 DEF States
<1>5. \A s \in States : next_phase(s) \in 1 .. 3
  BY DEF States, next_phase
<1>6. ASSUME NEW n \in Nat PROVE StateAt(n) \in States
  <2>1. CASE n = 0
    BY <2>1 DEF StateAt, States
  <2>2. CASE n # 0
    <3>1. ((n - 1) % 3) + 1 \in 1 .. 3
      BY <2>2
    <3>2. QED
      BY <1>3, <2>2, <3>1 DEF StateAt
  <2>3. QED
    BY <2>1, <2>2
<1>7. QED
  BY <1>3, <1>4, <1>5, <1>6

LEMMA PhasesAfterAre ==
  ASSUME NEW s \in States, NEW n \in Nat
  PROVE  /\ PhasesAfter(s, n) \in Seq(States) /\ Len(PhasesAfter(s, n)) = n
         /\ \A k \in 1 .. n : PhasesAfter(s, n)[k] = Phases[((next_phase(s) + k - 2) % 3) + 1]
<1> DEFINE a == next_phase(s)
           q == PhasesAfter(s, n)
<1>1. a \in 1 .. 3
  BY PhaseNumbers
<1>2. q = [k \in 1 .. n |-> Phases[((a + k - 2) % 3) + 1]]
  BY DEF PhasesAfter
<1> HIDE DEF q, a
<1>3. ASSUME NEW k \in 1 .. n PROVE Phases[((a + k - 2) % 3) + 1] \in States
  <2>1. a + k - 2 \in Nat
    BY <1>1
  <2>2. ((a + k - 2) % 3) + 1 \in 1 .. 3
    BY <2>1
  <2>3. QED
    BY <2>2, PhaseNumbers
<1>4. q \in [1 .. n -> States] /\ \A k \in 1 .. n : q[k] = Phases[((a + k - 2) % 3) + 1]
  BY <1>2, <1>3
<1>5. q \in Seq(States) /\ Len(q) = n
  BY <1>4
<1>6. QED
  BY <1>4, <1>5 DEF q, a

LEMMA StepsReach ==
  ASSUME NEW s \in States, NEW t \in States, t # "idle"
  PROVE  LET n == StepsTo(s, t)
         IN  n \in 1 .. 3 /\ PhasesAfter(s, n)[n] = t
<1> DEFINE a == next_phase(s)
<1>1. a \in 1 .. 3
  BY PhaseNumbers
<1>2. PICK k \in 1 .. 3 : Phases[k] = t
  BY PhaseNumbers
<1> HIDE DEF a
<1>3. \E n \in 1 .. 3 : ((a + n - 2) % 3) + 1 = k
  <2>1. (a = 1 \/ a = 2 \/ a = 3) /\ (k = 1 \/ k = 2 \/ k = 3)
    BY <1>1
  <2>2. CASE k = a
    <3>1. 1 \in 1 .. 3 /\ ((a + 1 - 2) % 3) + 1 = k
      BY <2>1, <2>2
    <3>2. QED
      BY <3>1
  <2>3. CASE k = a + 1 \/ k = a - 2
    <3>1. 2 \in 1 .. 3 /\ ((a + 2 - 2) % 3) + 1 = k
      BY <2>1, <2>3
    <3>2. QED
      BY <3>1
  <2>4. CASE k = a + 2 \/ k = a - 1
    <3>1. 3 \in 1 .. 3 /\ ((a + 3 - 2) % 3) + 1 = k
      BY <2>1, <2>4
    <3>2. QED
      BY <3>1
  <2>5. QED
    BY <2>1, <2>2, <2>3, <2>4
<1>4. \A n \in 1 .. 3 : PhasesAfter(s, 3)[n] = Phases[((a + n - 2) % 3) + 1]
  BY PhasesAfterAre DEF a
<1>5. \E n \in 1 .. 3 : PhasesAfter(s, 3)[n] = t
  BY <1>2, <1>3, <1>4
<1> DEFINE n == StepsTo(s, t)
<1>6. n \in 1 .. 3 /\ PhasesAfter(s, 3)[n] = t
  BY <1>5 DEF StepsTo
<1> HIDE DEF n
<1>7. n \in Nat /\ n \in 1 .. n
  BY <1>6
<1>8. PhasesAfter(s, n)[n] = Phases[((a + n - 2) % 3) + 1]
  BY <1>7, PhasesAfterAre DEF a
<1>9. PhasesAfter(s, n)[n] = t
  BY <1>4, <1>6, <1>8
<1>10. QED
  BY <1>6, <1>9 DEF n

LEMMA RecentSteps ==
  ASSUME NEW s \in States, NEW n \in Nat \ {0}
  PROVE  recent_phase_steps(s, n) \in Seq(States) /\ recent_phase_steps(s, n) # <<>>
<1> DEFINE m == Max({0, n - MaxPendingPhases})
           q == PhasesAfter(s, n)
<1>1. n \in Nat /\ n - MaxPendingPhases \in Int /\ n - MaxPendingPhases < n
  BY ViewAssumption
<1>2. m = IF 0 >= n - MaxPendingPhases THEN 0 ELSE n - MaxPendingPhases
  BY <1>1, MaxOfTwo
<1>3. q \in Seq(States) /\ Len(q) = n
  BY <1>1, PhasesAfterAre
<1>4. recent_phase_steps(s, n) = SubSeq(q, m + 1, n)
  BY DEF recent_phase_steps
<1> HIDE DEF m, q
<1>5. m + 1 \in 1 .. Len(q) + 1 /\ m + 1 <= Len(q)
  BY <1>1, <1>2, <1>3
<1>6. QED
  BY <1>3, <1>4, <1>5, Remaining

LEMMA PathReaches ==
  ASSUME NEW s \in States, NEW t \in States
  PROVE  /\ phase_path(s, t) \in Seq(States)
         /\ phase_path(s, t) = <<>> => s = t
         /\ phase_path(s, t) # <<>> => Last(phase_path(s, t)) = t
<1>1. CASE s = t
  <2>1. phase_path(s, t) = <<>>
    BY <1>1 DEF phase_path
  <2>2. QED
    BY <1>1, <2>1, EmptySeq
<1>2. CASE s # t /\ t = "idle"
  <2>1. phase_path(s, t) = <<t>>
    BY <1>2 DEF phase_path
  <2>2. <<t>> \in Seq(States) /\ <<t>> # <<>> /\ Len(<<t>>) = 1 /\ <<t>>[1] = t
    OBVIOUS
  <2>3. QED
    BY <2>1, <2>2 DEF Last
<1>3. CASE s # t /\ t # "idle"
  <2> DEFINE n == StepsTo(s, t)
             q == PhasesAfter(s, n)
  <2>1. phase_path(s, t) = q
    BY <1>3 DEF phase_path
  <2>2. n \in 1 .. 3 /\ q[n] = t
    BY <1>3, StepsReach
  <2> HIDE DEF n
  <2>3. n \in Nat \ {0}
    BY <2>2
  <2>4. q \in Seq(States) /\ Len(q) = n
    BY <2>3, PhasesAfterAre
  <2> HIDE DEF q
  <2>5. q # <<>>
    BY <2>3, <2>4, EmptySeq
  <2>6. QED
    BY <2>1, <2>2, <2>4, <2>5 DEF Last
<1>4. QED
  BY <1>1, <1>2, <1>3

LEMMA TransitionKeepsLatest ==
  ASSUME NEW v, VisualOk(v)
  PROVE  VisualOk(begin_next_transition(v)) /\ begin_next_transition(v).observed = v.observed
<1> DEFINE p == v.pending
           other == {k \in DOMAIN p : p[k] # v.current}
           r == begin_next_transition(v)
<1>1. PICK w : w = [current |-> v.current, pending |-> v.pending, observed |-> v.observed]
  OBVIOUS
<1>2. v = w /\ v.current \in States /\ p \in Seq(States) /\ v.observed \in Nat
      /\ Latest(v) = StateAt(v.observed)
  BY <1>1 DEF VisualOk
<1>3. Latest(v) = IF p = <<>> THEN v.current ELSE Last(p)
  BY DEF Latest
<1>4. DOMAIN p = 1 .. Len(p) /\ Len(p) \in Nat
  BY <1>2, LenProperties
<1>5. CASE other = {}
  <2>1. begin_next_transition(w) = [w EXCEPT !.pending = <<>>]
    BY <1>1, <1>2, <1>5 DEF begin_next_transition
  <2>2. [w EXCEPT !.pending = <<>>]
        = [current |-> v.current, pending |-> <<>>, observed |-> v.observed]
    BY <1>1
  <2>3. r = [current |-> v.current, pending |-> <<>>, observed |-> v.observed]
    BY <1>2, <2>1, <2>2
  <2> HIDE DEF r
  <2>4. r.current = v.current /\ r.pending = <<>> /\ r.observed = v.observed
        /\ r = [current |-> r.current, pending |-> r.pending, observed |-> r.observed]
    BY <2>3
  <2>5. Latest(v) = v.current
    <3>1. CASE p = <<>>
      BY <1>3, <3>1
    <3>2. CASE p # <<>>
      <4>1. Len(p) \in DOMAIN p
        BY <1>2, <1>4, <3>2, EmptySeq
      <4>2. p[Len(p)] = v.current
        BY <1>5, <4>1
      <4>3. QED
        BY <1>3, <3>2, <4>2 DEF Last
    <3>3. QED
      BY <3>1, <3>2
  <2>6. Latest(r) = r.current
    BY <2>4 DEF Latest
  <2>7. VisualOk(r)
    BY <1>2, <2>4, <2>5, <2>6, EmptySeq DEF VisualOk
  <2>8. QED
    BY <2>4, <2>7 DEF r
<1>6. CASE other # {}
  <2> DEFINE m == Min(other)
             q == SubSeq(p, m + 1, Len(p))
  <2>1. m \in other
    <3>1. other \subseteq Nat
      BY <1>4
    <3> HIDE DEF other
    <3>2. QED
      BY <1>6, <3>1, MinIsLeast
  <2>2. m \in 1 .. Len(p) /\ m + 1 \in 1 .. Len(p) + 1 /\ p[m] \in States
    <3>1. m \in 1 .. Len(p)
      BY <1>4, <2>1
    <3> HIDE DEF m
    <3>2. m + 1 \in 1 .. Len(p) + 1
      BY <1>4, <3>1
    <3>3. QED
      BY <1>2, <3>1, <3>2, ElementOfSeq
  <2>3. begin_next_transition(w)
        = [w EXCEPT !.current = w.pending[Min({k \in DOMAIN w.pending : w.pending[k] # w.current})],
                    !.pending = SubSeq(@, Min({k \in DOMAIN w.pending :
                                                 w.pending[k] # w.current}) + 1, Len(@))]
    BY <1>2, <1>6, Zenon DEF begin_next_transition
  <2>4. w.pending = p /\ w.current = v.current
    BY <1>1
  <2>5. begin_next_transition(w) = [w EXCEPT !.current = p[m], !.pending = q]
    BY <2>3, <2>4
  <2> HIDE DEF m, q, other
  <2>6. [w EXCEPT !.current = p[m], !.pending = q]
        = [current |-> p[m], pending |-> q, observed |-> v.observed]
    <3> DEFINE x == p[m]
               u == [w EXCEPT !.current = x]
    <3> HIDE DEF x
    <3>1. u = [current |-> x, pending |-> v.pending, observed |-> v.observed]
      BY <1>1
    <3>2. [w EXCEPT !.current = x, !.pending = q] = [u EXCEPT !.pending = q]
      OBVIOUS
    <3> HIDE DEF u
    <3>3. [u EXCEPT !.pending = q] = [current |-> x, pending |-> q, observed |-> v.observed]
      BY <3>1
    <3>4. QED
      BY <3>2, <3>3 DEF x
  <2>7. r = [current |-> p[m], pending |-> q, observed |-> v.observed]
    BY <1>2, <2>5, <2>6
  <2> HIDE DEF r
  <2>8. r.current = p[m] /\ r.pending = q /\ r.observed = v.observed
        /\ r = [current |-> r.current, pending |-> r.pending, observed |-> r.observed]
    BY <2>7
  <2> HIDE DEF p
  <2>9. /\ q \in Seq(States)
        /\ m + 1 <= Len(p) => q # <<>> /\ p # <<>> /\ Last(q) = Last(p)
        /\ m + 1 = Len(p) + 1 => q = <<>>
    BY <1>2, <2>2, Remaining DEF q
  <2>10. p # <<>>
    <3>1. Len(p) # 0
      BY <1>4, <2>2
    <3>2. QED
      BY <3>1, EmptySeq
  <2>11. Latest(v) = Last(p) /\ Last(p) = p[Len(p)]
    BY <1>3, <2>10 DEF Last
  <2>12. Latest(r) = IF q = <<>> THEN p[m] ELSE Last(q)
    BY <2>8 DEF Latest
  <2>13. Latest(r) = Latest(v)
    <3>1. CASE m + 1 <= Len(p)
      BY <2>9, <2>11, <2>12, <3>1
    <3>2. CASE m = Len(p)
      <4>1. q = <<>>
        BY <2>9, <3>2
      <4>2. Latest(r) = p[m]
        BY <2>12, <4>1
      <4>3. QED
        BY <2>11, <3>2, <4>2
    <3>3. m \in 1 .. Len(p) /\ Len(p) \in Nat
      BY <1>4, <2>2
    <3>4. m + 1 <= Len(p) \/ m = Len(p)
      BY <3>3
    <3>5. QED
      BY <3>1, <3>2, <3>4
  <2>14. VisualOk(r)
    BY <1>2, <2>2, <2>8, <2>9, <2>13 DEF VisualOk
  <2>15. QED
    BY <2>8, <2>14 DEF r
<1>7. QED
  BY <1>5, <1>6

LEMMA JoinedEnds ==
  ASSUME NEW s \in Seq(States), NEW t \in Seq(States)
  PROVE  /\ s \o t \in Seq(States)
         /\ t # <<>> => s \o t # <<>> /\ Last(s \o t) = Last(t)
         /\ t = <<>> => s \o t = s
<1> DEFINE r == s \o t
<1>1. Len(s) \in Nat /\ Len(t) \in Nat
  OBVIOUS
<1>2. /\ r \in Seq(States) /\ Len(r) = Len(s) + Len(t)
      /\ \A k \in 1 .. Len(s) + Len(t) : r[k] = IF k <= Len(s) THEN s[k] ELSE t[k - Len(s)]
  BY ConcatProperties
<1>3. t = <<>> => r = s
  BY ConcatEmptySeq
<1> HIDE DEF r
<1>4. ASSUME t # <<>> PROVE r # <<>> /\ Last(r) = Last(t)
  <2>1. Len(t) # 0
    BY <1>4, EmptySeq
  <2>2. Len(r) # 0 /\ Len(r) \in 1 .. Len(s) + Len(t) /\ ~(Len(r) <= Len(s))
        /\ Len(r) - Len(s) = Len(t)
    BY <1>1, <1>2, <2>1
  <2>3. r[Len(r)] = t[Len(t)]
    BY <1>2, <2>2
  <2>4. r # <<>>
    BY <2>2, EmptySeq
  <2>5. QED
    BY <1>4, <2>3, <2>4 DEF Last
<1>5. QED
  BY <1>2, <1>3, <1>4 DEF r

\* What a poll saw is what the colours still to be shown end in.
LEMMA ObserveKeepsLatest ==
  ASSUME NEW v, VisualOk(v), NEW seq \in Nat, NEW free
  PROVE  /\ VisualOk(observe(v, seq, free))
         /\ observe(v, seq, free).observed = IF seq < v.observed THEN v.observed ELSE seq
<1> DEFINE recent == recent_phase_steps(Latest(v), seq - v.observed)
           path == IF seq > v.observed /\ Last(recent) = StateAt(seq) THEN recent
                   ELSE phase_path(Latest(v), StateAt(seq))
           seen == [v EXCEPT !.observed = seq, !.pending = KeepLast(@ \o path)]
           r == observe(v, seq, free)
<1>1. PICK w : w = [current |-> v.current, pending |-> v.pending, observed |-> v.observed]
  OBVIOUS
<1>2. v = w /\ v.current \in States /\ v.pending \in Seq(States) /\ v.observed \in Nat
      /\ Latest(v) = StateAt(v.observed)
  BY <1>1 DEF VisualOk
<1>3. StateAt(seq) \in States /\ Latest(v) \in States
  BY <1>2, PhaseNumbers
<1>4. r = IF seq < v.observed THEN v
          ELSE IF path = <<>> \/ ~free THEN seen
          ELSE begin_next_transition(seen)
  BY Zenon DEF observe
<1>5. /\ path \in Seq(States)
      /\ path = <<>> => Latest(v) = StateAt(seq)
      /\ path # <<>> => Last(path) = StateAt(seq)
  <2>1. CASE seq > v.observed /\ Last(recent) = StateAt(seq)
    <3>1. seq - v.observed \in Nat \ {0}
      BY <1>2, <2>1
    <3>2. recent \in Seq(States) /\ recent # <<>>
      BY <1>3, <3>1, RecentSteps
    <3>3. path = recent
      BY <2>1
    <3> HIDE DEF path, recent
    <3>4. QED
      BY <2>1, <3>2, <3>3
  <2>2. CASE ~(seq > v.observed /\ Last(recent) = StateAt(seq))
    <3>1. path = phase_path(Latest(v), StateAt(seq))
      BY <2>2
    <3> HIDE DEF path
    <3>2. QED
      BY <1>3, <3>1, PathReaches
  <2>3. QED
    BY <2>1, <2>2
<1> HIDE DEF path
<1> DEFINE p == v.pending \o path
           kept == KeepLast(p)
<1>6. seen = [current |-> v.current, pending |-> kept, observed |-> seq]
  <2> DEFINE u == [w EXCEPT !.observed = seq]
  <2>1. u = [current |-> v.current, pending |-> v.pending, observed |-> seq]
    BY <1>1
  <2>2. [w EXCEPT !.observed = seq, !.pending = KeepLast(@ \o path)]
        = [u EXCEPT !.pending = KeepLast(@ \o path)]
    OBVIOUS
  <2> HIDE DEF u
  <2>3. [u EXCEPT !.pending = KeepLast(@ \o path)] = [u EXCEPT !.pending = kept]
    BY <2>1
  <2> HIDE DEF kept
  <2>4. [u EXCEPT !.pending = kept] = [current |-> v.current, pending |-> kept, observed |-> seq]
    BY <2>1
  <2>5. seen = [w EXCEPT !.observed = seq, !.pending = KeepLast(@ \o path)]
    BY <1>2
  <2>6. QED
    BY <2>2, <2>3, <2>4, <2>5
<1>7. p \in Seq(States) /\ (path # <<>> => p # <<>> /\ Last(p) = Last(path))
      /\ (path = <<>> => p = v.pending)
  BY <1>2, <1>5, JoinedEnds
<1>8. /\ kept \in Seq(States)
      /\ p = <<>> => kept = <<>>
      /\ p # <<>> => kept # <<>> /\ Last(kept) = Last(p)
  BY <1>7, Kept
<1> HIDE DEF seen, kept, p, r
<1>9. seen.current = v.current /\ seen.pending = kept /\ seen.observed = seq
      /\ seen = [current |-> seen.current, pending |-> seen.pending, observed |-> seen.observed]
  BY <1>6
<1>10. Latest(seen) = IF kept = <<>> THEN v.current ELSE Last(kept)
  BY <1>9 DEF Latest
<1>11. Latest(v) = IF v.pending = <<>> THEN v.current ELSE Last(v.pending)
  BY DEF Latest
<1>12. Latest(seen) = StateAt(seq)
  <2>1. CASE path = <<>>
    BY <1>5, <1>7, <1>8, <1>10, <1>11, <2>1
  <2>2. CASE path # <<>>
    BY <1>5, <1>7, <1>8, <1>10, <2>2
  <2>3. QED
    BY <2>1, <2>2
<1>13. VisualOk(seen)
  BY <1>2, <1>8, <1>9, <1>12 DEF VisualOk
<1>14. VisualOk(begin_next_transition(seen)) /\ begin_next_transition(seen).observed = seq
  BY <1>9, <1>13, TransitionKeepsLatest
<1>15. VisualOk(r) /\ r.observed = IF seq < v.observed THEN v.observed ELSE seq
  BY <1>4, <1>9, <1>13, <1>14
<1>16. QED
  BY <1>15 DEF r
-----------------------------------------------------------------------------
(* The inductive invariant.                                                *)

CellNames == UNION {{<<j, i>> : i \in DOMAIN Suns[j].cells} : j \in DOMAIN Suns}

\* The watched Sun was seen in phases it has begun.
Seen(E) ==
  \A i \in DOMAIN E[<<>>].seqs : E[<<>>].seqs[i] \in Nat /\ E[<<>>].seqs[i] <= phase[<<Top, i>>]

\* Paths of warp cells of the Suns that were found.
WarpPaths(got) ==
  {q \in Seq(Nat) : /\ q # <<>> /\ Len(q) <= MaxWarpDepth /\ Front(q) \in DOMAIN got
                    /\ Last(q) \in DOMAIN Suns[got[Front(q)].sun].cells
                    /\ SunAt(got, q) \in DOMAIN Suns}
Scans(got) == Seq(WarpPaths(got)) \ {<<>>}

FetchOk ==
  /\ fetch = [stage |-> fetch.stage, todo |-> fetch.todo, got |-> fetch.got]
  /\ fetch.stage = "warps" =>
       Nests(fetch.got) /\ Seen(fetch.got) /\ fetch.todo \in Seq(Scans(fetch.got))

SnapshotOk ==
  snapshot # NothingFetched.got =>
    /\ Nests(snapshot) /\ Seen(snapshot)
    /\ Valid(Alone(snapshot[<<>>]).cells, Alone(snapshot[<<>>]).edges)

ExpandedOk ==
  expanded \subseteq Seq(Nat) /\ \A path \in expanded : is_path_expanded(path, expanded)

ModelOk ==
  model = IF snapshot = NothingFetched.got THEN EmptyModel ELSE from_appearance(snapshot, expanded)

VisualsOk ==
  \A id \in DOMAIN visuals \cap DOMAIN Suns[Top].cells :
    VisualOk(visuals[id]) /\ visuals[id].observed <= phase[<<Top, id>>]

ViewInv ==
  phase \in [CellNames -> Nat] /\ FetchOk /\ SnapshotOk /\ ExpandedOk /\ ModelOk /\ VisualsOk

LEMMA TopCells ==
  \A i \in DOMAIN Suns[Top].cells : <<Top, i>> \in CellNames
BY SunsAssumption DEF CellNames

\* What a snapshot shows: the watched Sun's cells as they were seen, in a
\* well-formed graph, with paths that lead home.
LEMMA Shown ==
  ASSUME NEW snap, Nests(snap), NEW shown
  PROVE  LET m == from_appearance(snap, shown)
         IN  /\ \A i \in DOMAIN Suns[Top].cells : /\ i \in DOMAIN m.cells
                                                  /\ m.cells[i].seq = snap[<<>>].seqs[i]
             /\ Valid(Alone(snap[<<>>]).cells, Alone(snap[<<>>]).edges)
                <=> Valid(m.cells, m.edges)
             /\ \A id \in DOMAIN m.paths :
                  /\ m.paths[id] \in Seq(Nat) /\ m.paths[id] # <<>>
                  /\ Leads(Top, m.paths[id], <<m.cells[id].sun, m.cells[id].local>>)
                  /\ \A n \in 1 .. Len(m.paths[id]) - 1 : SubSeq(m.paths[id], 1, n) \in shown
                  /\ \A other \in DOMAIN m.paths : m.paths[other] = m.paths[id] => other = id
<1> DEFINE E == expanded_warp_appearances(snap, shown)
           m == from_appearance(snap, shown)
           app == snap[<<>>]
           g == Alone(app)
<1>1. /\ Nests(E) /\ E[<<>>] = app
      /\ \A p \in DOMAIN E : is_path_expanded(p, shown)
      /\ Merged(E, <<>>, Parents(E, <<>>), m)
  BY GraphIsMerged
<1> HIDE DEF E, m
<1>2. app.sun = Top /\ Top \in DOMAIN Suns /\ DOMAIN app.seqs = DOMAIN Suns[Top].cells
      /\ <<>> \in DOMAIN E
  BY <1>1, SunsAssumption DEF Nests
<1>3. DOMAIN OwnCells(app) = DOMAIN app.seqs
      /\ \A i \in DOMAIN app.seqs : OwnCells(app)[i].seq = app.seqs[i]
  BY DEF OwnCells
<1>4. g.cells = OwnCells(app) /\ g.edges = Suns[Top].edges
  BY <1>2 DEF Alone
<1> HIDE DEF app, g
<1>5. /\ \A i \in DOMAIN app.seqs : i \in DOMAIN m.cells /\ m.cells[i] = OwnCells(app)[i]
      /\ Suns[Top].edges \subseteq m.edges
      /\ Valid(g.cells, g.edges) => Valid(m.cells, m.edges)
  BY <1>1, <1>2 DEF Merged, g
<1>6. \A i \in DOMAIN Suns[Top].cells : i \in DOMAIN m.cells /\ m.cells[i].seq = app.seqs[i]
  BY <1>2, <1>3, <1>5
<1>7. ASSUME Valid(m.cells, m.edges) PROVE Valid(g.cells, g.edges)
  <2>1. \A i \in DOMAIN g.cells : i \in DOMAIN m.cells /\ m.cells[i] = g.cells[i]
    BY <1>3, <1>4, <1>5
  <2>2. \A e \in g.edges : e \in m.edges /\ e[1] \in DOMAIN g.cells /\ e[2] \in DOMAIN g.cells
    BY <1>2, <1>3, <1>4, <1>5, SunsAssumption
  <2>3. ASSUME NEW a \in DOMAIN g.cells, NEW b \in DOMAIN g.cells, a # b
        PROVE  g.cells[a].ports \cap g.cells[b].ports = {}
    BY <1>7, <2>1, <2>3 DEF Valid
  <2>4. ASSUME NEW e \in g.edges PROVE e[1] # e[2] /\ e[3] \in g.cells[e[2]].ports
    BY <1>7, <2>1, <2>2 DEF Valid
  <2>5. QED
    BY <2>2, <2>3, <2>4 DEF Valid
<1>8. ASSUME NEW id \in DOMAIN m.paths
      PROVE  /\ m.paths[id] \in Seq(Nat) /\ m.paths[id] # <<>>
             /\ Leads(Top, m.paths[id], <<m.cells[id].sun, m.cells[id].local>>)
             /\ \A n \in 1 .. Len(m.paths[id]) - 1 : SubSeq(m.paths[id], 1, n) \in shown
  <2> DEFINE q == m.paths[id]
  <2>1. Home(E, <<>>, Parents(E, <<>>), q, m.cells[id])
    BY <1>1 DEF Merged
  <2>2. q \in Seq(Nat) /\ q # <<>> /\ Leads(Top, q, <<m.cells[id].sun, m.cells[id].local>>)
    BY <1>1, <1>2, <2>1 DEF Home
  <2> HIDE DEF q
  <2>3. ASSUME NEW n \in 1 .. Len(q) - 1 PROVE SubSeq(q, 1, n) \in shown
    <3> DEFINE r == SubSeq(q, 1, n)
    <3>1. <<>> \o r \in DOMAIN E
      BY <2>1 DEF Home
    <3>2. n \in 0 .. Len(q) /\ n \in Nat \ {0}
      BY <2>2
    <3>3. r \in Seq(Nat) /\ Len(r) = n
      BY <2>2, <3>2, PrefixOf
    <3> HIDE DEF r
    <3>4. r \in DOMAIN E
      BY <3>1, <3>3, ConcatEmptySeq
    <3>5. SubSeq(r, 1, Len(r)) \in shown
      <4>1. Len(r) \in 1 .. Len(r)
        BY <3>2, <3>3
      <4>2. QED
        BY <1>1, <3>4, <4>1 DEF is_path_expanded
    <3>6. SubSeq(r, 1, Len(r)) = r
      BY <3>3, SubSeqFull
    <3>7. QED
      BY <3>5, <3>6 DEF r
  <2>4. QED
    BY <2>2, <2>3 DEF q
<1>9. ASSUME NEW id \in DOMAIN m.paths, NEW other \in DOMAIN m.paths, m.paths[other] = m.paths[id]
      PROVE  other = id
  BY <1>1, <1>9 DEF Merged
<1>10. QED
  BY <1>5, <1>6, <1>7, <1>8, <1>9 DEF m, app, g

LEMMA ShowKeeps ==
  ASSUME ViewInv, NEW snap, Nests(snap), Seen(snap), NEW shown,
         Show(from_appearance(snap, shown)), phase' = phase
  PROVE  model' = from_appearance(snap, shown) /\ VisualsOk'
<1> DEFINE m == from_appearance(snap, shown)
<1>1. \A i \in DOMAIN Suns[Top].cells : i \in DOMAIN m.cells /\ m.cells[i].seq = snap[<<>>].seqs[i]
  BY Shown
<1> HIDE DEF m
<1>2. /\ model' = m
      /\ visuals' = [id \in DOMAIN m.cells |-> observe(VisualOf(id), m.cells[id].seq, Free(id))]
  BY DEF Show, m
<1>3. DOMAIN snap[<<>>].seqs = DOMAIN Suns[Top].cells
  BY DEF Nests
<1>4. ASSUME NEW id \in DOMAIN visuals' \cap DOMAIN Suns[Top].cells
      PROVE  VisualOk(visuals'[id]) /\ visuals'[id].observed <= phase[<<Top, id>>]
  <2> DEFINE v == VisualOf(id)
             seq == m.cells[id].seq
             r == observe(v, seq, Free(id))
  <2>1. visuals'[id] = r
    BY <1>2
  <2>2. seq \in Nat /\ seq <= phase[<<Top, id>>]
    BY <1>1, <1>3 DEF Seen
  <2>3. phase[<<Top, id>>] \in Nat
    BY TopCells DEF ViewInv
  <2>4. VisualOk(v) /\ v.observed <= phase[<<Top, id>>] /\ v.observed \in Nat
    <3>1. CASE id \in DOMAIN visuals
      <4>1. v = visuals[id]
        BY <3>1 DEF VisualOf
      <4>2. QED
        BY <3>1, <4>1 DEF ViewInv, VisualsOk, VisualOk
    <3>2. CASE id \notin DOMAIN visuals
      <4>1. v = Fresh
        BY <3>2 DEF VisualOf
      <4>2. Fresh.current = "idle" /\ Fresh.pending = <<>> /\ Fresh.observed = 0
            /\ Fresh = [current |-> Fresh.current, pending |-> Fresh.pending,
                        observed |-> Fresh.observed]
        BY DEF Fresh
      <4>3. Latest(Fresh) = StateAt(Fresh.observed)
        BY <4>2 DEF Latest, StateAt
      <4>4. VisualOk(Fresh)
        BY <4>2, <4>3, EmptySeq DEF VisualOk, States
      <4>5. QED
        BY <2>3, <4>1, <4>2, <4>4
    <3>3. QED
      BY <3>1, <3>2
  <2> HIDE DEF v, seq
  <2>5. VisualOk(r) /\ r.observed = IF seq < v.observed THEN v.observed ELSE seq
    BY <2>2, <2>4, ObserveKeepsLatest
  <2> HIDE DEF r
  <2>6. QED
    BY <2>1, <2>2, <2>4, <2>5
<1>5. VisualsOk'
  BY <1>4 DEF VisualsOk
<1>6. QED
  BY <1>2, <1>5 DEF m

LEMMA NothingIsEmpty ==
  NothingFetched.stage = "top" /\ NothingFetched.todo = <<>> /\ DOMAIN NothingFetched.got = {}
  /\ NothingFetched = [stage |-> NothingFetched.stage, todo |-> NothingFetched.todo,
                       got |-> NothingFetched.got]
  /\ DOMAIN EmptyModel.cells = {} /\ DOMAIN EmptyModel.paths = {}
BY DEF NothingFetched, EmptyModel

\* The graph is made again, from the last snapshot.
LEMMA ExpandKeeps ==
  ASSUME ViewInv, NEW shown, expand(shown), shown \subseteq Seq(Nat),
         \A path \in shown : is_path_expanded(path, shown),
         phase' = phase, snapshot' = snapshot
  PROVE  ExpandedOk' /\ ModelOk' /\ VisualsOk'
<1>1. expanded' = shown
  BY DEF expand
<1>2. ExpandedOk'
  <2>1. \A path \in expanded' : is_path_expanded(path, expanded')
    BY <1>1
  <2>2. QED
    BY <1>1, <2>1 DEF ExpandedOk, is_path_expanded
<1>3. CASE snapshot = NothingFetched.got
  <2>1. model' = model /\ visuals' = visuals
    BY <1>3 DEF expand, shownVars
  <2>2. ModelOk'
    BY <1>3, <2>1 DEF ViewInv, ModelOk, NothingFetched, EmptyModel
  <2>3. VisualsOk'
    BY <2>1 DEF ViewInv, VisualsOk
  <2>4. QED
    BY <1>2, <2>2, <2>3
<1>4. CASE snapshot # NothingFetched.got
  <2> DEFINE next == from_appearance(snapshot, shown)
  <2>1. Nests(snapshot) /\ Seen(snapshot)
        /\ Valid(Alone(snapshot[<<>>]).cells, Alone(snapshot[<<>>]).edges)
    BY <1>4 DEF ViewInv, SnapshotOk
  <2>2. Valid(next.cells, next.edges)
    BY <2>1, Shown
  <2>3. Show(next)
    BY <1>4, <2>2 DEF expand
  <2>4. model' = next /\ VisualsOk'
    BY <2>1, <2>3, ShowKeeps
  <2>5. ModelOk'
    BY <1>1, <1>4, <2>4 DEF ModelOk, NothingFetched
  <2>6. QED
    BY <1>2, <2>4, <2>5
<1>5. QED
  BY <1>3, <1>4

\* Nothing that is seen changes when the phases move on.
LEMMA PhasesGrow ==
  ASSUME ViewInv, phase' \in [CellNames -> Nat], \A c \in CellNames : phase[c] <= phase'[c],
         fetch' = fetch, snapshot' = snapshot, expanded' = expanded, model' = model,
         visuals' = visuals
  PROVE  ViewInv'
<1>1. ASSUME NEW E, Nests(E), Seen(E) PROVE Seen(E)'
  <2>1. DOMAIN E[<<>>].seqs = DOMAIN Suns[Top].cells
    BY <1>1 DEF Nests
  <2>2. ASSUME NEW i \in DOMAIN E[<<>>].seqs
        PROVE  E[<<>>].seqs[i] \in Nat /\ E[<<>>].seqs[i] <= phase'[<<Top, i>>]
    <3>1. <<Top, i>> \in CellNames
      BY <2>1, TopCells
    <3>2. /\ phase[<<Top, i>>] \in Nat /\ phase'[<<Top, i>>] \in Nat
          /\ phase[<<Top, i>>] <= phase'[<<Top, i>>]
      BY <3>1 DEF ViewInv
    <3>3. E[<<>>].seqs[i] \in Nat /\ E[<<>>].seqs[i] <= phase[<<Top, i>>]
      BY <1>1 DEF Seen
    <3>4. QED
      BY <3>2, <3>3
  <2>3. QED
    BY <2>2 DEF Seen
<1>2. FetchOk'
  <2>1. PICK f : f = fetch
    OBVIOUS
  <2>2. fetch' = f
    BY <2>1
  <2>3. f = [stage |-> f.stage, todo |-> f.todo, got |-> f.got]
        /\ (f.stage = "warps" => Nests(f.got) /\ Seen(f.got) /\ f.todo \in Seq(Scans(f.got)))
    BY <2>1 DEF ViewInv, FetchOk
  <2>4. f.stage = "warps" => Seen(f.got)'
    BY <1>1, <2>3
  <2>5. QED
    BY <2>2, <2>3, <2>4 DEF FetchOk, Seen
<1>3. SnapshotOk'
  <2>1. PICK s : s = snapshot
    OBVIOUS
  <2>2. snapshot' = s
    BY <2>1
  <2>3. s # NothingFetched.got =>
          /\ Nests(s) /\ Seen(s)
          /\ Valid(Alone(s[<<>>]).cells, Alone(s[<<>>]).edges)
    BY <2>1 DEF ViewInv, SnapshotOk
  <2>4. s # NothingFetched.got => Seen(s)'
    BY <1>1, <2>3
  <2>5. QED
    BY <2>2, <2>3, <2>4 DEF SnapshotOk, Seen, NothingFetched
<1>4. ExpandedOk' /\ ModelOk'
  BY DEF ViewInv, ExpandedOk, ModelOk
<1>5. VisualsOk'
  <2>1. ASSUME NEW id \in DOMAIN visuals \cap DOMAIN Suns[Top].cells
        PROVE  VisualOk(visuals[id]) /\ visuals[id].observed <= phase'[<<Top, id>>]
    <3>1. <<Top, id>> \in CellNames
      BY TopCells
    <3>2. /\ phase[<<Top, id>>] \in Nat /\ phase'[<<Top, id>>] \in Nat
          /\ phase[<<Top, id>>] <= phase'[<<Top, id>>]
      BY <3>1 DEF ViewInv
    <3>3. VisualOk(visuals[id]) /\ visuals[id].observed <= phase[<<Top, id>>]
          /\ visuals[id].observed \in Nat
      BY DEF ViewInv, VisualsOk, VisualOk
    <3>4. QED
      BY <3>2, <3>3
  <2>2. QED
    BY <2>1 DEF VisualsOk
<1>6. QED
  BY <1>2, <1>3, <1>4, <1>5 DEF ViewInv

LEMMA CellMovesKeeps ==
  ASSUME ViewInv, CellMoves PROVE ViewInv'
<1>1. PICK m \in Movers : phase' = [phase EXCEPT ![m] = @ + 1]
  BY DEF CellMoves
<1>2. phase \in [CellNames -> Nat]
  BY DEF ViewInv
<1>3. phase' \in [CellNames -> Nat] /\ \A c \in CellNames : phase[c] <= phase'[c]
  <2>1. phase' = [c \in CellNames |-> IF c = m THEN phase[c] + 1 ELSE phase[c]]
    BY <1>1, <1>2
  <2>2. ASSUME NEW c \in CellNames PROVE phase'[c] \in Nat /\ phase[c] <= phase'[c]
    <3>1. phase[c] \in Nat /\ (phase'[c] = phase[c] \/ phase'[c] = phase[c] + 1)
      BY <1>2, <2>1
    <3>2. QED
      BY <3>1
  <2>3. QED
    BY <2>1, <2>2
<1>4. fetch' = fetch /\ snapshot' = snapshot /\ expanded' = expanded /\ model' = model
      /\ visuals' = visuals
  BY DEF CellMoves, fetchVars, shownVars
<1>5. QED
  BY <1>3, <1>4, PhasesGrow

LEMMA ViewStutters ==
  ASSUME ViewInv, phase' = phase, fetch' = fetch, snapshot' = snapshot, expanded' = expanded,
         model' = model, visuals' = visuals
  PROVE  ViewInv'
<1>1. phase \in [CellNames -> Nat]
  BY DEF ViewInv
<1>2. ASSUME NEW c \in CellNames PROVE phase[c] <= phase'[c]
  <2>1. phase[c] \in Nat /\ phase'[c] = phase[c]
    BY <1>1
  <2>2. QED
    BY <2>1
<1>3. phase' \in [CellNames -> Nat]
  BY <1>1
<1>4. QED
  BY <1>2, <1>3, PhasesGrow

LEMMA ViewInitHolds ==
  ASSUME ViewInit PROVE ViewInv
<1>1. phase \in [CellNames -> Nat]
  <2>1. phase \in [CellNames -> {0, 1}]
    BY DEF ViewInit, CellNames
  <2> HIDE DEF CellNames
  <2>2. QED
    BY <2>1
<1>2. FetchOk
  BY NothingIsEmpty DEF ViewInit, FetchOk
<1>3. SnapshotOk /\ ModelOk
  BY DEF ViewInit, SnapshotOk, ModelOk
<1>4. ExpandedOk
  BY DEF ViewInit, ExpandedOk
<1>5. VisualsOk
  BY DEF ViewInit, VisualsOk
<1>6. QED
  BY <1>1, <1>2, <1>3, <1>4, <1>5 DEF ViewInv
-----------------------------------------------------------------------------
(* Polling.                                                                *)

LEMMA PushIsScan ==
  ASSUME NEW got, NEW paths \in Seq(WarpPaths(got)), NEW stack \in Seq(Scans(got))
  PROVE  Push(paths, stack) \in Seq(Scans(got))
<1>1. CASE paths = <<>>
  BY <1>1 DEF Push
<1>2. CASE paths # <<>>
  <2>1. paths \in Scans(got)
    BY <1>2 DEF Scans
  <2> DEFINE S == Scans(got)
  <2> HIDE DEF S
  <2>2. paths \in S /\ stack \in Seq(S)
    BY <2>1 DEF S
  <2>3. <<paths>> \in Seq(S)
    BY <2>2
  <2>4. <<paths>> \o stack \in Seq(S)
    BY <2>2, <2>3, ConcatProperties
  <2>5. QED
    BY <1>2, <2>4 DEF Push, S
<1>3. QED
  BY <1>1, <1>2

LEMMA WarpsAreWarpPaths ==
  ASSUME NEW got, Nests(got), NEW p \in DOMAIN got
  PROVE  WarpsOf(got[p].sun, p) \in Seq(WarpPaths(got))
<1> DEFINE j == got[p].sun
           S == {i \in DOMAIN Suns[j].cells : Suns[j].cells[i].warp # NoSun}
           ids == SortedIds(S)
<1>1. p \in Seq(Nat) /\ j \in DOMAIN Suns
  BY DEF Nests
<1>2. S \subseteq Nat /\ IsFiniteSet(S)
  <2>1. IsFiniteSet(DOMAIN Suns[j].cells) /\ DOMAIN Suns[j].cells \subseteq Nat
    BY <1>1, SunsAssumption
  <2>2. S \in SUBSET DOMAIN Suns[j].cells
    OBVIOUS
  <2> HIDE DEF S
  <2>3. QED
    BY <2>1, <2>2, FS_Subset
<1>3. \A i \in S : i \in DOMAIN Suns[j].cells /\ Suns[j].cells[i].warp \in DOMAIN Suns
  BY <1>1, SunsAssumption
<1>4. WarpsOf(j, p)
      = IF Len(p) < MaxWarpDepth THEN [k \in DOMAIN ids |-> Append(p, ids[k])] ELSE <<>>
  BY Zenon DEF WarpsOf
<1> HIDE DEF S
<1>5. ids \in Seq(S)
  BY <1>2, SortedIdsLists
<1> HIDE DEF ids
<1>6. CASE ~(Len(p) < MaxWarpDepth)
  <2>1. WarpsOf(j, p) = <<>>
    BY <1>4, <1>6
  <2>2. QED
    BY <2>1, EmptySeq
<1>7. CASE Len(p) < MaxWarpDepth
  <2> DEFINE W == WarpPaths(got)
             q == [k \in DOMAIN ids |-> Append(p, ids[k])]
  <2>1. ASSUME NEW i \in S PROVE Append(p, i) \in W
    <3> DEFINE r == Append(p, i)
    <3>1. i \in Nat
      BY <1>2
    <3>2. r \in Seq(Nat) /\ r # <<>> /\ Len(r) = Len(p) + 1 /\ Front(r) = p /\ Last(r) = i
      BY <1>1, <3>1, PathEnds
    <3> HIDE DEF r
    <3>3. Len(r) <= MaxWarpDepth
      <4>1. Len(p) \in Nat /\ MaxWarpDepth \in Nat
        BY <1>1, ViewAssumption
      <4>2. QED
        BY <1>7, <3>2, <4>1
    <3>4. SunAt(got, r) \in DOMAIN Suns
      BY <1>3, <3>2 DEF SunAt
    <3>5. r \in W
      BY <1>3, <3>2, <3>3, <3>4 DEF WarpPaths
    <3>6. QED
      BY <3>5 DEF r
  <2> HIDE DEF W
  <2>2. \A k \in DOMAIN ids : Append(p, ids[k]) \in W
    BY <1>5, <2>1
  <2>3. DOMAIN ids = 1 .. Len(ids) /\ Len(ids) \in Nat
    BY <1>5, LenProperties
  <2>4. q \in [1 .. Len(ids) -> W]
    BY <2>2, <2>3
  <2> HIDE DEF q
  <2>5. q \in Seq(W)
    BY <2>3, <2>4
  <2>6. QED
    BY <1>4, <1>7, <2>5 DEF q, W
<1>8. QED
  BY <1>6, <1>7

LEMMA AppearanceOf ==
  ASSUME NEW j
  PROVE  /\ Appearance(j).sun = j /\ DOMAIN Appearance(j).seqs = DOMAIN Suns[j].cells
         /\ \A i \in DOMAIN Suns[j].cells : Appearance(j).seqs[i] = phase[<<j, i>>]
BY DEF Appearance

\* Taking in one more Sun behind a warp cell.
LEMMA GotGrows ==
  ASSUME NEW got, Nests(got), Seen(got), NEW path \in WarpPaths(got), NEW new,
         new.sun = SunAt(got, path), DOMAIN new.seqs = DOMAIN Suns[new.sun].cells
  PROVE  LET G == Over([p \in {path} |-> new], got)
         IN  /\ Nests(G) /\ Seen(G) /\ path \in DOMAIN G /\ G[path].sun = new.sun
             /\ WarpPaths(got) \subseteq WarpPaths(G)
<1> DEFINE G == Over([p \in {path} |-> new], got)
<1>1. /\ DOMAIN G = {path} \cup DOMAIN got
      /\ G[path] = new
      /\ \A q \in DOMAIN got : q # path => G[q] = got[q]
  BY DEF Over
<1> HIDE DEF G
<1>2. /\ path \in Seq(Nat) /\ path # <<>> /\ Len(path) <= MaxWarpDepth
      /\ Front(path) \in DOMAIN got /\ Last(path) \in DOMAIN Suns[got[Front(path)].sun].cells
      /\ SunAt(got, path) \in DOMAIN Suns
      /\ SunAt(got, path) = Suns[got[Front(path)].sun].cells[Last(path)].warp
  BY DEF WarpPaths, SunAt
<1>3. \A q \in DOMAIN got : G[q].sun = got[q].sun
  <2>1. TAKE q \in DOMAIN got
  <2>2. CASE q # path
    BY <1>1, <2>2
  <2>3. CASE q = path
    <3>1. got[path].sun = Suns[got[Front(path)].sun].cells[Last(path)].warp
      BY <1>2, <2>3 DEF Nests
    <3>2. QED
      BY <1>1, <1>2, <2>3, <3>1
  <2>4. QED
    BY <2>2, <2>3
<1>4. <<>> \in DOMAIN got /\ got[<<>>].sun = Top
  BY DEF Nests
<1>5. ASSUME NEW q \in DOMAIN G
      PROVE  /\ q \in Seq(Nat) /\ Len(q) <= MaxWarpDepth
             /\ G[q].sun \in DOMAIN Suns /\ DOMAIN G[q].seqs = DOMAIN Suns[G[q].sun].cells
             /\ q # <<>> => /\ Front(q) \in DOMAIN G
                            /\ Last(q) \in DOMAIN Suns[G[Front(q)].sun].cells
                            /\ G[q].sun = Suns[G[Front(q)].sun].cells[Last(q)].warp
  <2>1. CASE q = path
    BY <1>1, <1>2, <1>3, <2>1
  <2>2. CASE q # path
    <3>1. q \in DOMAIN got /\ G[q] = got[q]
      BY <1>1, <2>2
    <3>2. /\ q \in Seq(Nat) /\ Len(q) <= MaxWarpDepth
          /\ G[q].sun \in DOMAIN Suns /\ DOMAIN G[q].seqs = DOMAIN Suns[G[q].sun].cells
      BY <3>1 DEF Nests
    <3>3. ASSUME q # <<>>
          PROVE  /\ Front(q) \in DOMAIN G
                 /\ Last(q) \in DOMAIN Suns[G[Front(q)].sun].cells
                 /\ G[q].sun = Suns[G[Front(q)].sun].cells[Last(q)].warp
      <4>1. /\ Front(q) \in DOMAIN got
            /\ Last(q) \in DOMAIN Suns[got[Front(q)].sun].cells
            /\ got[q].sun = Suns[got[Front(q)].sun].cells[Last(q)].warp
        BY <3>1, <3>3 DEF Nests
      <4>2. QED
        BY <1>1, <1>3, <3>1, <4>1
    <3>4. QED
      BY <3>2, <3>3
  <2>3. QED
    BY <2>1, <2>2
<1>6. G[<<>>] = got[<<>>]
  BY <1>1, <1>2, <1>4
<1>7. Nests(G)
  BY <1>1, <1>4, <1>5, <1>6 DEF Nests
<1>8. Seen(G)
  BY <1>6 DEF Seen
<1>9. ASSUME NEW q \in WarpPaths(got) PROVE q \in WarpPaths(G)
  <2>1. /\ q \in Seq(Nat) /\ q # <<>> /\ Len(q) <= MaxWarpDepth
        /\ Front(q) \in DOMAIN got /\ Last(q) \in DOMAIN Suns[got[Front(q)].sun].cells
        /\ SunAt(got, q) \in DOMAIN Suns
    BY DEF WarpPaths
  <2>2. SunAt(G, q) = SunAt(got, q) /\ G[Front(q)].sun = got[Front(q)].sun
        /\ Front(q) \in DOMAIN G
    BY <1>1, <1>3, <2>1 DEF SunAt
  <2>3. QED
    BY <2>1, <2>2 DEF WarpPaths
<1>10. QED
  BY <1>1, <1>7, <1>8, <1>9 DEF G

\* What is left alone keeps its part of the invariant.
LEMMA OnlyFetchChanges ==
  ASSUME ViewInv, NEW f, fetch' = f,
         f = [stage |-> f.stage, todo |-> f.todo, got |-> f.got],
         f.stage = "warps" => Nests(f.got) /\ Seen(f.got) /\ f.todo \in Seq(Scans(f.got)),
         phase' = phase, snapshot' = snapshot, expanded' = expanded, model' = model,
         visuals' = visuals
  PROVE  ViewInv'
<1>1. FetchOk'
  BY DEF FetchOk, Seen
<1>2. phase' \in [CellNames -> Nat] /\ SnapshotOk' /\ ExpandedOk' /\ ModelOk' /\ VisualsOk'
  BY DEF ViewInv, SnapshotOk, Seen, ExpandedOk, ModelOk, VisualsOk
<1>3. QED
  BY <1>1, <1>2 DEF ViewInv

LEMMA FetchTopKeeps ==
  ASSUME ViewInv, fetch_appearance PROVE ViewInv'
<1> DEFINE new == Appearance(Top)
           got == [p \in {<<>>} |-> new]
           todo == Push(WarpsOf(Top, <<>>), <<>>)
<1>1. PICK f : f = [stage |-> "warps", got |-> got, todo |-> todo]
  OBVIOUS
<1>2. fetch' = f /\ phase' = phase /\ snapshot' = snapshot /\ expanded' = expanded
      /\ model' = model /\ visuals' = visuals
  BY <1>1 DEF fetch_appearance, worldVars, shownVars
<1>3. new.sun = Top /\ DOMAIN new.seqs = DOMAIN Suns[Top].cells
      /\ \A i \in DOMAIN Suns[Top].cells : new.seqs[i] = phase[<<Top, i>>]
  BY AppearanceOf
<1> HIDE DEF new
<1>4. DOMAIN got = {<<>>} /\ got[<<>>] = new
  OBVIOUS
<1> HIDE DEF got
<1>5. Nests(got)
  <2>1. Len(<<>>) = 0 /\ <<>> \in Seq(Nat) /\ 0 <= MaxWarpDepth
    BY ViewAssumption
  <2>2. QED
    BY <1>3, <1>4, <2>1, SunsAssumption DEF Nests
<1>6. Seen(got)
  <2>1. ASSUME NEW i \in DOMAIN Suns[Top].cells
        PROVE  new.seqs[i] \in Nat /\ new.seqs[i] <= phase[<<Top, i>>]
    <3>1. phase[<<Top, i>>] \in Nat
      BY TopCells DEF ViewInv
    <3>2. QED
      BY <1>3, <3>1
  <2>2. QED
    BY <1>3, <1>4, <2>1 DEF Seen
<1>7. todo \in Seq(Scans(got))
  <2>1. WarpsOf(Top, <<>>) \in Seq(WarpPaths(got))
    BY <1>3, <1>4, <1>5, WarpsAreWarpPaths
  <2>2. <<>> \in Seq(Scans(got))
    BY EmptySeq
  <2>3. QED
    BY <2>1, <2>2, PushIsScan
<1> HIDE DEF todo
<1>8. f.stage = "warps" /\ f.got = got /\ f.todo = todo
      /\ f = [stage |-> f.stage, todo |-> f.todo, got |-> f.got]
  BY <1>1
<1>9. QED
  BY <1>2, <1>5, <1>6, <1>7, <1>8, OnlyFetchChanges

LEMMA FetchWarpKeeps ==
  ASSUME ViewInv, fetch_warp_appearances PROVE ViewInv'
<1> DEFINE got == fetch.got
           todo == fetch.todo
           path == Head(Head(todo))
           left == Tail(Head(todo))
           stack == Tail(todo)
           j == SunAt(got, path)
           new == Appearance(j)
           G == Over([p \in {path} |-> new], got)
           rest == Push(left, stack)
           more == Push(left, Push(WarpsOf(j, path), stack))
<1>1. PICK f : f = [stage |-> fetch.stage, todo |-> fetch.todo, got |-> fetch.got]
  OBVIOUS
<1>2. fetch = f /\ fetch.stage = "warps" /\ todo # <<>>
      /\ Nests(got) /\ Seen(got) /\ todo \in Seq(Scans(got))
  BY <1>1 DEF fetch_warp_appearances, ViewInv, FetchOk
<1>3. phase' = phase /\ snapshot' = snapshot /\ expanded' = expanded
      /\ model' = model /\ visuals' = visuals
  BY DEF fetch_warp_appearances, worldVars, shownVars
<1>4. \/ fetch' = [f EXCEPT !.todo = rest]
      \/ fetch' = [f EXCEPT !.todo = more, !.got = Over([p \in {path} |-> new], @)]
  <2>1. \/ fetch' = [fetch EXCEPT !.todo = rest]
        \/ fetch' = [fetch EXCEPT !.todo = more, !.got = Over([p \in {path} |-> new], @)]
    BY Zenon DEF fetch_warp_appearances
  <2> HIDE DEF rest, more, path, new
  <2>2. QED
    BY <1>2, <2>1
<1>5. f.got = got /\ f.stage = "warps" /\ f.todo = todo
  BY <1>1, <1>2
<1> HIDE DEF got, todo
<1>6. /\ Head(todo) \in Scans(got) /\ stack \in Seq(Scans(got))
  BY <1>2, HeadTailProperties
<1>7. path \in WarpPaths(got) /\ left \in Seq(WarpPaths(got))
  <2>1. Head(todo) \in Seq(WarpPaths(got)) /\ Head(todo) # <<>>
    BY <1>6 DEF Scans
  <2>2. QED
    BY <2>1, HeadTailProperties
<1>8. new.sun = SunAt(got, path) /\ DOMAIN new.seqs = DOMAIN Suns[new.sun].cells
  BY AppearanceOf
<1> HIDE DEF path, left, stack, new
<1>9. Nests(G) /\ Seen(G) /\ path \in DOMAIN G /\ G[path].sun = j
      /\ WarpPaths(got) \subseteq WarpPaths(G)
  <2>1. /\ Nests(G) /\ Seen(G) /\ path \in DOMAIN G /\ G[path].sun = new.sun
        /\ WarpPaths(got) \subseteq WarpPaths(G)
    BY <1>2, <1>7, <1>8, GotGrows
  <2>2. QED
    BY <1>8, <2>1
<1>10. rest \in Seq(Scans(got))
  BY <1>6, <1>7, PushIsScan
<1>11. more \in Seq(Scans(G))
  <2>1. left \in Seq(WarpPaths(G))
    BY <1>7, <1>9, SeqMonotonic
  <2>2. stack \in Seq(Scans(G))
    <3>1. Scans(got) \subseteq Scans(G)
      <4>1. ASSUME NEW s \in Scans(got) PROVE s \in Scans(G)
        BY <1>9, SeqMonotonic DEF Scans
      <4>2. QED
        BY <4>1
    <3>2. QED
      BY <1>6, <3>1, SeqMonotonic
  <2>3. WarpsOf(j, path) \in Seq(WarpPaths(G))
    BY <1>9, WarpsAreWarpPaths
  <2> HIDE DEF G, j
  <2>4. QED
    BY <2>1, <2>2, <2>3, PushIsScan
<1>12. CASE fetch' = [f EXCEPT !.todo = rest]
  <2> HIDE DEF rest
  <2>1. PICK h : h = [f EXCEPT !.todo = rest]
    OBVIOUS
  <2>2. h = [stage |-> fetch.stage, todo |-> rest, got |-> fetch.got]
    BY <1>1, <2>1
  <2>3. h.stage = fetch.stage /\ h.todo = rest /\ h.got = got
        /\ h = [stage |-> h.stage, todo |-> h.todo, got |-> h.got]
    BY <2>2 DEF got
  <2>4. fetch' = h
    BY <1>12, <2>1
  <2>5. QED
    BY <1>2, <1>3, <1>10, <2>3, <2>4, OnlyFetchChanges
<1>13. CASE fetch' = [f EXCEPT !.todo = more, !.got = Over([p \in {path} |-> new], @)]
  <2> HIDE DEF more
  <2>1. PICK h : h = [f EXCEPT !.todo = more]
    OBVIOUS
  <2>2. h = [stage |-> fetch.stage, todo |-> more, got |-> fetch.got]
    BY <1>1, <2>1
  <2>3. fetch' = [h EXCEPT !.got = Over([p \in {path} |-> new], @)]
    BY <1>13, <2>1
  <2>4. h.got = got
    BY <2>2 DEF got
  <2>5. fetch' = [h EXCEPT !.got = G]
    BY <2>3, <2>4
  <2> HIDE DEF G
  <2>6. PICK k : k = [h EXCEPT !.got = G]
    OBVIOUS
  <2>7. k = [stage |-> fetch.stage, todo |-> more, got |-> G]
    BY <2>2, <2>6
  <2>8. k.stage = fetch.stage /\ k.todo = more /\ k.got = G
        /\ k = [stage |-> k.stage, todo |-> k.todo, got |-> k.got]
    BY <2>7
  <2>9. fetch' = k
    BY <2>5, <2>6
  <2>10. QED
    BY <1>2, <1>3, <1>9, <1>11, <2>8, <2>9, OnlyFetchChanges
<1>14. QED
  BY <1>4, <1>12, <1>13

LEMMA NothingFetchedKeeps ==
  ASSUME ViewInv, fetch' = NothingFetched, phase' = phase, snapshot' = snapshot,
         expanded' = expanded, model' = model, visuals' = visuals
  PROVE  ViewInv'
<1> DEFINE f == NothingFetched
<1> HIDE DEF f
<1>1. f = [stage |-> f.stage, todo |-> f.todo, got |-> f.got] /\ f.stage = "top"
  BY NothingIsEmpty DEF f
<1>2. fetch' = f
  BY DEF f
<1>3. QED
  BY <1>1, <1>2, OnlyFetchChanges

LEMMA LoadedKeeps ==
  ASSUME ViewInv, AppearanceLoaded PROVE ViewInv'
<1> DEFINE snap == fetch.got
           next == from_appearance(snap, expanded)
<1>1. /\ fetch.stage = "warps" /\ fetch' = NothingFetched /\ phase' = phase
      /\ expanded' = expanded
  BY DEF AppearanceLoaded, worldVars
<1>2. IF Valid(next.cells, next.edges) THEN snapshot' = snap /\ Show(next)
      ELSE UNCHANGED <<snapshot, shownVars>>
  BY Zenon DEF AppearanceLoaded
<1>3. Nests(snap) /\ Seen(snap)
  BY <1>1 DEF ViewInv, FetchOk
<1>4. CASE ~Valid(next.cells, next.edges)
  <2> HIDE DEF next
  <2>1. snapshot' = snapshot /\ model' = model /\ visuals' = visuals
    BY <1>2, <1>4 DEF shownVars
  <2>2. QED
    BY <1>1, <2>1, NothingFetchedKeeps
<1>5. CASE Valid(next.cells, next.edges)
  <2>1. PICK s : s = snap
    OBVIOUS
  <2>2. snapshot' = s /\ Show(from_appearance(s, expanded))
    BY <1>2, <1>5, <2>1
  <2>3. Nests(s) /\ Seen(s)
    BY <1>3, <2>1
  <2>4. model' = from_appearance(s, expanded) /\ VisualsOk'
    BY <1>1, <2>2, <2>3, ShowKeeps
  <2>5. Valid(Alone(s[<<>>]).cells, Alone(s[<<>>]).edges)
    <3>1. Valid(from_appearance(s, expanded).cells, from_appearance(s, expanded).edges)
      BY <1>5, <2>1
    <3>2. QED
      BY <2>3, <3>1, Shown
  <2>6. s # NothingFetched.got
    BY <2>3, NothingIsEmpty DEF Nests
  <2>7. SnapshotOk'
    <3>1. Seen(s)'
      BY <1>1, <2>3 DEF Seen
    <3>2. QED
      BY <2>2, <2>3, <2>5, <3>1 DEF SnapshotOk, Seen
  <2>8. ModelOk'
    BY <1>1, <2>2, <2>4, <2>6 DEF ModelOk, NothingFetched
  <2>9. FetchOk'
    BY <1>1, NothingIsEmpty DEF FetchOk, NothingFetched
  <2>10. ExpandedOk' /\ phase' \in [CellNames -> Nat]
    BY <1>1 DEF ViewInv, ExpandedOk
  <2>11. QED
    BY <2>4, <2>7, <2>8, <2>9, <2>10 DEF ViewInv
<1>6. QED
  BY <1>4, <1>5
-----------------------------------------------------------------------------
(* Colours and the user.                                                   *)

LEMMA ColorTickKeeps ==
  ASSUME ViewInv, ColorTick PROVE ViewInv'
<1>1. /\ phase' = phase /\ fetch' = fetch /\ snapshot' = snapshot /\ expanded' = expanded
      /\ model' = model
      /\ visuals' = [id \in DOMAIN visuals |->
                       IF id \in settled THEN begin_next_transition(visuals[id]) ELSE visuals[id]]
  BY DEF ColorTick, worldVars, fetchVars
<1>2. ASSUME NEW id \in DOMAIN visuals' \cap DOMAIN Suns[Top].cells
      PROVE  VisualOk(visuals'[id]) /\ visuals'[id].observed <= phase[<<Top, id>>]
  <2>1. VisualOk(visuals[id]) /\ visuals[id].observed <= phase[<<Top, id>>]
    BY <1>1 DEF ViewInv, VisualsOk
  <2>2. VisualOk(begin_next_transition(visuals[id]))
        /\ begin_next_transition(visuals[id]).observed = visuals[id].observed
    BY <2>1, TransitionKeepsLatest
  <2>3. visuals'[id] = begin_next_transition(visuals[id]) \/ visuals'[id] = visuals[id]
    BY <1>1
  <2>4. QED
    BY <2>1, <2>2, <2>3
<1>3. VisualsOk'
  BY <1>1, <1>2 DEF VisualsOk
<1>4. phase' \in [CellNames -> Nat] /\ FetchOk' /\ SnapshotOk' /\ ExpandedOk' /\ ModelOk'
  BY <1>1 DEF ViewInv, FetchOk, SnapshotOk, Seen, ExpandedOk, ModelOk
<1>5. QED
  BY <1>3, <1>4 DEF ViewInv

LEMMA UserKeeps ==
  ASSUME ViewInv, phase' = phase, fetch' = fetch, snapshot' = snapshot, NEW shown,
         expand(shown), shown \subseteq Seq(Nat),
         \A path \in shown : is_path_expanded(path, shown)
  PROVE  ViewInv'
<1>1. ExpandedOk' /\ ModelOk' /\ VisualsOk'
  BY ExpandKeeps
<1>2. phase' \in [CellNames -> Nat] /\ FetchOk' /\ SnapshotOk'
  BY DEF ViewInv, FetchOk, SnapshotOk, Seen
<1>3. QED
  BY <1>1, <1>2 DEF ViewInv

\* The paths of the graph shown, and what they say of the cells expanded.
LEMMA ModelPaths ==
  ASSUME ViewInv, NEW id \in DOMAIN model.paths
  PROVE  /\ model.paths[id] \in Seq(Nat) /\ model.paths[id] # <<>>
         /\ Leads(Top, model.paths[id], CellJourney(id))
         /\ \A n \in 1 .. Len(model.paths[id]) - 1 : SubSeq(model.paths[id], 1, n) \in expanded
         /\ \A other \in DOMAIN model.paths : model.paths[other] = model.paths[id] => other = id
         /\ id \in DOMAIN model.cells
<1>1. snapshot # NothingFetched.got
  BY NothingIsEmpty DEF ViewInv, ModelOk
<1>2. Nests(snapshot) /\ model = from_appearance(snapshot, expanded)
  BY <1>1 DEF ViewInv, SnapshotOk, ModelOk
<1> DEFINE m == from_appearance(snapshot, expanded)
<1>3. /\ m.paths[id] \in Seq(Nat) /\ m.paths[id] # <<>>
      /\ Leads(Top, m.paths[id], <<m.cells[id].sun, m.cells[id].local>>)
      /\ \A n \in 1 .. Len(m.paths[id]) - 1 : SubSeq(m.paths[id], 1, n) \in expanded
      /\ \A other \in DOMAIN m.paths : m.paths[other] = m.paths[id] => other = id
  BY <1>2, Shown
<1>4. id \in DOMAIN m.cells
  <2>1. IsGraph(m)
    BY <1>2, GraphIsMerged DEF Merged
  <2>2. QED
    BY <1>2, <2>1 DEF IsGraph
<1> HIDE DEF m
<1>5. m = model
  BY <1>2 DEF m
<1>6. QED
  BY <1>3, <1>4, <1>5 DEF CellJourney

\* A click on a shown warp cell expands nothing below a collapsed one,
LEMMA ExpandingKeepsPrefixes ==
  ASSUME ExpandedOk, NEW q \in Seq(Nat), q # <<>>,
         \A n \in 1 .. Len(q) - 1 : SubSeq(q, 1, n) \in expanded
  PROVE  /\ expanded \cup {q} \subseteq Seq(Nat)
         /\ \A path \in expanded \cup {q} : is_path_expanded(path, expanded \cup {q})
<1>1. \A path \in expanded : is_path_expanded(path, expanded \cup {q})
  BY DEF ExpandedOk, is_path_expanded
<1>2. Len(q) \in Nat \ {0} /\ SubSeq(q, 1, Len(q)) = q
  BY EmptySeq, SubSeqFull
<1>3. ASSUME NEW n \in 1 .. Len(q) PROVE SubSeq(q, 1, n) \in expanded \cup {q}
  <2>1. CASE n = Len(q)
    BY <1>2, <2>1
  <2>2. CASE n # Len(q)
    <3>1. Len(q) \in Nat /\ n \in 1 .. Len(q) /\ n # Len(q)
      BY <1>2, <2>2
    <3>2. n \in 1 .. Len(q) - 1
      BY <3>1
    <3>3. QED
      BY <3>2
  <2>3. QED
    BY <2>1, <2>2
<1>4. is_path_expanded(q, expanded \cup {q})
  BY <1>3 DEF is_path_expanded
<1>5. QED
  BY <1>1, <1>4 DEF ExpandedOk

\* and collapsing one collapses everything below it.
LEMMA CollapsingKeepsPrefixes ==
  ASSUME ExpandedOk, NEW q \in Seq(Nat)
  PROVE  /\ collapse_warp_path(q) \subseteq Seq(Nat)
         /\ \A path \in collapse_warp_path(q) : is_path_expanded(path, collapse_warp_path(q))
<1> DEFINE S == collapse_warp_path(q)
<1>1. S = {p \in expanded : ~IsPrefix(q, p)}
  BY DEF collapse_warp_path
<1>2. S \subseteq Seq(Nat)
  BY <1>1 DEF ExpandedOk
<1> HIDE DEF S
<1>3. ASSUME NEW path \in S, NEW n \in 1 .. Len(path) PROVE SubSeq(path, 1, n) \in S
  <2> DEFINE p == SubSeq(path, 1, n)
  <2>1. path \in Seq(Nat) /\ path \in expanded /\ ~IsPrefix(q, path)
    BY <1>1, <1>2
  <2>2. Len(path) \in Nat /\ n \in 0 .. Len(path)
    BY <2>1
  <2>3. p \in expanded
    BY <2>1 DEF ExpandedOk, is_path_expanded
  <2>4. p \in Seq(Nat) /\ Len(p) = n
    BY <2>1, <2>2, PrefixOf
  <2>5. ASSUME IsPrefix(q, p) PROVE FALSE
    <3>1. Len(q) <= n /\ SubSeq(q, 1, Len(q)) = SubSeq(p, 1, Len(q)) /\ Len(q) \in Nat
      BY <2>4, <2>5 DEF IsPrefix
    <3>2. Len(q) \in 0 .. n /\ Len(q) <= Len(path)
      <4>1. n \in Nat /\ n <= Len(path)
        BY <2>2
      <4>2. QED
        BY <2>2, <3>1, <4>1
    <3>3. SubSeq(p, 1, Len(q)) = SubSeq(path, 1, Len(q))
      BY <2>1, <2>2, <3>2, PrefixTwice
    <3> HIDE DEF p
    <3>4. IsPrefix(q, path)
      BY <3>1, <3>2, <3>3 DEF IsPrefix
    <3>5. QED
      BY <2>1, <3>4
  <2>6. QED
    BY <1>1, <2>3, <2>5
<1>4. \A path \in S : is_path_expanded(path, S)
  BY <1>3 DEF is_path_expanded
<1>5. QED
  BY <1>2, <1>4 DEF S

LEMMA OpenKeeps ==
  ASSUME ViewInv, open_subpanel_for_node PROVE ViewInv'
<1>1. phase' = phase /\ fetch' = fetch /\ snapshot' = snapshot
  BY DEF open_subpanel_for_node, worldVars, fetchVars
<1>2. PICK id \in DOMAIN model.cells :
        \/ model.cells[id].warp = NoSun /\ UNCHANGED <<expanded, shownVars>>
        \/ model.cells[id].warp # NoSun /\ expand(collapse_warp_path(model.paths[id]))
        \/ model.cells[id].warp # NoSun /\ expand(expanded \cup {model.paths[id]})
  BY Zenon DEF open_subpanel_for_node
<1>3. CASE UNCHANGED <<expanded, shownVars>>
  BY <1>1, <1>3, ViewStutters DEF shownVars
<1>4. CASE model.cells[id].warp # NoSun
           /\ (expand(collapse_warp_path(model.paths[id]))
               \/ expand(expanded \cup {model.paths[id]}))
  <2>1. snapshot # NothingFetched.got
    BY NothingIsEmpty DEF ViewInv, ModelOk
  <2>2. IsGraph(model)
    BY <2>1, GraphIsMerged DEF ViewInv, SnapshotOk, ModelOk, Merged
  <2>3. id \in DOMAIN model.paths
    BY <1>4, <2>2 DEF IsGraph
  <2> DEFINE q == model.paths[id]
  <2>4. q \in Seq(Nat) /\ q # <<>> /\ \A n \in 1 .. Len(q) - 1 : SubSeq(q, 1, n) \in expanded
    BY <2>3, ModelPaths
  <2>5. ExpandedOk
    BY DEF ViewInv
  <2> HIDE DEF q
  <2>6. /\ collapse_warp_path(q) \subseteq Seq(Nat)
        /\ \A path \in collapse_warp_path(q) : is_path_expanded(path, collapse_warp_path(q))
    BY <2>4, <2>5, CollapsingKeepsPrefixes
  <2>7. /\ expanded \cup {q} \subseteq Seq(Nat)
        /\ \A path \in expanded \cup {q} : is_path_expanded(path, expanded \cup {q})
    BY <2>4, <2>5, ExpandingKeepsPrefixes
  <2>8. CASE expand(collapse_warp_path(q))
    BY <1>1, <2>6, <2>8, UserKeeps
  <2>9. CASE expand(expanded \cup {q})
    BY <1>1, <2>7, <2>9, UserKeeps
  <2>10. QED
    BY <1>4, <2>8, <2>9 DEF q
<1>5. QED
  BY <1>2, <1>3, <1>4

LEMMA CloseKeeps ==
  ASSUME ViewInv, close_subpanel PROVE ViewInv'
<1>1. phase' = phase /\ fetch' = fetch /\ snapshot' = snapshot
  BY DEF close_subpanel, worldVars, fetchVars
<1>2. CASE ~ClosingWarp
  BY <1>1, <1>2, ViewStutters DEF close_subpanel, shownVars
<1>3. CASE ClosingWarp
  <2> DEFINE q == model.paths[subpanel.id]
  <2>1. q \in Seq(Nat)
    BY <1>3, ModelPaths DEF ClosingWarp
  <2>2. expand(collapse_warp_path(q))
    BY <1>3 DEF close_subpanel
  <2>3. ExpandedOk
    BY DEF ViewInv
  <2> HIDE DEF q
  <2>4. /\ collapse_warp_path(q) \subseteq Seq(Nat)
        /\ \A path \in collapse_warp_path(q) : is_path_expanded(path, collapse_warp_path(q))
    BY <2>1, <2>3, CollapsingKeepsPrefixes
  <2>5. QED
    BY <1>1, <2>2, <2>4, UserKeeps
<1>4. QED
  BY <1>2, <1>3

LEMMA EscapeKeeps ==
  ASSUME ViewInv, Escape PROVE ViewInv'
<1>1. phase' = phase /\ fetch' = fetch /\ snapshot' = snapshot
  BY DEF Escape, worldVars, fetchVars
<1>2. CASE expand({})
  <2>1. {} \subseteq Seq(Nat) /\ \A path \in {} : is_path_expanded(path, {})
    OBVIOUS
  <2>2. QED
    BY <1>1, <1>2, <2>1, UserKeeps
<1>3. CASE UNCHANGED <<expanded, shownVars>>
  BY <1>1, <1>3, ViewStutters DEF shownVars
<1>4. QED
  BY <1>2, <1>3 DEF Escape

LEMMA ViewNextKeeps ==
  ASSUME ViewInv, [ViewNext]_viewVars PROVE ViewInv'
<1>1. CASE Publish
  BY <1>1, ViewStutters DEF Publish, fetchVars, shownVars
<1>2. CASE AppearanceTick
  BY <1>2, NothingFetchedKeeps DEF AppearanceTick, worldVars, shownVars
<1>3. CASE AppearanceMissing
  BY <1>3, NothingFetchedKeeps DEF AppearanceMissing, worldVars, shownVars
<1>4. CASE SecondPasses
  BY <1>4, ViewStutters DEF SecondPasses, worldVars, fetchVars
<1>5. CASE UNCHANGED viewVars
  BY <1>5, ViewStutters DEF viewVars, worldVars, fetchVars, shownVars
<1>6. QED
  BY <1>1, <1>2, <1>3, <1>4, <1>5, CellMovesKeeps, FetchTopKeeps, FetchWarpKeeps, LoadedKeeps,
     ColorTickKeeps, OpenKeeps, CloseKeeps, EscapeKeeps DEF ViewNext

LEMMA ViewInvHolds == ViewSpec => []ViewInv
<1>1. ViewInit => ViewInv
  BY ViewInitHolds
<1>2. ViewInv /\ [ViewNext]_viewVars => ViewInv'
  BY ViewNextKeeps
<1>3. QED
  BY <1>1, <1>2, PTL DEF ViewSpec

\* The graph Beam shows can always be built, the path it keeps for a warp
\* cell leads to that cell and to no other, and nothing is expanded below a
\* collapsed cell, however the watched Suns are nested and whatever was polled.
THEOREM PathsAreHome == ViewSpec => []PathsLeadHome
<1>1. ViewInv => PathsLeadHome
  <2> SUFFICES ASSUME ViewInv PROVE PathsLeadHome
    OBVIOUS
  <2>1. \A id \in DOMAIN model.paths :
          /\ Leads(Top, model.paths[id], CellJourney(id))
          /\ \A other \in DOMAIN model.paths : model.paths[other] = model.paths[id] => other = id
    BY ModelPaths
  <2>2. \A path \in expanded : is_path_expanded(path, expanded)
    BY DEF ViewInv, ExpandedOk
  <2>3. ASSUME snapshot # NothingFetched.got
        PROVE  Valid(from_appearance(snapshot, expanded).cells,
                     from_appearance(snapshot, expanded).edges)
    <3>1. Nests(snapshot) /\ Valid(Alone(snapshot[<<>>]).cells, Alone(snapshot[<<>>]).edges)
      BY <2>3 DEF ViewInv, SnapshotOk
    <3>2. QED
      BY <3>1, Shown
  <2>4. QED
    BY <2>1, <2>2, <2>3 DEF PathsLeadHome
<1>2. QED
  BY <1>1, ViewInvHolds, PTL

\* The colours a cell of the watched Sun still has to go through end in the
\* phase it was last seen in, and it was never seen further than it is,
\* whatever the polls skipped and however many phases are kept.
THEOREM ColoursCatchUp == ViewSpec => []LatestIsShown
<1>1. ViewInv => LatestIsShown
  BY DEF ViewInv, VisualsOk, VisualOk, LatestIsShown
<1>2. QED
  BY <1>1, ViewInvHolds, PTL
=============================================================================
