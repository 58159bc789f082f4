----------------------------- MODULE RouterProofs -----------------------------
(***************************************************************************)
(* Proofs about Router, for every set of patterns, prefixes and requests,  *)
(* tables of every length and middlewares that call next as often as they  *)
(* like; and, at the end, about match on patterns and paths of any length. *)
(***************************************************************************)
EXTENDS Router, MCParsers, SliceLemmas, FiniteSetTheorems

(***************************************************************************)
(* The middlewares that apply to a request.                                *)
(***************************************************************************)
Increasing(s) == \A i, j \in 1..Len(s) : i < j => s[i] < s[j]

\* What the loop over the first k middlewares of a table has collected.
Collected(table, r, k, s) ==
  /\ s \in Seq(Nat)
  /\ \A i \in 1..Len(s) : s[i] \in 1..k /\ IsPrefix(table[s[i]], r.path)
  /\ Increasing(s)

\* One round of the loop.
Round(table, r, k, s) == IF IsPrefix(table[k], r.path) THEN Append(s, k) ELSE s

\* A round collects the next middleware, if it applies, behind the others.
LEMMA RoundCollects ==
  ASSUME NEW table, NEW r, NEW k \in Nat, NEW s, Collected(table, r, k, s)
  PROVE  Collected(table, r, k + 1, Round(table, r, k + 1, s))
<1>1. /\ s \in Seq(Nat) /\ \A i \in 1..Len(s) : s[i] \in 1..k
      /\ \A i, j \in 1..Len(s) : i < j => s[i] < s[j]
      /\ \A i \in 1..Len(s) : IsPrefix(table[s[i]], r.path)
  BY DEF Collected, Increasing
<1>2. PICK m \in Nat : m = Len(s)
  BY <1>1, LenProperties
<1>3. CASE IsPrefix(table[k + 1], r.path)
  <2>1. PICK t : t = Append(s, k + 1)
    OBVIOUS
  <2>2. /\ t \in Seq(Nat) /\ Len(t) = m + 1
        /\ \A i \in 1..m : t[i] = s[i]
        /\ t[m + 1] = k + 1
    <3>1. k + 1 \in Nat
      OBVIOUS
    <3> QED
      BY ONLY <1>1, <1>2, <2>1, <3>1, AppendProperties
  <2>3. ASSUME NEW i \in 1..(m + 1) PROVE t[i] \in 1..(k + 1)
    <3>1. i \in 1..m \/ i = m + 1
      OBVIOUS
    <3>2. i \in 1..m => s[i] \in 1..k
      BY <1>1, <1>2
    <3> QED
      BY <2>2, <3>1, <3>2
  <2>4. ASSUME NEW i \in 1..(m + 1), NEW j \in 1..(m + 1), i < j PROVE t[i] < t[j]
    <3>1. i \in 1..m /\ s[i] \in 1..k
      BY <1>1, <1>2, <2>4
    <3>2. t[i] = s[i]
      BY <2>2, <3>1
    <3>3. CASE j = m + 1
      BY <2>2, <3>1, <3>2, <3>3
    <3>4. CASE j # m + 1
      <4>1. j \in 1..m
        BY <3>4
      <4>2. t[j] = s[j] /\ s[i] < s[j]
        BY <1>1, <1>2, <2>2, <2>4, <3>1, <4>1
      <4> QED
        BY <3>2, <4>2
    <3> QED
      BY <3>3, <3>4
  <2>5. ASSUME NEW i \in 1..(m + 1) PROVE IsPrefix(table[t[i]], r.path)
    <3>1. i \in 1..m \/ i = m + 1
      OBVIOUS
    <3>2. i \in 1..m => IsPrefix(table[s[i]], r.path)
      BY <1>1, <1>2
    <3> QED
      BY <1>3, <2>2, <3>1, <3>2
  <2>6. Collected(table, r, k + 1, t)
    BY <2>2, <2>3, <2>4, <2>5 DEF Collected, Increasing
  <2> QED
    BY <1>3, <2>1, <2>6 DEF Round
<1>4. CASE ~ IsPrefix(table[k + 1], r.path)
  <2>1. \A i \in 1..Len(s) : s[i] \in 1..(k + 1)
    BY <1>1
  <2> QED
    BY <1>1, <1>4, <2>1 DEF Round, Collected, Increasing
<1> QED
  BY <1>3, <1>4

\* The loop's results, round by round.
Rounds(table, r, n, f) ==
  f = [k \in 0..n |-> IF k = 0 THEN <<>>
                      ELSE IF IsPrefix(table[k], r.path) THEN Append(f[k - 1], k) ELSE f[k - 1]]

\* There are such results, for a table of any length.
LEMMA RoundsExist ==
  ASSUME NEW table, NEW r, NEW n \in Nat
  PROVE  \E f : Rounds(table, r, n, f)
<1> DEFINE T == {k \in Nat : \E f : Rounds(table, r, k, f)}
<1>1. 0 \in T
  <2>1. Rounds(table, r, 0, [k \in 0..0 |-> <<>>])
    BY DEF Rounds
  <2> QED
    BY <2>1
<1>2. ASSUME NEW k \in T PROVE k + 1 \in T
  <2>1. PICK f : Rounds(table, r, k, f)
    OBVIOUS
  <2> DEFINE g == [i \in 0..(k + 1) |-> IF i \in 0..k THEN f[i] ELSE Round(table, r, i, f[k])]
  <2>2. ASSUME NEW i \in 0..(k + 1)
        PROVE  g[i] = IF i = 0 THEN <<>>
                      ELSE IF IsPrefix(table[i], r.path) THEN Append(g[i - 1], i) ELSE g[i - 1]
    <3>1. CASE i = 0
      BY <2>1, <3>1 DEF Rounds
    <3>2. CASE i # 0 /\ i \in 0..k
      <4>1. i - 1 \in 0..k /\ i - 1 \in 0..(k + 1)
        BY <3>2
      <4>2. g[i] = f[i] /\ g[i - 1] = f[i - 1]
        BY <3>2, <4>1
      <4>3. f[i] = IF i = 0 THEN <<>>
                   ELSE IF IsPrefix(table[i], r.path) THEN Append(f[i - 1], i) ELSE f[i - 1]
        BY <2>1, <3>2 DEF Rounds
      <4> QED
        BY <4>2, <4>3
    <3>3. CASE i = k + 1
      <4>1. i \notin 0..k /\ i - 1 = k /\ k \in 0..k /\ k \in 0..(k + 1) /\ i # 0
        BY <3>3
      <4>2. g[i] = Round(table, r, i, f[k]) /\ g[i - 1] = f[k]
        BY <4>1
      <4> QED
        BY <4>1, <4>2 DEF Round
    <3> QED
      BY <3>1, <3>2, <3>3
  <2>3. Rounds(table, r, k + 1, g)
    BY <2>2 DEF Rounds
  <2> QED
    BY <2>3
<1>3. T = Nat
  <2> HIDE DEF T
  <2>1. T \subseteq Nat
    BY DEF T
  <2> QED
    BY <1>1, <1>2, <2>1, SetInduction
<1> QED
  BY <1>3

\* dispatch collects the middlewares in the order of their registration, and
\* none twice.
LEMMA ActiveCollected ==
  ASSUME NEW table, NEW r, Len(table) \in Nat
  PROVE  Collected(table, r, Len(table), Active(table, r))
<1>1. PICK n \in Nat : n = Len(table)
  OBVIOUS
<1>2. PICK f : Rounds(table, r, n, f) /\ Active(table, r) = f[n]
  <2> DEFINE g == CHOOSE f : Rounds(table, r, n, f)
  <2>1. Rounds(table, r, n, g)
    BY RoundsExist
  <2>2. Active(table, r) = g[n]
    BY <1>1 DEF Active, Rounds
  <2> QED
    BY <2>1, <2>2
<1> DEFINE T == {k \in Nat : k <= n => Collected(table, r, k, f[k])}
<1>3. 0 \in T
  <2>1. f[0] = <<>>
    BY <1>2 DEF Rounds
  <2>2. Collected(table, r, 0, <<>>)
    BY EmptySeq DEF Collected, Increasing
  <2> QED
    BY <2>1, <2>2
<1>4. ASSUME NEW k \in T PROVE k + 1 \in T
  <2>1. SUFFICES ASSUME k + 1 <= n PROVE Collected(table, r, k + 1, f[k + 1])
    OBVIOUS
  <2>2. Collected(table, r, k, f[k])
    BY <1>4, <2>1
  <2>3. f[k + 1] = Round(table, r, k + 1, f[k])
    <3>1. k + 1 \in 0..n /\ k + 1 # 0 /\ (k + 1) - 1 = k
      BY <2>1
    <3> QED
      BY <1>2, <3>1 DEF Rounds, Round
  <2> QED
    BY <2>2, <2>3, RoundCollects
<1>5. T = Nat
  <2> HIDE DEF T
  <2>1. T \subseteq Nat
    BY DEF T
  <2> QED
    BY <1>3, <1>4, <2>1, SetInduction
<1> QED
  BY <1>1, <1>2, <1>5

(***************************************************************************)
(* The inductive invariant.                                                *)
(***************************************************************************)
\* The tables are sequences.
AreSequences ==
  /\ routes_ \in Seq([method : Methods, pattern : Patterns])
  /\ middlewares_ \in Seq(Guarded)

\* What a state of the chain is, whatever the middlewares do: exactly the first
\* i of act have been entered, in their order, and a handler runs only when
\* they all have.
Entering(act, i, s, past, runs) ==
  /\ act \in Seq(Nat) /\ s \in Seq(Nat) /\ past \in Seq(Nat)
  /\ i \in 0..Len(act)
  /\ Len(past) = i /\ \A k \in 1..i : past[k] = act[k]
  /\ \A k \in 1..Len(s) : s[k] \in 1..(Len(act) + 1)
  /\ runs \in Nat
  /\ runs > 0 => i = Len(act)

\* When nobody has called next twice, the calls under way are the first
\* middlewares, one inside the other and then the handler, and those who have
\* called next are the ones before the last that was entered.
Nested(act, i, s, runs, called) ==
  (\A k \in 1..Len(act) : called[k] <= 1) =>
    /\ \A k \in 1..Len(s) : s[k] = k
    /\ Len(s) <= i + runs
    /\ runs <= 1
    /\ \A k \in 1..Len(act) : called[k] = 1 <=> k < i + runs

IInv ==
  /\ TypeOK
  /\ AreSequences
  /\ Increasing(active)
  /\ Entering(active, idx, stack, entered, ran)
  /\ Running => /\ active = Active(middlewares_, request)
                /\ Nested(active, idx, stack, ran, calls)

\* run_next, with names for what it leaves behind.
Runs(act, i, s, past, runs, i2, s2, past2, runs2) ==
  IF i < Len(act)
  THEN /\ i2 = i + 1 /\ s2 = Append(s, i + 1)
       /\ past2 = Append(past, act[i + 1]) /\ runs2 = runs
  ELSE /\ i2 = i /\ s2 = Append(s, Len(act) + 1)
       /\ past2 = past /\ runs2 = runs + 1

\* It enters the next middleware or, behind the last, the handler.
Entered(act, i, s, runs, i2, s2, past2, runs2) ==
  /\ Entering(act, i2, s2, past2, runs2)
  /\ s2 # <<>> /\ Len(s2) = Len(s) + 1
  /\ \A k \in 1..Len(s) : s2[k] = s[k]
  /\ \/ i < Len(act) /\ i2 = i + 1 /\ runs2 = runs /\ s2[Len(s) + 1] = i + 1
     \/ i = Len(act) /\ i2 = i /\ runs2 = runs + 1 /\ s2[Len(s) + 1] = i + 1

\* From any state of the chain it enters the right one.
LEMMA RunNextEnters ==
  ASSUME NEW act, NEW i, NEW s, NEW past, NEW runs, NEW i2, NEW s2, NEW past2, NEW runs2,
         Entering(act, i, s, past, runs),
         Runs(act, i, s, past, runs, i2, s2, past2, runs2)
  PROVE  Entered(act, i, s, runs, i2, s2, past2, runs2)
<1>0. act \in Seq(Nat) /\ s \in Seq(Nat) /\ past \in Seq(Nat)
  BY DEF Entering
<1>1. PICK n \in Nat, m \in Nat, z \in Nat : n = Len(act) /\ m = Len(s) /\ z = i
  BY <1>0, LenProperties DEF Entering
<1>2. /\ z <= n /\ Len(past) = z /\ \A k \in 1..z : past[k] = act[k]
      /\ \A k \in 1..m : s[k] \in 1..(n + 1)
      /\ runs \in Nat /\ (runs > 0 => z = n)
  BY <1>1 DEF Entering
<1>3. ASSUME NEW t, NEW x \in 1..(n + 1), t = Append(s, x)
      PROVE  /\ t \in Seq(Nat) /\ t # <<>> /\ Len(t) = m + 1
             /\ \A k \in 1..m : t[k] = s[k]
             /\ t[m + 1] = x
             /\ \A k \in 1..(m + 1) : t[k] \in 1..(n + 1)
  <2>1. x \in Nat
    OBVIOUS
  <2>2. /\ t \in Seq(Nat) /\ t # <<>> /\ Len(t) = m + 1
        /\ \A k \in 1..m : t[k] = s[k]
        /\ t[m + 1] = x
    <3>1. /\ Append(s, x) \in Seq(Nat) /\ Len(Append(s, x)) = Len(s) + 1
          /\ \A k \in 1..Len(s) : Append(s, x)[k] = s[k]
          /\ Append(s, x)[Len(s) + 1] = x
      BY ONLY <2>1, AppendProperties, <1>0
    <3>2. m = Len(s) /\ t = Append(s, x)
      BY <1>1, <1>3
    <3>3. t # <<>>
      <4>1. Len(t) = m + 1 /\ m + 1 # 0
        BY ONLY <3>1, <3>2, m \in Nat
      <4>2. Len(<<>>) = 0
        BY ONLY EmptySeq
      <4> QED
        BY ONLY <4>1, <4>2
    <3> QED
      BY ONLY <3>1, <3>2, <3>3
  <2>3. ASSUME NEW k \in 1..(m + 1) PROVE t[k] \in 1..(n + 1)
    <3>1. k \in 1..m \/ k = m + 1
      OBVIOUS
    <3> QED
      BY <1>2, <2>2, <3>1
  <2> QED
    BY <2>2, <2>3
<1>4. CASE z < n
  <2>1. PICK t, p :
          /\ t = Append(s, z + 1) /\ p = Append(past, act[z + 1])
          /\ i2 = z + 1 /\ s2 = t /\ past2 = p /\ runs2 = runs
    BY <1>1, <1>4 DEF Runs
  <2>2. z + 1 \in 1..n /\ z + 1 \in 1..(n + 1) /\ z + 1 \in 0..n /\ runs = 0
    BY <1>2, <1>4
  <2>3. act[z + 1] \in Nat
    BY <1>0, <1>1, <2>2, ElementOfSeq
  <2>4. p \in Seq(Nat) /\ Len(p) = z + 1 /\ (\A k \in 1..z : p[k] = past[k]) /\ p[z + 1] = act[z + 1]
    BY ONLY <1>2, <2>1, <2>3, AppendProperties, <1>0
  <2>5. \A k \in 1..(z + 1) : p[k] = act[k]
    <3>1. \A k \in 1..(z + 1) : k \in 1..z \/ k = z + 1
      OBVIOUS
    <3> QED
      BY <1>2, <2>4, <3>1
  <2>6. /\ t \in Seq(Nat) /\ t # <<>> /\ Len(t) = m + 1
        /\ \A k \in 1..m : t[k] = s[k]
        /\ t[m + 1] = z + 1
        /\ \A k \in 1..(m + 1) : t[k] \in 1..(n + 1)
    BY <1>3, <2>1, <2>2
  <2>7. Entering(act, z + 1, t, p, runs)
    BY <1>0, <1>1, <2>2, <2>4, <2>5, <2>6 DEF Entering
  <2> QED
    BY <1>1, <1>4, <2>1, <2>6, <2>7 DEF Entered
<1>5. CASE z = n
  <2>1. PICK t :
          /\ t = Append(s, n + 1)
          /\ i2 = z /\ s2 = t /\ past2 = past /\ runs2 = runs + 1
    BY <1>1, <1>5 DEF Runs
  <2>2. n + 1 \in 1..(n + 1) /\ z \in 0..n /\ runs + 1 \in Nat
    BY <1>2, <1>5
  <2>3. /\ t \in Seq(Nat) /\ t # <<>> /\ Len(t) = m + 1
        /\ \A k \in 1..m : t[k] = s[k]
        /\ t[m + 1] = n + 1
        /\ \A k \in 1..(m + 1) : t[k] \in 1..(n + 1)
    BY <1>3, <2>1, <2>2
  <2>4. Entering(act, z, t, past, runs + 1)
    BY <1>0, <1>1, <1>2, <1>5, <2>2, <2>3 DEF Entering
  <2> QED
    BY <1>1, <1>5, <2>1, <2>3, <2>4 DEF Entered
<1> QED
  BY <1>2, <1>4, <1>5

\* The middleware on top calls next.
Calls(act, s, called, called2) ==
  /\ Len(s) >= 1 /\ s[Len(s)] \in 1..Len(act)
  /\ called \in [1..Len(act) -> Nat]
  /\ called2 = [called EXCEPT ![s[Len(s)]] = @ + 1]

\* That keeps the nesting: if it is its first call, that middleware is the last
\* that was entered.
LEMMA CallNests ==
  ASSUME NEW act, NEW i, NEW s, NEW past, NEW runs, NEW called,
         NEW i2, NEW s2, NEW past2, NEW runs2, NEW called2,
         Entering(act, i, s, past, runs),
         Nested(act, i, s, runs, called),
         Entered(act, i, s, runs, i2, s2, past2, runs2),
         Calls(act, s, called, called2)
  PROVE  Nested(act, i2, s2, runs2, called2)
<1>0. /\ act \in Seq(Nat) /\ s \in Seq(Nat) /\ i \in Nat /\ runs \in Nat
      /\ i <= Len(act) /\ (runs > 0 => i = Len(act))
  <2>1. act \in Seq(Nat) /\ Len(act) \in Nat
    BY LenProperties DEF Entering
  <2> QED
    BY <2>1 DEF Entering
<1>0a. PICK n \in Nat, m \in Nat : n = Len(act) /\ m = Len(s)
  BY <1>0, LenProperties
<1>0b. PICK top \in 1..n : top = s[m]
  BY <1>0a DEF Calls
<1>1. /\ n = Len(act) /\ m = Len(s) /\ top \in 1..n
      /\ called \in [1..n -> Nat] /\ m >= 1 /\ top = s[m]
      /\ called2 = [called EXCEPT ![top] = @ + 1]
      /\ \A k \in 1..m : s2[k] = s[k]
      /\ Len(s2) = m + 1
      /\ \/ i < n /\ i2 = i + 1 /\ runs2 = runs /\ s2[m + 1] = i + 1
         \/ i = n /\ i2 = i /\ runs2 = runs + 1 /\ s2[m + 1] = i + 1
  <2>1. /\ called \in [1..n -> Nat] /\ m >= 1
        /\ called2 = [called EXCEPT ![top] = @ + 1]
    BY <1>0a, <1>0b DEF Calls
  <2>2. /\ \A k \in 1..m : s2[k] = s[k]
        /\ Len(s2) = m + 1
        /\ \/ i < n /\ i2 = i + 1 /\ runs2 = runs /\ s2[m + 1] = i + 1
           \/ i = n /\ i2 = i /\ runs2 = runs + 1 /\ s2[m + 1] = i + 1
    BY <1>0a DEF Entered
  <2> QED
    BY <1>0a, <1>0b, <2>1, <2>2
<1>2. SUFFICES ASSUME \A k \in 1..n : called2[k] <= 1
               PROVE  /\ \A k \in 1..(m + 1) : s2[k] = k
                      /\ m + 1 <= i2 + runs2
                      /\ runs2 <= 1
                      /\ \A k \in 1..n : called2[k] = 1 <=> k < i2 + runs2
  BY <1>1 DEF Nested
<1>3. /\ \A k \in 1..n : called[k] \in Nat
      /\ \A k \in 1..n : called2[k] = IF k = top THEN called[k] + 1 ELSE called[k]
      /\ top \in 1..n
  BY <1>1
<1>4. \A k \in 1..n : called[k] <= 1
  <2>1. ASSUME NEW k \in 1..n PROVE called[k] <= 1
    <3>1. /\ called[k] \in Nat /\ called2[k] <= 1
          /\ called2[k] = called[k] + 1 \/ called2[k] = called[k]
      BY ONLY <1>2, <1>3, k \in 1..n
    <3> QED
      BY ONLY <3>1
  <2> QED
    BY <2>1
<1>5. called[top] = 0
  BY <1>2, <1>3
<1>6. /\ \A k \in 1..m : s[k] = k
      /\ m <= i + runs
      /\ runs <= 1
      /\ \A k \in 1..n : called[k] = 1 <=> k < i + runs
  BY <1>1, <1>4 DEF Nested
<1>7. top = m /\ m >= 1
  BY <1>1, <1>6
<1>8. runs = 0 /\ m = i
  <2>1. ~ (top < i + runs)
    BY <1>0, <1>3, <1>5, <1>6
  <2>2. m = i + runs
    BY <1>0, <1>6, <1>7, <2>1
  <2>3. runs > 0 => i = n
    BY <1>0, <1>1
  <2> QED
    BY <1>0, <1>3, <1>6, <1>7, <2>2, <2>3
<1>9. i2 + runs2 = i + 1 /\ runs2 <= 1 /\ s2[m + 1] = i + 1
  BY <1>0, <1>1, <1>8
<1>10. ASSUME NEW k \in 1..(m + 1) PROVE s2[k] = k
  <2>1. k \in 1..m \/ k = m + 1
    OBVIOUS
  <2>2. \A j \in 1..m : s2[j] = s[j]
    BY <1>1
  <2> QED
    BY ONLY <1>6, <1>8, <1>9, <2>1, <2>2, <1>0, m \in Nat
<1>11. ASSUME NEW k \in 1..n PROVE called2[k] = 1 <=> k < i + 1
  <2>1. called[k] \in Nat /\ called[k] <= 1 /\ (called[k] = 1 <=> k < i)
    BY <1>3, <1>4, <1>6, <1>8
  <2>2. called2[k] = IF k = i THEN called[k] + 1 ELSE called[k]
    BY <1>3, <1>7, <1>8
  <2>3. i \in Nat /\ k \in Nat
    BY <1>0
  <2>4. CASE k = i
    <3>1. called[k] = 0
      BY ONLY <2>1, <2>3, <2>4
    <3> QED
      BY ONLY <2>2, <2>3, <2>4, <3>1
  <2>5. CASE k # i
    <3>1. called2[k] = called[k] /\ (k < i <=> k < i + 1)
      BY ONLY <2>2, <2>3, <2>5
    <3> QED
      BY ONLY <2>1, <3>1
  <2> QED
    BY <2>4, <2>5
<1> QED
  BY <1>0, <1>8, <1>9, <1>10, <1>11

(***************************************************************************)
(* The first route wins.                                                   *)
(***************************************************************************)
\* RouteOf is 0 if no route matches, and else the first that does.
LEMMA RouteIsFirst ==
  ASSUME NEW table, NEW r, Len(table) \in Nat
  PROVE  /\ RouteOf(table, r) \in 0..Len(table)
         /\ RouteOf(table, r) # 0 => RouteOf(table, r) \in Matching(table, r)
         /\ Matching(table, r) # {} =>
              /\ RouteOf(table, r) # 0
              /\ \A i \in Matching(table, r) : RouteOf(table, r) <= i
<1>1. Matching(table, r) \subseteq 1..Len(table) /\ Matching(table, r) \subseteq Nat
  <2>1. Matching(table, r) \subseteq 1..Len(table)
    BY Zenon DEF Matching
  <2>2. 1..Len(table) \subseteq Nat
    OBVIOUS
  <2> QED
    BY ONLY <2>1, <2>2
<1>2. CASE Matching(table, r) = {}
  BY <1>2 DEF RouteOf
<1>3. CASE Matching(table, r) # {}
  <2> DEFINE M == Matching(table, r)
  <2>1. RouteOf(table, r) = CHOOSE x \in M : \A y \in M : x <= y
    BY <1>3 DEF RouteOf, Min
  <2>2. \E x \in M : \A y \in M : x <= y
    BY <1>1, <1>3, LeastNumber
  <2>3. RouteOf(table, r) \in M /\ \A y \in M : RouteOf(table, r) <= y
    BY <2>1, <2>2
  <2> QED
    BY <1>1, <2>3
<1> QED
  BY <1>2, <1>3

\* One more route at the end of the table changes nothing for a request that
\* had a route.
LEMMA RouteStays ==
  ASSUME NEW S, NEW table \in Seq(S), NEW x \in S, NEW r, RouteOf(table, r) # 0
  PROVE  RouteOf(Append(table, x), r) = RouteOf(table, r)
<1>0. PICK n \in Nat : n = Len(table)
  BY LenProperties
<1>1. PICK t : n = Len(table) /\ t = Append(table, x)
  BY <1>0
<1>2. Len(t) = n + 1 /\ \A k \in 1..n : t[k] = table[k]
  BY <1>1, AppendProperties
<1>3. \A k \in 1..n : k \in Matching(t, r) <=> k \in Matching(table, r)
  <2>1. ASSUME NEW k \in 1..n PROVE k \in Matching(t, r) <=> k \in Matching(table, r)
    <3>1. k \in 1..Len(t) /\ k \in 1..Len(table) /\ t[k] = table[k]
      BY <1>1, <1>2
    <3> QED
      BY <3>1 DEF Matching
  <2> QED
    BY <2>1
<1>4. PICK a \in 1..n : /\ a = RouteOf(table, r) /\ a \in Matching(table, r)
                        /\ \A i \in Matching(table, r) : a <= i
  BY <1>1, RouteIsFirst DEF Matching
<1>5. Len(t) \in Nat /\ a \in Matching(t, r)
  BY <1>2, <1>3, <1>4
<1>6. PICK b \in Nat : /\ b = RouteOf(t, r) /\ b \in Matching(t, r) /\ b <= a
  BY <1>5, RouteIsFirst
<1>7. b \in 1..n
  BY <1>6 DEF Matching
<1>8. a <= b
  BY <1>3, <1>4, <1>6, <1>7
<1> QED
  BY <1>1, <1>4, <1>6, <1>8

(***************************************************************************)
(* The invariant is inductive.                                             *)
(***************************************************************************)
LEMMA InitInv == Init => IInv
<1> SUFFICES ASSUME Init PROVE IInv
  OBVIOUS
<1>1. /\ Len(<<>>) = 0 /\ (\A S : <<>> \in Seq(S)) /\ 1..0 = {}
  BY EmptySeq
<1>2. request \in Requests
  BY RouterAssumption DEF Init
<1>3. seen \in 0..MaxRequests
  BY RouterAssumption DEF Init
<1>4. TypeOK
  BY <1>1, <1>2, <1>3 DEF Init, TypeOK, Running
<1>5. AreSequences
  BY <1>1 DEF Init, AreSequences
<1>6. Increasing(active) /\ Entering(active, idx, stack, entered, ran)
  BY <1>1 DEF Init, Increasing, Entering
<1> QED
  BY <1>4, <1>5, <1>6 DEF IInv, Init, Running

\* Registration happens between dispatches and only lengthens the tables.
LEMMA RegisterStep == IInv /\ (add \/ use) => IInv'
<1> SUFFICES ASSUME IInv, add \/ use PROVE IInv'
  OBVIOUS
<1>1. /\ ~ Running /\ ~ Running'
      /\ UNCHANGED <<phase, chosen, idx, stack, calls, entered, ran>>
  BY DEF add, use, Running
<1>2. UNCHANGED <<seen, request, matched, pathParams, active>>
  BY <1>1 DEF chosen
<1>3. ASSUME NEW S, NEW t \in Seq(S), NEW x \in S
      PROVE  /\ Append(t, x) \in Seq(S) /\ Len(t) \in Nat /\ Len(Append(t, x)) = Len(t) + 1
             /\ \A k \in 1..Len(Append(t, x)) : Append(t, x)[k] \in S
  BY AppendProperties, LenProperties, ElementOfSeq
<1>4. /\ routes_' \in Seq([method : Methods, pattern : Patterns])
      /\ middlewares_' \in Seq(Guarded)
      /\ Len(routes_) \in Nat /\ Len(routes_') \in Nat /\ Len(routes_) <= Len(routes_')
      /\ Len(middlewares_) \in Nat /\ Len(middlewares_') \in Nat
      /\ Len(middlewares_) <= Len(middlewares_')
  <2>1. CASE add
    <3>1. PICK x \in [method : Methods, pattern : Patterns] :
            routes_' = Append(routes_, x) /\ middlewares_' = middlewares_
      BY <2>1 DEF add
    <3> QED
      BY <1>3, <3>1, LenProperties DEF IInv, AreSequences
  <2>2. CASE use
    <3>1. PICK x \in Guarded : middlewares_' = Append(middlewares_, x) /\ routes_' = routes_
      BY <2>2 DEF use
    <3> QED
      BY <1>3, <3>1, LenProperties DEF IInv, AreSequences
  <2> QED
    BY <2>1, <2>2
<1>5. /\ \A k \in 1..Len(routes_') : routes_'[k] \in [method : Methods, pattern : Patterns]
      /\ \A k \in 1..Len(middlewares_') : middlewares_'[k] \in Guarded
  BY <1>4, ElementOfSeq
<1>6. matched' \in 0..Len(routes_')
  BY <1>2, <1>4 DEF IInv, TypeOK
<1>7. \A k \in 1..Len(active') : active'[k] \in 1..Len(middlewares_')
  <2>1. ASSUME NEW k \in 1..Len(active) PROVE active[k] \in 1..Len(middlewares_')
    <3>1. active[k] \in 1..Len(middlewares_)
      BY DEF IInv, TypeOK
    <3> QED
      BY <1>4, <3>1
  <2> QED
    BY <1>2, <2>1
<1>8. TypeOK'
  BY <1>1, <1>2, <1>5, <1>6, <1>7 DEF IInv, TypeOK, Running
<1>9. AreSequences'
  BY <1>1, <1>2, <1>4 DEF IInv, AreSequences
<1> QED
  BY <1>1, <1>2, <1>8, <1>9 DEF IInv

\* A dispatch finds no route, or starts the chain of the middlewares that
\* apply to its request.
LEMMA DispatchStep == IInv /\ dispatch => IInv'
<1> SUFFICES ASSUME IInv, dispatch PROVE IInv'
  OBVIOUS
<1>1. /\ ~ Running /\ seen < MaxRequests /\ seen' = seen + 1
      /\ routes_' = routes_ /\ middlewares_' = middlewares_
  BY DEF dispatch, tables
<1>2. seen' \in 0..MaxRequests
  BY <1>1, RouterAssumption DEF IInv, TypeOK
<1>3a. PICK r \in Requests :
         /\ request' = r
         /\ \/ /\ phase' = "unmatched"
               /\ UNCHANGED <<matched, pathParams, active, idx, stack, calls, entered, ran>>
            \/ /\ phase' = "running"
               /\ matched' = RouteOf(routes_, r)
               /\ active' = Active(middlewares_, r)
               /\ calls' = [k \in 1..Len(Active(middlewares_, r)) |-> 0]
               /\ run_next(Active(middlewares_, r), 0, <<>>, <<>>, 0)
  BY DEF dispatch
<1>3. PICK act, route :
        /\ route = RouteOf(routes_, r) /\ act = Active(middlewares_, r)
        /\ request' = r
        /\ \/ /\ phase' = "unmatched"
              /\ UNCHANGED <<matched, pathParams, active, idx, stack, calls, entered, ran>>
           \/ /\ phase' = "running"
              /\ matched' = route
              /\ active' = act
              /\ calls' = [k \in 1..Len(act) |-> 0]
              /\ run_next(act, 0, <<>>, <<>>, 0)
  BY <1>3a DEF run_next
<1>4. CASE phase' = "unmatched" /\ UNCHANGED <<matched, pathParams, active, idx, stack, calls, entered, ran>>
  <2>1. stack = <<>> /\ stack' = <<>> /\ ~ Running'
    BY <1>1, <1>4 DEF IInv, TypeOK, Running
  <2>2. TypeOK'
    BY <1>1, <1>2, <1>3, <1>4, <2>1 DEF IInv, TypeOK, Running
  <2>3. AreSequences'
    BY <1>1, <1>4 DEF IInv, AreSequences
  <2> QED
    BY <1>4, <2>1, <2>2, <2>3 DEF IInv
<1>5. CASE /\ phase' = "running" /\ matched' = route /\ active' = act
           /\ calls' = [k \in 1..Len(act) |-> 0]
           /\ run_next(act, 0, <<>>, <<>>, 0)
  <2>1. Len(middlewares_) \in Nat /\ Len(routes_) \in Nat
    BY LenProperties DEF IInv, AreSequences
  <2>2. /\ act \in Seq(Nat) /\ Increasing(act)
        /\ \A k \in 1..Len(act) : act[k] \in 1..Len(middlewares_)
    BY <1>3, <2>1, ActiveCollected DEF Collected
  <2>3. route \in 0..Len(routes_)
    BY <1>3, <2>1, RouteIsFirst
  <2>4. PICK n \in Nat : n = Len(act)
    BY <2>2, LenProperties
  <2>5. <<>> \in Seq(Nat) /\ Len(<<>>) = 0
    BY EmptySeq
  <2>6. Entering(act, 0, <<>>, <<>>, 0)
    BY <2>2, <2>4, <2>5 DEF Entering
  <2>7. PICK i, s, past, runs :
          /\ i = idx' /\ s = stack' /\ past = entered' /\ runs = ran'
          /\ Runs(act, 0, <<>>, <<>>, 0, i, s, past, runs)
    BY <1>5 DEF run_next, Runs
  <2>7a. Entered(act, 0, <<>>, 0, i, s, past, runs)
    BY ONLY <2>6, <2>7, RunNextEnters
  <2>7b. /\ Entering(act, i, s, past, runs) /\ s # <<>> /\ Len(s) = 1
         /\ \/ 0 < n /\ i = 1 /\ runs = 0 /\ s[1] = 1
            \/ 0 = n /\ i = 0 /\ runs = 1 /\ s[1] = 1
    BY <2>4, <2>5, <2>7a DEF Entered
  <2>8. Nested(act, i, s, runs, calls')
    <3>1. \A k \in 1..n : calls'[k] = 0
      BY <1>5, <2>4
    <3>2. \A k \in 1..Len(s) : s[k] = k
      BY <2>7b
    <3>3. \A k \in 1..n : ~ (k < i + runs)
      BY <2>7b
    <3> QED
      BY <2>4, <2>7b, <3>1, <3>2, <3>3 DEF Nested
  <2>9. calls' \in [1..Len(act) -> 0..MaxCalls]
    BY <1>5, RouterAssumption
  <2>10. TypeOK'
    BY <1>1, <1>2, <1>3, <1>5, <2>2, <2>3, <2>7, <2>7b, <2>9 DEF IInv, TypeOK, Running, Entering
  <2>11. AreSequences'
    BY <1>1 DEF IInv, AreSequences
  <2>12. active' = Active(middlewares_', request')
    BY <1>1, <1>3, <1>5
  <2> QED
    BY <1>5, <2>2, <2>7, <2>7b, <2>8, <2>10, <2>11, <2>12 DEF IInv
<1> QED
  BY <1>3, <1>4, <1>5

\* A middleware calls next.
LEMMA CallStep == IInv /\ CallNext => IInv'
<1> SUFFICES ASSUME IInv, CallNext PROVE IInv'
  OBVIOUS
<1>1. /\ Running /\ Running' /\ phase' = phase
      /\ UNCHANGED <<routes_, middlewares_, seen, request, matched, pathParams, active>>
  BY DEF CallNext, tables, chosen, Running
<1>2. /\ active \in Seq(Nat) /\ stack \in Seq(Nat) /\ entered \in Seq(Nat) /\ stack # <<>>
      /\ Entering(active, idx, stack, entered, ran)
      /\ Nested(active, idx, stack, ran, calls)
      /\ calls \in [1..Len(active) -> 0..MaxCalls]
  BY <1>1 DEF IInv, TypeOK, Entering
<1>3. PICK n \in Nat, m \in Nat : n = Len(active) /\ m = Len(stack) /\ m >= 1
  BY <1>2, EmptySeq, LenProperties
<1>4. PICK top \in 1..n :
        /\ top = stack[m] /\ calls[top] < MaxCalls
        /\ calls' = [calls EXCEPT ![top] = @ + 1]
        /\ run_next(active, idx, stack, entered, ran)
  <2>1. stack[m] \in 1..(n + 1)
    BY <1>2, <1>3 DEF Entering
  <2>2. /\ stack[m] <= n /\ calls[stack[m]] < MaxCalls
        /\ calls' = [calls EXCEPT ![stack[m]] = @ + 1]
        /\ run_next(active, idx, stack, entered, ran)
    BY <1>3 DEF CallNext, Last
  <2>3. stack[m] \in 1..n
    BY <2>1, <2>2
  <2> QED
    BY <2>2, <2>3
<1>5. PICK i, s, past, runs :
        /\ i = idx' /\ s = stack' /\ past = entered' /\ runs = ran'
        /\ Runs(active, idx, stack, entered, ran, i, s, past, runs)
  BY <1>4 DEF run_next, Runs
<1>5a. Entered(active, idx, stack, ran, i, s, past, runs)
  BY ONLY <1>2, <1>5, RunNextEnters
<1>5b. Entering(active, i, s, past, runs) /\ s # <<>>
  BY <1>5a DEF Entered
<1>6. calls \in [1..Len(active) -> Nat] /\ MaxCalls \in Nat
  BY <1>2, RouterAssumption
<1>7. PICK called : called = calls'
  OBVIOUS
<1>8. Nested(active, i, s, runs, called)
  <2>1. Calls(active, stack, calls, called)
    BY <1>3, <1>4, <1>6, <1>7 DEF Calls
  <2> QED
    BY ONLY <1>2, <1>5a, <2>1, CallNests
<1>9. calls' \in [1..Len(active) -> 0..MaxCalls]
  BY <1>2, <1>3, <1>4, <1>6
<1>10. TypeOK'
  BY <1>1, <1>5, <1>5b, <1>9 DEF IInv, TypeOK, Entering, Running
<1>11. AreSequences'
  BY <1>1 DEF IInv, AreSequences
<1> QED
  BY <1>1, <1>5, <1>5b, <1>7, <1>8, <1>10, <1>11 DEF IInv

\* A middleware or the handler returns or throws.
LEMMA ReturnStep == IInv /\ (Return \/ Throw) => IInv'
<1> SUFFICES ASSUME IInv, Return \/ Throw PROVE IInv'
  OBVIOUS
<1>1. /\ Running
      /\ UNCHANGED <<routes_, middlewares_, seen, request, matched, pathParams, active>>
      /\ UNCHANGED <<idx, calls, entered, ran>>
  BY DEF Return, Throw, tables, chosen
<1>2. /\ active \in Seq(Nat) /\ stack \in Seq(Nat) /\ stack # <<>>
      /\ Entering(active, idx, stack, entered, ran)
      /\ active = Active(middlewares_, request)
      /\ Nested(active, idx, stack, ran, calls)
  BY <1>1 DEF IInv, TypeOK, Entering
<1>3. PICK m \in Nat : m = Len(stack) /\ m >= 1
  BY <1>2, EmptySeq, LenProperties
<1>4. PICK j \in Nat, s \in Seq(Nat) :
        /\ s = stack' /\ Len(s) = j /\ j <= m
        /\ \A k \in 1..j : s[k] = stack[k]
        /\ phase' \in {"running", "matched", "threw"}
        /\ phase' = "running" <=> j # 0
  <2>1. CASE Return
    <3>1. m - 1 \in Nat /\ m - 1 <= m /\ (m - 1 # 0 <=> m # 1)
      BY <1>3
    <3>2. stack' = SubSeq(stack, 1, m - 1) /\ phase' = IF m = 1 THEN "matched" ELSE "running"
      BY <1>1, <1>3, <2>1 DEF Return, Front, Running
    <3> DEFINE s == SubSeq(stack, 1, m - 1)
    <3>3. s \in Seq(Nat) /\ Len(s) = m - 1 /\ \A k \in 1..(m - 1) : s[k] = stack[k]
      BY <1>2, <1>3, <3>1, FrontCut
    <3> QED
      BY <3>1, <3>2, <3>3
  <2>2. CASE Throw
    <3>1. stack' = <<>> /\ phase' = "threw"
      BY <2>2 DEF Throw
    <3>2. <<>> \in Seq(Nat) /\ Len(<<>>) = 0 /\ 0 \in Nat /\ 0 <= m /\ 1..0 = {}
      BY <1>3, EmptySeq
    <3> QED
      BY <3>1, <3>2
  <2> QED
    BY <2>1, <2>2
<1>5. Running' <=> s # <<>>
  <2>1. s # <<>> <=> Len(s) # 0
    BY ONLY <1>4, EmptySeq
  <2> QED
    BY <1>4, <2>1 DEF Running
<1>6. Entering(active, idx, s, entered, ran)
  <2>1. \A k \in 1..m : stack[k] \in 1..(Len(active) + 1)
    BY <1>2, <1>3 DEF Entering
  <2>2. \A k \in 1..j : k \in 1..m
    BY <1>3, <1>4
  <2>3. \A k \in 1..Len(s) : s[k] \in 1..(Len(active) + 1)
    BY <1>4, <2>1, <2>2
  <2> QED
    BY <1>2, <2>3 DEF Entering
<1>7. Nested(active, idx, s, ran, calls)
  <2>1. Len(active) \in Nat /\ idx \in Nat /\ ran \in Nat
    BY <1>2, LenProperties DEF Entering
  <2>2. j <= m /\ (\A k \in 1..j : k \in 1..m)
    BY <1>3, <1>4
  <2> QED
    BY <1>2, <1>3, <1>4, <2>1, <2>2 DEF Nested
<1>8. TypeOK'
  BY <1>1, <1>4, <1>5, <1>6 DEF IInv, TypeOK, Entering
<1>9. AreSequences'
  BY <1>1, <1>4 DEF IInv, AreSequences
<1> QED
  BY <1>1, <1>2, <1>4, <1>6, <1>7, <1>8, <1>9 DEF IInv

\* Every step keeps the invariant.
LEMMA NextInv == IInv /\ [Next]_vars => IInv'
<1>1. ASSUME IInv, UNCHANGED vars PROVE IInv'
  <2>1. /\ UNCHANGED <<routes_, middlewares_, seen, phase, request, matched, pathParams>>
        /\ UNCHANGED <<active, idx, stack, calls, entered, ran>>
    BY <1>1 DEF vars
  <2> QED
    BY <1>1, <2>1 DEF IInv, TypeOK, AreSequences, Running
<1> QED
  BY <1>1, RegisterStep, DispatchStep, CallStep, ReturnStep DEF Next

\* It holds in every reachable state.
THEOREM Invariance == Spec => []IInv
<1> QED
  BY InitInv, NextInv, PTL DEF Spec

\* Every variable of the router has its type in every reachable state.
THEOREM TypeCorrect == Spec => []TypeOK
<1>1. IInv => TypeOK
  BY DEF IInv
<1> QED
  BY <1>1, Invariance, PTL

\* For one request no middleware is entered twice, and they are entered in the
\* order of their registration, however often they call next: idx only grows,
\* and what has been entered is the first idx of active_mw.
THEOREM EnteredInOrder == Spec => []EnteredOnceInOrder
<1>1. ASSUME IInv PROVE EnteredOnceInOrder
  <2>1. /\ Increasing(active) /\ active \in Seq(Nat)
        /\ idx \in 0..Len(active)
        /\ Len(entered) = idx /\ \A k \in 1..idx : entered[k] = active[k]
    BY <1>1 DEF IInv, Entering
  <2>2. PICK n \in Nat : n = Len(active)
    BY <2>1, LenProperties
  <2>3. ASSUME NEW i \in 1..Len(entered), NEW j \in 1..Len(entered), i < j
        PROVE  entered[i] < entered[j]
    <3>1. i \in 1..idx /\ j \in 1..idx /\ i \in 1..n /\ j \in 1..n
      BY <2>1, <2>2
    <3>2. entered[i] = active[i] /\ entered[j] = active[j]
      BY <2>1, <3>1
    <3>3. active[i] < active[j]
      BY <2>1, <2>2, <2>3, <3>1 DEF Increasing
    <3> QED
      BY <3>2, <3>3
  <2> QED
    BY <2>3 DEF EnteredOnceInOrder
<1> QED
  BY <1>1, Invariance, PTL

\* When the handler is entered every middleware that applies to the request has
\* been, whatever the chain did before.
THEOREM ChainComplete == Spec => []NoneSkipped
<1>1. ASSUME IInv PROVE NoneSkipped
  <2>1. SUFFICES ASSUME Running, ran > 0
                 PROVE  ToSet(entered) = ToSet(active)
    BY <1>1 DEF IInv, NoneSkipped
  <2>2. /\ active \in Seq(Nat) /\ entered \in Seq(Nat)
        /\ Len(entered) = Len(active)
        /\ \A k \in 1..Len(active) : entered[k] = active[k]
    BY <1>1, <2>1 DEF IInv, Entering
  <2>3. DOMAIN entered = 1..Len(active) /\ DOMAIN active = 1..Len(active)
    BY <2>2, LenProperties
  <2> QED
    BY <2>2, <2>3 DEF ToSet
<1> QED
  BY <1>1, Invariance, PTL

\* As long as no middleware calls next twice the handler runs at most once,
\* only when each of them has called next, and from inside all of them.
THEOREM HandlerIsBehind == Spec => []HandlerBehindChain
<1>1. ASSUME IInv PROVE HandlerBehindChain
  <2>1. SUFFICES ASSUME Running, \A k \in 1..Len(active) : calls[k] <= 1
                 PROVE  /\ ran <= 1
                        /\ ran = 1 => \A k \in 1..Len(active) : calls[k] = 1
                        /\ Last(stack) = Len(active) + 1 =>
                             stack = [k \in 1..(Len(active) + 1) |-> k]
    BY DEF HandlerBehindChain
  <2>2. /\ Entering(active, idx, stack, entered, ran)
        /\ active \in Seq(Nat) /\ stack \in Seq(Nat) /\ stack # <<>>
    BY <1>1, <2>1 DEF IInv, TypeOK, Entering
  <2>3. PICK n \in Nat, m \in Nat : n = Len(active) /\ m = Len(stack) /\ m >= 1
    BY <2>2, EmptySeq, LenProperties
  <2>4. /\ idx \in 0..n /\ ran \in Nat /\ (ran > 0 => idx = n)
    BY <2>2, <2>3 DEF Entering
  <2>5. /\ \A k \in 1..m : stack[k] = k
        /\ m <= idx + ran /\ ran <= 1
        /\ \A k \in 1..n : calls[k] = 1 <=> k < idx + ran
    BY <1>1, <2>1, <2>3 DEF IInv, Nested
  <2>6. ran = 1 => \A k \in 1..n : calls[k] = 1
    BY <2>4, <2>5
  <2>7. Last(stack) = n + 1 => stack = [k \in 1..(n + 1) |-> k]
    <3>1. SUFFICES ASSUME Last(stack) = n + 1 PROVE stack = [k \in 1..(n + 1) |-> k]
      OBVIOUS
    <3>2. m = n + 1
      BY <2>3, <2>5, <3>1 DEF Last
    <3>3. stack = [k \in 1..m |-> stack[k]]
      BY <2>2, <2>3, LenProperties
    <3> QED
      BY <2>5, <3>2, <3>3
  <2> QED
    BY <2>3, <2>5, <2>6, <2>7
<1> QED
  BY <1>1, Invariance, PTL

\* Registering a route never takes a request away from the route it had:
\* dispatch takes the first that matches, and add appends.
THEOREM FirstRouteWins == Spec => EarlierRouteStands
<1> DEFINE Stands == \A r \in Requests :
                       RouteOf(routes_, r) # 0 => RouteOf(routes_', r) = RouteOf(routes_, r)
<1>1. ASSUME IInv, [Next]_vars PROVE [Stands]_routes_
  <2>1. SUFFICES ASSUME routes_' # routes_ PROVE Stands
    OBVIOUS
  <2>2. PICK x \in [method : Methods, pattern : Patterns] : routes_' = Append(routes_, x)
    BY <1>1, <2>1 DEF Next, add, use, dispatch, CallNext, Return, Throw, tables, vars
  <2>3. routes_ \in Seq([method : Methods, pattern : Patterns])
    BY <1>1 DEF IInv, AreSequences
  <2>4. ASSUME NEW r \in Requests, RouteOf(routes_, r) # 0
        PROVE  RouteOf(routes_', r) = RouteOf(routes_, r)
    BY <2>2, <2>3, <2>4, RouteStays
  <2> QED
    BY <2>4
<1>2. IInv /\ [Next]_vars => [Stands]_routes_
  BY <1>1
<1> QED
  BY <1>2, Invariance, PTL DEF Spec, EarlierRouteStands

(***************************************************************************)
(* Prefixes.  That a path starts with a text is seen by its segments: what *)
(* split makes of the front of a text is only continued by what follows.   *)
(***************************************************************************)
\* The tokens of paths and patterns.  (All of them are strings, but a prover
\* does not know that of a literal.)
Token == STRING \cup Letter \cup {"/", ":", "*", "a", "b", "x", "y"}

Segments == Seq(Seq(Token))

\* One round of split.
CutStep(parts, x) ==
  IF x = "/" THEN Append(parts, <<>>) ELSE [parts EXCEPT ![Len(parts)] = Append(@, x)]

\* What split has made of the first tokens of t, token by token.
Cutting(t, n, f) ==
  f = [i \in 0..n |->
        IF i = 0 THEN << <<>> >>
        ELSE LET parts == f[i - 1]
             IN  IF t[i] = "/" THEN Append(parts, <<>>)
                 ELSE [parts EXCEPT ![Len(parts)] = Append(@, t[i])]]

\* There is such a sequence of rounds, for a text of any length.
LEMMA CuttingExists ==
  ASSUME NEW t, NEW n \in Nat
  PROVE  \E f : Cutting(t, n, f)
<1> DEFINE T == {k \in Nat : \E f : Cutting(t, k, f)}
<1>1. 0 \in T
  <2>1. Cutting(t, 0, [k \in 0..0 |-> << <<>> >>])
    BY DEF Cutting
  <2> QED
    BY <2>1
<1>2. ASSUME NEW k \in T PROVE k + 1 \in T
  <2>1. PICK f : Cutting(t, k, f)
    OBVIOUS
  <2> DEFINE g == [i \in 0..(k + 1) |-> IF i \in 0..k THEN f[i] ELSE CutStep(f[k], t[i])]
  <2>2. ASSUME NEW i \in 0..(k + 1)
        PROVE  g[i] = IF i = 0 THEN << <<>> >> ELSE CutStep(g[i - 1], t[i])
    <3>1. CASE i = 0
      BY <2>1, <3>1 DEF Cutting
    <3>2. CASE i # 0 /\ i \in 0..k
      <4>1. i - 1 \in 0..k /\ i - 1 \in 0..(k + 1)
        BY <3>2
      <4>2. g[i] = f[i] /\ g[i - 1] = f[i - 1]
        BY <3>2, <4>1
      <4>3. f[i] = CutStep(f[i - 1], t[i])
        BY <2>1, <3>2 DEF Cutting, CutStep
      <4> QED
        BY <3>2, <4>2, <4>3
    <3>3. CASE i = k + 1
      <4>1. i \notin 0..k /\ i - 1 = k /\ k \in 0..k /\ k \in 0..(k + 1) /\ i # 0
        BY <3>3
      <4>2. g[i] = CutStep(f[k], t[i]) /\ g[i - 1] = f[k]
        BY <4>1
      <4> QED
        BY <4>1, <4>2
    <3> QED
      BY <3>1, <3>2, <3>3
  <2>3. Cutting(t, k + 1, g)
    BY <2>2 DEF Cutting, CutStep
  <2> QED
    BY <2>3
<1>3. T = Nat
  <2> HIDE DEF T
  <2>1. T \subseteq Nat
    BY DEF T
  <2> QED
    BY <1>1, <1>2, <2>1, SetInduction
<1> QED
  BY <1>3

\* split is the last of them.
LEMMA SplitIs ==
  ASSUME NEW s, Strip(s) # <<>>, Len(Strip(s)) \in Nat
  PROVE  \E f : Cutting(Strip(s), Len(Strip(s)), f) /\ split(s) = f[Len(Strip(s))]
<1> DEFINE g == CHOOSE f : Cutting(Strip(s), Len(Strip(s)), f)
<1>1. Cutting(Strip(s), Len(Strip(s)), g)
  BY CuttingExists
<1>2. split(s) = g[Len(Strip(s))]
  BY DEF split, Cutting
<1> QED
  BY <1>1, <1>2

\* Q is P with its last segment continued and others behind it.
Extends(P, Q) ==
  LET l == Len(P)
  IN  /\ l <= Len(Q)
      /\ \A m \in 1..(l - 1) : Q[m] = P[m]
      /\ Len(P[l]) <= Len(Q[l])
      /\ \A j \in 1..Len(P[l]) : Q[l][j] = P[l][j]

\* A slash ends the last segment, any other token continues it.
LEMMA CutStepIs ==
  ASSUME NEW P \in Segments, Len(P) >= 1, NEW x \in Token
  PROVE  LET l == Len(P)
             Q == CutStep(P, x)
         IN  /\ Q \in Segments /\ Len(Q) >= 1
             /\ Extends(P, Q)
             /\ x = "/" => Len(Q) = l + 1 /\ Q[l] = P[l]
             /\ x # "/" => /\ Len(Q) = l
                           /\ Len(Q[l]) = Len(P[l]) + 1
                           /\ Q[l][Len(P[l]) + 1] = x
<1> DEFINE Q == CutStep(P, x)
<1>1. PICK l \in Nat : l = Len(P) /\ l >= 1
  BY LenProperties DEF Segments
<1>2. PICK z \in Seq(Token) : z = P[l]
  <2>1. l \in 1..Len(P)
    BY <1>1
  <2> QED
    BY <2>1, ElementOfSeq DEF Segments
<1>3. PICK e \in Nat : e = Len(z)
  BY LenProperties
<1>4. CASE x = "/"
  <2>1. Q = Append(P, <<>>)
    BY <1>4 DEF CutStep
  <2>2. <<>> \in Seq(Token)
    BY EmptySeq
  <2>3. /\ Append(P, <<>>) \in Segments /\ Len(Append(P, <<>>)) = Len(P) + 1
        /\ \A m \in 1..Len(P) : Append(P, <<>>)[m] = P[m]
    BY ONLY <2>2, P \in Segments, AppendProperties DEF Segments
  <2>4. Q \in Segments /\ Len(Q) = l + 1 /\ \A m \in 1..l : Q[m] = P[m]
    BY ONLY <1>1, <2>1, <2>3
  <2> HIDE DEF Q
  <2>5. Q[l] = z
    BY <1>1, <1>2, <2>4
  <2>6. Extends(P, Q)
    BY <1>1, <1>2, <1>3, <2>4, <2>5 DEF Extends
  <2>7. /\ Q \in Segments /\ Len(Q) >= 1
        /\ Extends(P, Q)
        /\ Len(Q) = Len(P) + 1 /\ Q[Len(P)] = P[Len(P)]
    BY <1>1, <1>2, <2>4, <2>5, <2>6
  <2> QED
    BY <1>4, <2>7 DEF Q
<1>5. CASE x # "/"
  <2>1. Q = [P EXCEPT ![Len(P)] = Append(P[Len(P)], x)]
    BY <1>5 DEF CutStep
  <2>2. PICK w : w = Append(z, x)
    OBVIOUS
  <2>3. /\ w \in Seq(Token) /\ Len(w) = e + 1
        /\ \A m \in 1..e : w[m] = z[m]
        /\ w[e + 1] = x
    <3>1. Append(z, x) \in Seq(Token)
      BY AppendProperties
    <3>2. Len(Append(z, x)) = Len(z) + 1 /\ Append(z, x)[Len(z) + 1] = x
      BY AppendProperties
    <3>3. \A m \in 1..Len(z) : Append(z, x)[m] = z[m]
      BY AppendProperties
    <3> QED
      BY ONLY <2>2, <1>3, <3>1, <3>2, <3>3
  <2>4. Q = [P EXCEPT ![l] = w]
    BY ONLY <2>1, <2>2, <1>1, <1>2
  <2>5. l \in 1..Len(P) /\ P \in Seq(Seq(Token))
    BY <1>1 DEF Segments
  <2>6. /\ [P EXCEPT ![l] = w] \in Seq(Seq(Token)) /\ Len([P EXCEPT ![l] = w]) = Len(P)
        /\ \A j \in 1..Len(P) : [P EXCEPT ![l] = w][j] = IF j = l THEN w ELSE P[j]
    <3> DEFINE S == Seq(Token)
    <3>1. w \in S /\ l \in 1..Len(P) /\ P \in Seq(S)
      BY <2>3, <2>5
    <3> HIDE DEF S
    <3>2. /\ [P EXCEPT ![l] = w] \in Seq(S) /\ Len([P EXCEPT ![l] = w]) = Len(P)
          /\ \A j \in 1..Len(P) : [P EXCEPT ![l] = w][j] = IF j = l THEN w ELSE P[j]
      BY ONLY <3>1, ExceptSeq
    <3> QED
      BY <3>2 DEF S
  <2>7. /\ Q \in Segments /\ Len(Q) = l
        /\ (\A m \in 1..l : m # l => Q[m] = P[m]) /\ Q[l] = w
    BY ONLY <2>4, <2>5, <2>6, <1>1 DEF Segments
  <2> HIDE DEF Q
  <2>8. Extends(P, Q)
    BY <1>1, <1>2, <1>3, <2>3, <2>7 DEF Extends
  <2>9. /\ Q \in Segments /\ Len(Q) >= 1
        /\ Extends(P, Q)
        /\ Len(Q) = Len(P)
        /\ Len(Q[Len(P)]) = Len(P[Len(P)]) + 1
        /\ Q[Len(P)][Len(P[Len(P)]) + 1] = x
    BY <1>1, <1>2, <1>3, <2>3, <2>7, <2>8
  <2> QED
    BY <1>5, <2>9 DEF Q
<1> QED
  BY <1>4, <1>5

\* What is continued twice is continued.
LEMMA ExtendsTrans ==
  ASSUME NEW P \in Segments, NEW Q \in Segments, NEW R \in Segments,
         Len(P) >= 1, Len(Q) >= 1, Extends(P, Q), Extends(Q, R)
  PROVE  Extends(P, R)
<1>1. PICK l \in Nat, m \in Nat : l = Len(P) /\ m = Len(Q) /\ l >= 1
  BY LenProperties DEF Segments
<1>2. /\ l <= m /\ m <= Len(R) /\ Len(R) \in Nat
      /\ \A k \in 1..(l - 1) : Q[k] = P[k]
      /\ \A k \in 1..(m - 1) : R[k] = Q[k]
  BY <1>1, LenProperties DEF Extends, Segments
<1>3. PICK a \in Seq(Token), b \in Seq(Token), c \in Seq(Token) :
        a = P[l] /\ b = Q[l] /\ c = R[l]
  <2>1. l \in 1..Len(P) /\ l \in 1..Len(Q) /\ l \in 1..Len(R)
    BY <1>1, <1>2
  <2> QED
    BY <2>1, ElementOfSeq DEF Segments
<1>4. Len(a) \in Nat /\ Len(b) \in Nat /\ Len(c) \in Nat
  BY LenProperties
<1>5. Len(a) <= Len(b) /\ \A j \in 1..Len(a) : b[j] = a[j]
  BY <1>1, <1>3 DEF Extends
<1>6. Len(b) <= Len(c) /\ \A j \in 1..Len(b) : c[j] = b[j]
  <2>1. CASE l = m
    BY <1>1, <1>3, <2>1 DEF Extends
  <2>2. CASE l # m
    <3>1. l \in 1..(m - 1)
      BY <1>1, <1>2, <2>2
    <3>2. c = b
      BY <1>2, <1>3, <3>1
    <3> QED
      BY <1>4, <3>2
  <2> QED
    BY <2>1, <2>2
<1>7. Len(a) <= Len(c) /\ \A j \in 1..Len(a) : c[j] = a[j]
  BY ONLY <1>4, <1>5, <1>6
<1>8. l <= Len(R) /\ \A k \in 1..(l - 1) : R[k] = P[k]
  <2>1. \A k \in 1..(l - 1) : k \in 1..(m - 1)
    BY <1>1, <1>2
  <2> QED
    BY ONLY <2>1, <1>1, <1>2
<1> QED
  BY ONLY <1>1, <1>3, <1>7, <1>8 DEF Extends

\* With nothing to follow, too.
LEMMA ExtendsItself ==
  ASSUME NEW P \in Segments, Len(P) >= 1
  PROVE  Extends(P, P)
<1>1. Len(P) \in Nat /\ Len(P) \in 1..Len(P)
  BY LenProperties DEF Segments
<1>2. P[Len(P)] \in Seq(Token)
  BY <1>1, ElementOfSeq DEF Segments
<1>3. Len(P[Len(P)]) \in Nat
  BY <1>2, LenProperties
<1> QED
  BY <1>1, <1>3 DEF Extends

\* One round.
LEMMA CuttingStep ==
  ASSUME NEW t, NEW n \in Nat, NEW f, Cutting(t, n, f), NEW k \in Nat, k + 1 <= n
  PROVE  f[k + 1] = CutStep(f[k], t[k + 1])
<1>1. k + 1 \in 0..n /\ k + 1 # 0 /\ (k + 1) - 1 = k
  OBVIOUS
<1> QED
  BY <1>1 DEF Cutting, CutStep

\* What is cut is never taken back.
LEMMA CuttingGrows ==
  ASSUME NEW t \in Seq(Token), NEW n \in Nat, n = Len(t), NEW f, Cutting(t, n, f)
  PROVE  /\ \A i \in 0..n : f[i] \in Segments /\ Len(f[i]) >= 1
         /\ \A i, j \in 0..n : i <= j => Extends(f[i], f[j])
<1> DEFINE T == {k \in Nat : k <= n => /\ f[k] \in Segments /\ Len(f[k]) >= 1
                                       /\ \A i \in 0..k : /\ f[i] \in Segments /\ Len(f[i]) >= 1
                                                          /\ Extends(f[i], f[k])}
<1>1. 0 \in T
  <2>1. f[0] = << <<>> >>
    BY DEF Cutting
  <2>2. << <<>> >> \in Segments /\ Len(<< <<>> >>) = 1
    <3>1. <<>> \in Seq(Token)
      BY EmptySeq
    <3> QED
      BY <3>1 DEF Segments
  <2>3. f[0] \in Segments /\ Len(f[0]) >= 1
    BY ONLY <2>1, <2>2
  <2>4. Extends(f[0], f[0])
    BY <2>3, ExtendsItself
  <2>5. \A i \in 0..0 : i = 0
    OBVIOUS
  <2> QED
    BY <2>3, <2>4, <2>5
<1>2. ASSUME NEW k \in T PROVE k + 1 \in T
  <2>1. SUFFICES ASSUME k + 1 <= n
                 PROVE  /\ f[k + 1] \in Segments /\ Len(f[k + 1]) >= 1
                        /\ \A i \in 0..(k + 1) : /\ f[i] \in Segments /\ Len(f[i]) >= 1
                                                 /\ Extends(f[i], f[k + 1])
    OBVIOUS
  <2>2. /\ k \in Nat /\ f[k] \in Segments /\ Len(f[k]) >= 1
        /\ \A i \in 0..k : f[i] \in Segments /\ Len(f[i]) >= 1 /\ Extends(f[i], f[k])
    BY <1>2, <2>1
  <2>3. t[k + 1] \in Token
    <3>1. k + 1 \in 1..Len(t)
      BY <2>1, <2>2
    <3> QED
      BY <3>1, ElementOfSeq
  <2>4. f[k + 1] = CutStep(f[k], t[k + 1])
    BY ONLY <2>1, <2>2, n \in Nat, Cutting(t, n, f), CuttingStep
  <2>5. f[k + 1] \in Segments /\ Len(f[k + 1]) >= 1 /\ Extends(f[k], f[k + 1])
    BY ONLY <2>2, <2>3, <2>4, CutStepIs
  <2>6. ASSUME NEW i \in 0..(k + 1) 
        PROVE f[i] \in Segments /\ Len(f[i]) >= 1 /\ Extends(f[i], f[k + 1])
    <3>1. CASE i = k + 1
      BY <2>5, <3>1, ExtendsItself
    <3>2. CASE i # k + 1
      <4>1. i \in Nat /\ i <= k /\ i \in 0..k
        BY <2>2, <3>2
      <4>2. f[i] \in Segments /\ Len(f[i]) >= 1
        BY <4>1, <2>2
      <4>3. Extends(f[i], f[k + 1])
        BY ONLY <4>1, <4>2, <2>2, <2>5, ExtendsTrans
      <4> QED
        BY <4>2, <4>3
    <3> QED
      BY <3>1, <3>2
  <2> QED
    BY <2>5, <2>6
<1>3. T = Nat
  <2> HIDE DEF T
  <2>1. T \subseteq Nat
    BY DEF T
  <2> QED
    BY <1>1, <1>2, <2>1, SetInduction
<1> QED
  BY <1>3

\* Two texts of which one round makes the same have the same next token, if
\* the segments of one are to be those of the other.
LEMMA SameToken ==
  ASSUME NEW P \in Segments, Len(P) >= 1, NEW x \in Token, NEW y \in Token,
         NEW a \in Segments, NEW b \in Segments,
         Extends(CutStep(P, x), a), Extends(CutStep(P, y), b),
         Len(a) <= Len(b), \A m \in 1..Len(a) : a[m] = b[m]
  PROVE  x = y
<1>1. PICK l \in Nat : l = Len(P) /\ l >= 1
  BY LenProperties DEF Segments
<1>2. Len(a) \in Nat /\ Len(b) \in Nat
  BY LenProperties DEF Segments
<1>3. l \in 1..Len(P)
  BY <1>1
<1>4. PICK z \in Seq(Token) : z = P[l]
  BY <1>3, ElementOfSeq DEF Segments
<1>5. PICK e \in Nat : e = Len(z)
  BY LenProperties
<1>6. ASSUME NEW u \in Token, NEW c \in Segments, Extends(CutStep(P, u), c)
      PROVE  /\ l <= Len(c)
             /\ u = "/" => c[l] = z /\ l < Len(c)
             /\ u # "/" => Len(c[l]) > e /\ c[l][e + 1] = u
  <2>1. PICK Q : Q = CutStep(P, u)
    OBVIOUS
  <2>2. /\ Q \in Segments /\ Extends(Q, c)
        /\ u = "/" => Len(Q) = l + 1 /\ Q[l] = z
        /\ u # "/" => Len(Q) = l /\ Len(Q[l]) = e + 1 /\ Q[l][e + 1] = u
    <3>1. /\ CutStep(P, u) \in Segments
          /\ u = "/" => Len(CutStep(P, u)) = Len(P) + 1 /\ CutStep(P, u)[Len(P)] = P[Len(P)]
          /\ u # "/" => /\ Len(CutStep(P, u)) = Len(P)
                        /\ Len(CutStep(P, u)[Len(P)]) = Len(P[Len(P)]) + 1
                        /\ CutStep(P, u)[Len(P)][Len(P[Len(P)]) + 1] = u
      BY ONLY P \in Segments, Len(P) >= 1, u \in Token, CutStepIs
    <3> QED
      BY ONLY <3>1, <2>1, <1>1, <1>4, <1>5, <1>6
  <2>3. PICK q \in Nat : q = Len(Q)
    BY <2>2, LenProperties DEF Segments
  <2>4. /\ q <= Len(c) /\ \A m \in 1..(q - 1) : c[m] = Q[m]
        /\ Len(Q[q]) <= Len(c[q])
        /\ \A j \in 1..Len(Q[q]) : c[q][j] = Q[q][j]
    BY ONLY <2>2, <2>3 DEF Extends
  <2>5. Len(c) \in Nat
    BY LenProperties DEF Segments
  <2>6. CASE u = "/"
    <3>1. q = l + 1 /\ l \in 1..(q - 1) /\ Q[l] = z
      BY ONLY <2>2, <2>3, <2>6, <1>1, <1>3
    <3> QED
      BY ONLY <3>1, <2>4, <2>5, <2>6, <1>1
  <2>7. CASE u # "/"
    <3>1. q = l /\ Len(Q[l]) = e + 1 /\ Q[l][e + 1] = u
      BY ONLY <2>2, <2>3, <2>7
    <3>2. c[l] \in Seq(Token)
      <4>1. l \in 1..Len(c)
        BY <1>1, <2>4, <2>5, <3>1
      <4> QED
        BY <4>1, ElementOfSeq DEF Segments
    <3>3. Len(c[l]) \in Nat /\ e + 1 \in 1..(e + 1)
      BY <3>2, LenProperties
    <3> QED
      BY ONLY <3>1, <3>3, <2>4, <2>5, <2>7, <1>1, <1>5
  <2> QED
    BY <2>6, <2>7
<1>7. /\ l <= Len(a)
      /\ x = "/" => a[l] = z
      /\ x # "/" => Len(a[l]) > e /\ a[l][e + 1] = x
  BY <1>6
<1>8. /\ y = "/" => b[l] = z
      /\ y # "/" => Len(b[l]) > e /\ b[l][e + 1] = y
  BY <1>6
<1>9. a[l] = b[l]
  <2>1. l \in 1..Len(a)
    BY ONLY <1>1, <1>2, <1>7
  <2> QED
    BY <2>1
<1> QED
  BY ONLY <1>5, <1>7, <1>8, <1>9

\* A text whose segments are the first ones of another text is in front of it.
LEMMA SamePieces ==
  ASSUME NEW u \in Seq(Token), NEW v \in Seq(Token),
         NEW f, NEW g, Cutting(u, Len(u), f), Cutting(v, Len(v), g),
         Len(f[Len(u)]) <= Len(g[Len(v)]),
         \A m \in 1..Len(f[Len(u)]) : f[Len(u)][m] = g[Len(v)][m]
  PROVE  Len(u) <= Len(v) /\ \A i \in 1..Len(u) : u[i] = v[i]
<1>1. PICK n \in Nat : n = Len(u)
  BY LenProperties
<1>2. PICK p \in Nat : p = Len(v)
  BY LenProperties
<1>3. /\ \A i \in 0..n : f[i] \in Segments /\ Len(f[i]) >= 1
      /\ \A i, j \in 0..n : i <= j => Extends(f[i], f[j])
  BY <1>1, CuttingGrows
<1>4. /\ \A i \in 0..p : g[i] \in Segments /\ Len(g[i]) >= 1
      /\ \A i, j \in 0..p : i <= j => Extends(g[i], g[j])
  BY <1>2, CuttingGrows
<1>5. PICK a \in Segments, b \in Segments : a = f[n] /\ b = g[p]
  <2>1. n \in 0..n /\ p \in 0..p
    OBVIOUS
  <2> QED
    BY <1>3, <1>4, <2>1
<1>6. Len(a) <= Len(b) /\ \A m \in 1..Len(a) : a[m] = b[m]
  BY ONLY <1>1, <1>2, <1>5, Len(f[Len(u)]) <= Len(g[Len(v)]),
          \A m \in 1..Len(f[Len(u)]) : f[Len(u)][m] = g[Len(v)][m]
<1> DEFINE Agree(k) == k <= n => k <= p /\ f[k] = g[k] /\ \A i \in 1..k : u[i] = v[i]
           T == {k \in Nat : Agree(k)}
<1>7. 0 \in T
  <2>1. f[0] = << <<>> >> /\ g[0] = << <<>> >>
    <3>1. 0 \in 0..n /\ 0 \in 0..p
      OBVIOUS
    <3> QED
      BY <3>1, <1>1, <1>2 DEF Cutting
  <2> QED
    BY <2>1
<1>8. ASSUME NEW k \in T PROVE k + 1 \in T
  <2>1. SUFFICES ASSUME k + 1 <= n
                 PROVE  k + 1 <= p /\ f[k + 1] = g[k + 1] /\ \A i \in 1..(k + 1) : u[i] = v[i]
    OBVIOUS
  <2>2. k \in Nat /\ k <= n /\ k <= p /\ f[k] = g[k] /\ \A i \in 1..k : u[i] = v[i]
    BY <1>8, <2>1
  <2> HIDE DEF T
  <2>3. PICK P \in Segments : P = f[k] /\ P = g[k] /\ Len(P) >= 1
    BY ONLY <2>2, <1>3, n \in Nat
  <2>4. PICK x \in Token : x = u[k + 1]
    <3>1. k + 1 \in 1..Len(u)
      BY <1>1, <2>1, <2>2
    <3> QED
      BY <3>1, ElementOfSeq
  <2>5. f[k + 1] = CutStep(P, x)
    BY ONLY <2>1, <2>2, <2>3, <2>4, <1>1, Cutting(u, Len(u), f), n \in Nat, CuttingStep
  <2>6. Extends(CutStep(P, x), a)
    <3>1. k + 1 \in 0..n /\ n \in 0..n /\ k + 1 <= n
      BY <2>1, <2>2
    <3> QED
      BY ONLY <3>1, <2>5, <1>3, <1>5
  <2>7. k # p
    <3>1. SUFFICES ASSUME k = p PROVE FALSE
      OBVIOUS
    <3>2. b = P
      BY ONLY <3>1, <2>3, <1>5
    <3>3. PICK l \in Nat : l = Len(P) /\ l >= 1
      BY <2>3, LenProperties DEF Segments
    <3>4. l \in 1..Len(P)
      BY <3>3
    <3>5. P[l] \in Seq(Token)
      BY <3>4, ElementOfSeq DEF Segments
    <3>6. Len(P[l]) \in Nat
      BY <3>5, LenProperties
    <3>7. PICK Q \in Segments : Q = CutStep(P, x)
      BY <2>3, CutStepIs
    <3>8. /\ x = "/" => Len(Q) = l + 1
          /\ x # "/" => Len(Q) = l /\ Len(Q[l]) = Len(P[l]) + 1
      <4>1. /\ x = "/" => Len(CutStep(P, x)) = Len(P) + 1
            /\ x # "/" => /\ Len(CutStep(P, x)) = Len(P)
                          /\ Len(CutStep(P, x)[Len(P)]) = Len(P[Len(P)]) + 1
        BY ONLY P \in Segments, <2>3, x \in Token, CutStepIs
      <4> QED
        BY ONLY <4>1, <3>3, <3>7
    <3>9. PICK q \in Nat : q = Len(Q)
      BY LenProperties DEF Segments
    <3>10. q <= Len(a) /\ Len(Q[q]) <= Len(a[q])
      BY ONLY <2>6, <3>7, <3>9 DEF Extends
    <3>11. Len(a) \in Nat
      BY LenProperties DEF Segments
    <3>12. x # "/" /\ q = l
      BY ONLY <3>2, <3>3, <3>8, <3>9, <3>10, <3>11, <1>6
    <3>13. a[l] = P[l]
      <4>1. l \in 1..Len(a)
        BY ONLY <3>3, <3>10, <3>11, <3>12
      <4> QED
        BY ONLY <4>1, <1>6, <3>2
    <3> QED
      BY ONLY <3>6, <3>8, <3>10, <3>12, <3>13
  <2>8. k + 1 <= p
    BY ONLY <2>2, <2>7, p \in Nat
  <2>9. PICK y \in Token : y = v[k + 1]
    <3>1. k + 1 \in 1..Len(v)
      BY <1>2, <2>8, <2>2
    <3> QED
      BY <3>1, ElementOfSeq
  <2>10. g[k + 1] = CutStep(P, y)
    BY ONLY <2>8, <2>2, <2>3, <2>9, <1>2, Cutting(v, Len(v), g), p \in Nat, CuttingStep
  <2>11. Extends(CutStep(P, y), b)
    <3>1. k + 1 \in 0..p /\ p \in 0..p /\ k + 1 <= p
      BY <2>8, <2>2
    <3> QED
      BY ONLY <3>1, <2>10, <1>4, <1>5
  <2>12. x = y
    BY ONLY P \in Segments, <2>3, x \in Token, y \in Token, a \in Segments, b \in Segments,
            <2>6, <2>11, <1>6, SameToken
  <2>13. \A i \in 1..(k + 1) : i \in 1..k \/ i = k + 1
    BY <2>2
  <2> QED
    BY ONLY <2>2, <2>4, <2>5, <2>8, <2>9, <2>10, <2>12, <2>13
<1>9. T = Nat
  <2> HIDE DEF T
  <2>1. T \subseteq Nat
    BY DEF T
  <2> QED
    BY <1>7, <1>8, <2>1, SetInduction
<1>10. Agree(n)
  BY <1>9
<1> QED
  BY <1>1, <1>2, <1>10

(***************************************************************************)
(* Matching.                                                               *)
(***************************************************************************)
\* One round of match, given what the later rounds make.
MatchStep(ps, rs, i, x) ==
  IF IsWildcard(ps[i]) THEN Match(Capture(<<>>, <<"*">>, Rest(rs, i)))
  ELSE IF i > Len(rs) THEN NoMatch
  ELSE IF IsParam(ps[i])
  THEN [x EXCEPT !.params = Capture(@, Tail(ps[i]), rs[i])]
  ELSE IF ps[i] = rs[i] THEN x ELSE NoMatch

MatchEnd(ps, rs) == IF Len(ps) = Len(rs) THEN Match(<<>>) ELSE NoMatch

\* The outcomes of match from each segment on.
Matches(ps, rs, f) ==
  f = [i \in 1..(Len(ps) + 1) |->
        IF i > Len(ps) THEN IF Len(ps) = Len(rs) THEN Match(<<>>) ELSE NoMatch
        ELSE IF IsWildcard(ps[i]) THEN Match(Capture(<<>>, <<"*">>, Rest(rs, i)))
        ELSE IF i > Len(rs) THEN NoMatch
        ELSE IF IsParam(ps[i])
        THEN [f[i + 1] EXCEPT !.params = Capture(@, Tail(ps[i]), rs[i])]
        ELSE IF ps[i] = rs[i] THEN f[i + 1] ELSE NoMatch]

\* There are such outcomes, for a pattern of any length.
LEMMA MatchesExist ==
  ASSUME NEW ps, NEW rs, Len(ps) \in Nat
  PROVE  \E f : Matches(ps, rs, f)
<1>1. PICK n \in Nat : n = Len(ps)
  OBVIOUS
<1> DEFINE e == n + 1
           Outcome(i, f) == IF i > n THEN MatchEnd(ps, rs) ELSE MatchStep(ps, rs, i, f[i + 1])
           From(k, f) == /\ f = [i \in (e - k)..e |-> f[i]]
                         /\ \A i \in (e - k)..e : f[i] = Outcome(i, f)
           T == {k \in Nat : k <= n => \E f : From(k, f)}
<1>2. 0 \in T
  <2> DEFINE h == [i \in (e - 0)..e |-> MatchEnd(ps, rs)]
  <2>1. \A i \in (e - 0)..e : i > n
    OBVIOUS
  <2>2. From(0, h)
    BY <2>1
  <2> QED
    BY <2>2
<1>3. ASSUME NEW k \in T PROVE k + 1 \in T
  <2>1. SUFFICES ASSUME k + 1 <= n PROVE \E f : From(k + 1, f)
    OBVIOUS
  <2>2. k \in Nat /\ k <= n
    BY <1>3, <2>1
  <2>3. PICK f : From(k, f)
    BY <1>3, <2>2
  <2>4. PICK j \in Nat : j = e - (k + 1) /\ j >= 1 /\ j + 1 = e - k /\ j <= n
    BY <2>1, <2>2
  <2> DEFINE h == [i \in j..e |-> IF i = j THEN MatchStep(ps, rs, j, f[j + 1]) ELSE f[i]]
  <2>5. ASSUME NEW i \in j..e PROVE h[i] = Outcome(i, h)
    <3>1. CASE i = j
      <4>1. ~ (i > n) /\ i + 1 \in j..e /\ i + 1 # j
        BY <2>4, <3>1
      <4>2. h[i] = MatchStep(ps, rs, j, f[j + 1]) /\ h[i + 1] = f[i + 1]
        BY <3>1, <4>1
      <4> QED
        BY <3>1, <4>1, <4>2
    <3>2. CASE i # j
      <4>1. i \in (e - k)..e /\ h[i] = f[i]
        BY <2>4, <3>2
      <4>2. f[i] = Outcome(i, f)
        BY <2>3, <4>1
      <4>3. CASE i > n
        BY <4>1, <4>2, <4>3
      <4>4. CASE ~ (i > n)
        <5>1. i + 1 \in j..e /\ i + 1 # j
          BY <2>4, <4>1, <4>4
        <5>2. h[i + 1] = f[i + 1]
          BY <5>1
        <5> QED
          BY <4>1, <4>2, <4>4, <5>2
      <4> QED
        BY <4>3, <4>4
    <3> QED
      BY <3>1, <3>2
  <2>6. From(k + 1, h)
    BY <2>4, <2>5
  <2> QED
    BY <2>6
<1>4. T = Nat
  <2> HIDE DEF T
  <2>1. T \subseteq Nat
    BY DEF T
  <2> QED
    BY <1>2, <1>3, <2>1, SetInduction
<1>5. PICK f : From(n, f)
  <2>1. n \in T
    BY ONLY <1>4, n \in Nat
  <2>2. \E f : From(n, f)
    BY ONLY <2>1, n \in Nat
  <2> QED
    BY <2>2
<1>6. e - n = 1
  OBVIOUS
<1>7. f = [i \in 1..e |-> Outcome(i, f)]
  BY ONLY <1>5, <1>6
<1>8. Matches(ps, rs, f)
  BY ONLY <1>1, <1>7 DEF Matches, MatchStep, MatchEnd
<1> QED
  BY <1>8

\* What matches has the literal segments at the front of the pattern.
LEMMA LiteralMatch ==
  ASSUME NEW pat, NEW text, match(pat, text).found,
         NEW ps \in Segments, NEW rs \in Segments, ps = split(pat), rs = split(text),
         NEW n \in Nat, n <= Len(ps),
         \A i \in 1..n : ~ IsParam(ps[i]) /\ ~ IsWildcard(ps[i])
  PROVE  n <= Len(rs) /\ \A i \in 1..n : ps[i] = rs[i]
<1>1. PICK l \in Nat, m \in Nat : l = Len(ps) /\ m = Len(rs)
  BY LenProperties DEF Segments
<1>2. PICK f : Matches(ps, rs, f) /\ match(pat, text) = f[1]
  <2> DEFINE g == CHOOSE f : Matches(split(pat), split(text), f)
  <2>1. Matches(split(pat), split(text), g)
    BY <1>1, MatchesExist
  <2>2. match(pat, text) = g[1]
    BY DEF match, Matches
  <2> QED
    BY <2>1, <2>2
<1> DEFINE T == {k \in Nat : k <= n => f[k + 1].found /\ \A i \in 1..k : i <= m /\ ps[i] = rs[i]}
<1>3. 0 \in T
  BY <1>2
<1>4. ASSUME NEW k \in T PROVE k + 1 \in T
  <2>1. SUFFICES ASSUME k + 1 <= n
                 PROVE  f[k + 2].found /\ \A i \in 1..(k + 1) : i <= m /\ ps[i] = rs[i]
    OBVIOUS
  <2>2. k \in Nat /\ f[k + 1].found /\ \A i \in 1..k : i <= m /\ ps[i] = rs[i]
    BY <1>4, <2>1
  <2> HIDE DEF T
  <2>3. k + 1 \in 1..(l + 1) /\ ~ (k + 1 > l) /\ (k + 1) + 1 = k + 2 /\ k + 1 \in 1..n
    BY <1>1, <2>1, <2>2
  <2>4. ~ IsParam(ps[k + 1]) /\ ~ IsWildcard(ps[k + 1])
    BY <2>3
  <2>5. f[k + 1] = IF k + 1 > m THEN NoMatch
                   ELSE IF ps[k + 1] = rs[k + 1] THEN f[k + 2] ELSE NoMatch
    BY ONLY <1>1, <1>2, <2>3, <2>4 DEF Matches
  <2>6. ~ NoMatch.found
    BY DEF NoMatch
  <2>7. ~ (k + 1 > m) /\ ps[k + 1] = rs[k + 1] /\ f[k + 2].found
    BY ONLY <2>2, <2>5, <2>6
  <2>8. \A i \in 1..(k + 1) : i \in 1..k \/ i = k + 1
    BY <2>2
  <2> QED
    BY ONLY <2>2, <2>7, <2>8, m \in Nat
<1>5. T = Nat
  <2> HIDE DEF T
  <2>1. T \subseteq Nat
    BY DEF T
  <2> QED
    BY <1>3, <1>4, <2>1, SetInduction
<1>6. \A i \in 1..n : i <= m /\ ps[i] = rs[i]
  <2>1. n \in T
    BY ONLY <1>5, n \in Nat
  <2> QED
    BY ONLY <2>1, n \in Nat
<1>7. n <= m
  <2>1. n = 0 \/ n \in 1..n
    OBVIOUS
  <2> QED
    BY <1>6, <2>1
<1> QED
  BY <1>1, <1>6, <1>7

\* Something is in what is not empty.
LEMMA NonEmpty ==
  ASSUME NEW S, NEW s \in Seq(S), s # <<>>
  PROVE  Len(s) \in Nat /\ Len(s) >= 1
<1> QED
  BY EmptySeq

\* Strip takes the first slash, and the last one if there is one.
LEMMA StripIs ==
  ASSUME NEW s \in Seq(Token)
  PROVE  /\ Strip(s) \in Seq(Token)
         /\ s # <<>> /\ Head(s) = "/" =>
              /\ Len(Strip(s)) <= Len(s) - 1
              /\ \A i \in 1..Len(Strip(s)) : Strip(s)[i] = s[i + 1]
              /\ Last(s) # "/" => Len(Strip(s)) = Len(s) - 1 /\ Strip(s) # <<>>
<1> DEFINE F == IF s # <<>> /\ Head(s) = "/" THEN Tail(s) ELSE s
<1>1. Len(s) \in Nat
  BY LenProperties
<1>2. F \in Seq(Token) /\ Len(F) \in Nat
  <2>1. CASE s # <<>> /\ Head(s) = "/"
    <3>1. Tail(s) \in Seq(Token)
      BY <2>1, HeadTailProperties
    <3> QED
      BY <2>1, <3>1, LenProperties
  <2>2. CASE ~ (s # <<>> /\ Head(s) = "/")
    BY <2>2, <1>1
  <2> QED
    BY <2>1, <2>2
<1>3. Strip(s) = IF F # <<>> /\ Last(F) = "/" THEN Front(F) ELSE F
  BY DEF Strip
<1>4. s # <<>> /\ Head(s) = "/" =>
        /\ Len(F) = Len(s) - 1
        /\ \A i \in 1..Len(F) : F[i] = s[i + 1]
  BY HeadTailProperties
<1> HIDE DEF F
<1>5. F # <<>> => /\ Front(F) \in Seq(Token) /\ Len(Front(F)) = Len(F) - 1
                  /\ \A i \in 1..(Len(F) - 1) : Front(F)[i] = F[i]
  <2>1. SUFFICES ASSUME F # <<>>
                 PROVE  /\ Front(F) \in Seq(Token) /\ Len(Front(F)) = Len(F) - 1
                        /\ \A i \in 1..(Len(F) - 1) : Front(F)[i] = F[i]
    OBVIOUS
  <2>2. PICK k \in Nat : k = Len(F) - 1 /\ k <= Len(F)
    <3>1. Len(F) \in Nat /\ Len(F) >= 1
      BY <1>2, <2>1, NonEmpty
    <3>2. Len(F) - 1 \in Nat /\ Len(F) - 1 <= Len(F)
      BY ONLY <3>1
    <3> QED
      BY ONLY <3>2
  <2>3. Front(F) = SubSeq(F, 1, k)
    BY <2>2 DEF Front
  <2>4. /\ SubSeq(F, 1, k) \in Seq(Token) /\ Len(SubSeq(F, 1, k)) = k
        /\ \A i \in 1..k : SubSeq(F, 1, k)[i] = F[i]
    BY ONLY <1>2, <2>2, FrontCut
  <2> QED
    BY ONLY <2>2, <2>3, <2>4
<1>6. /\ Strip(s) \in Seq(Token) /\ Len(Strip(s)) \in Nat
      /\ Len(Strip(s)) <= Len(F)
      /\ \A i \in 1..Len(Strip(s)) : Strip(s)[i] = F[i]
  <2>1. CASE F # <<>> /\ Last(F) = "/"
    <3>1. Strip(s) = Front(F)
      BY <1>3, <2>1
    <3>2. Len(Front(F)) \in Nat
      BY <1>5, <2>1, LenProperties
    <3> QED
      BY ONLY <1>2, <1>5, <2>1, <3>1, <3>2
  <2>2. CASE ~ (F # <<>> /\ Last(F) = "/")
    BY <1>2, <1>3, <2>2
  <2> QED
    BY <2>1, <2>2
<1>7. ASSUME s # <<>>, Head(s) = "/", Last(s) # "/"
      PROVE  Len(Strip(s)) = Len(s) - 1 /\ Strip(s) # <<>>
  <2>1. Len(s) # 1
    BY <1>7, <1>1 DEF Last
  <2>2. Len(s) >= 2
    <3>1. Len(s) \in Nat /\ Len(s) >= 1
      BY <1>7, NonEmpty
    <3>2. PICK n \in Nat : n = Len(s)
      BY <3>1
    <3>3. n >= 1 /\ n # 1
      BY ONLY <2>1, <3>1, <3>2
    <3>4. n >= 2
      BY ONLY <3>3, n \in Nat
    <3> QED
      BY ONLY <3>2, <3>4
  <2>3. Len(F) \in 1..Len(F) /\ Len(F) + 1 = Len(s)
    BY <1>1, <1>4, <1>7, <2>2
  <2>4. F[Len(F)] # "/"
    BY <1>4, <1>7, <2>3 DEF Last
  <2>5. Strip(s) = F
    BY <1>3, <2>4 DEF Last
  <2>6. F # <<>>
    BY <1>2, <2>3, EmptySeq
  <2> QED
    BY <1>1, <2>3, <2>5, <2>6
<1>8. ASSUME s # <<>>, Head(s) = "/"
      PROVE  /\ Len(Strip(s)) <= Len(s) - 1
             /\ \A i \in 1..Len(Strip(s)) : Strip(s)[i] = s[i + 1]
  <2>1. Len(F) = Len(s) - 1 /\ \A i \in 1..Len(F) : F[i] = s[i + 1]
    BY <1>4, <1>8
  <2>2. \A i \in 1..Len(Strip(s)) : i \in 1..Len(F)
    BY <1>2, <1>6
  <2> QED
    BY <1>6, <2>1, <2>2
<1> QED
  BY <1>6, <1>7, <1>8

\* Segments are texts.
LEMMA SplitType ==
  ASSUME NEW s \in Seq(Token)
  PROVE  /\ split(s) \in Segments
         /\ Strip(s) = <<>> => split(s) = <<>>
         /\ Strip(s) # <<>> => Len(split(s)) >= 1
<1>1. Strip(s) \in Seq(Token) /\ Len(Strip(s)) \in Nat
  BY StripIs, LenProperties
<1>2. CASE Strip(s) = <<>>
  <2>1. split(s) = <<>>
    BY <1>2 DEF split
  <2>2. <<>> \in Segments
    BY EmptySeq DEF Segments
  <2> QED
    BY <1>2, <2>1, <2>2
<1>3. CASE Strip(s) # <<>>
  <2>1. PICK f : Cutting(Strip(s), Len(Strip(s)), f) /\ split(s) = f[Len(Strip(s))]
    BY <1>1, <1>3, SplitIs
  <2>2. Len(Strip(s)) \in 0..Len(Strip(s))
    BY <1>1
  <2>3. split(s) \in Segments /\ Len(split(s)) >= 1
    BY <1>1, <2>1, <2>2, CuttingGrows
  <2> QED
    BY <1>3, <2>3
<1> QED
  BY <1>2, <1>3

\* A prefix of literal segments, with no slash at its end, is in front of every
\* path that matches a pattern below it.
LEMMA GuardsMatches ==
  ASSUME NEW p \in Seq(Token), NEW m \in Seq(Token), NEW q \in Seq(Token),
         p # <<>>, Head(p) = "/", m # <<>>, Head(m) = "/", Last(m) # "/",
         \A i \in 1..Len(split(m)) : ~ IsParam(split(m)[i]) /\ ~ IsWildcard(split(m)[i]),
         IsPrefix(split(m), split(q)), match(q, p).found
  PROVE  IsPrefix(m, p)
<1>1. PICK ms \in Segments, qs \in Segments, ps \in Segments :
        ms = split(m) /\ qs = split(q) /\ ps = split(p)
  BY SplitType
<1>2. PICK n \in Nat : n = Len(ms)
  BY LenProperties DEF Segments
<1>3. n <= Len(qs) /\ \A i \in 1..n : qs[i] = ms[i]
  <2>1. n <= Len(qs) /\ SubSeq(ms, 1, n) = SubSeq(qs, 1, n)
    BY <1>1, <1>2 DEF IsPrefix
  <2>2. \A i \in 1..n : SubSeq(ms, 1, n)[i] = ms[i]
    <3>1. n <= Len(ms)
      BY <1>2
    <3> QED
      BY <3>1, FrontCut DEF Segments
  <2>3. \A i \in 1..n : SubSeq(qs, 1, n)[i] = qs[i]
    BY <2>1, FrontCut DEF Segments
  <2> QED
    BY ONLY <2>1, <2>2, <2>3
<1>4. \A i \in 1..n : ~ IsParam(qs[i]) /\ ~ IsWildcard(qs[i])
  BY <1>1, <1>2, <1>3
<1>5. n <= Len(ps) /\ \A i \in 1..n : qs[i] = ps[i]
  <2>1. /\ split(q) \in Segments /\ split(p) \in Segments
        /\ n \in Nat /\ n <= Len(split(q)) /\ match(q, p).found
        /\ \A i \in 1..n : ~ IsParam(split(q)[i]) /\ ~ IsWildcard(split(q)[i])
    BY <1>1, <1>3, <1>4
  <2>2. n <= Len(split(p)) /\ \A i \in 1..n : split(q)[i] = split(p)[i]
    BY ONLY <2>1, LiteralMatch
  <2> QED
    BY ONLY <1>1, <2>2
<1>6. PICK u \in Seq(Token), v \in Seq(Token) : u = Strip(m) /\ v = Strip(p)
  BY StripIs
<1>7. PICK a \in Nat, b \in Nat : a = Len(u) /\ b = Len(v)
  BY LenProperties
<1>8. /\ u # <<>> /\ a = Len(m) - 1 /\ \A i \in 1..a : u[i] = m[i + 1]
  BY <1>6, <1>7, StripIs
<1>9. b <= Len(p) - 1 /\ \A i \in 1..b : v[i] = p[i + 1]
  BY <1>6, <1>7, StripIs
<1>10. n >= 1
  BY <1>1, <1>2, <1>6, <1>8, SplitType
<1>11. v # <<>>
  <2>1. SUFFICES ASSUME v = <<>> PROVE FALSE
    OBVIOUS
  <2>2. ps = <<>>
    BY <1>1, <1>6, <2>1, SplitType
  <2> QED
    BY <1>5, <1>10, <2>2
<1>12. PICK f : Cutting(u, a, f) /\ ms = f[a]
  BY <1>1, <1>6, <1>7, <1>8, SplitIs
<1>13. PICK g : Cutting(v, b, g) /\ ps = g[b]
  BY <1>1, <1>6, <1>7, <1>11, SplitIs
<1>14. a <= b /\ \A i \in 1..a : u[i] = v[i]
  <2>1. /\ Cutting(u, Len(u), f) /\ Cutting(v, Len(v), g)
        /\ Len(f[Len(u)]) <= Len(g[Len(v)])
        /\ \A i \in 1..Len(f[Len(u)]) : f[Len(u)][i] = g[Len(v)][i]
    BY ONLY <1>2, <1>3, <1>5, <1>7, <1>12, <1>13
  <2>2. Len(u) <= Len(v) /\ \A i \in 1..Len(u) : u[i] = v[i]
    BY ONLY <2>1, u \in Seq(Token), v \in Seq(Token), SamePieces
  <2> QED
    BY ONLY <1>7, <2>2
<1>15. PICK k \in Nat : k = Len(m) /\ k = a + 1 /\ k <= Len(p)
  <2>1. Len(m) \in Nat /\ Len(p) \in Nat
    BY LenProperties
  <2> QED
    BY <1>8, <1>9, <1>14, <2>1
<1>16. ASSUME NEW i \in 1..k PROVE m[i] = p[i]
  <2>1. CASE i = 1
    BY <2>1
  <2>2. CASE i # 1
    <3>1. i - 1 \in 1..a /\ i - 1 \in 1..b /\ (i - 1) + 1 = i
      BY <1>14, <1>15, <2>2
    <3> QED
      BY <1>8, <1>9, <1>14, <3>1
  <2> QED
    BY <2>1, <2>2
<1>17. SubSeq(m, 1, k) = SubSeq(p, 1, k)
  <2>1. /\ SubSeq(m, 1, k) \in Seq(Token) /\ Len(SubSeq(m, 1, k)) = k
        /\ \A i \in 1..k : SubSeq(m, 1, k)[i] = m[i]
    <3>1. k <= Len(m)
      BY <1>15
    <3> QED
      BY <3>1, FrontCut
  <2>2. /\ SubSeq(p, 1, k) \in Seq(Token) /\ Len(SubSeq(p, 1, k)) = k
        /\ \A i \in 1..k : SubSeq(p, 1, k)[i] = p[i]
    BY <1>15, FrontCut
  <2>3. \A i \in 1..k : SubSeq(m, 1, k)[i] = SubSeq(p, 1, k)[i]
    BY ONLY <1>16, <2>1, <2>2
  <2> QED
    BY ONLY <2>1, <2>2, <2>3, SeqEqual
<1> QED
  BY <1>15, <1>17 DEF IsPrefix

\* Every middleware that applies is collected.
LEMMA ActiveComplete ==
  ASSUME NEW table, NEW r, Len(table) \in Nat,
         NEW k \in 1..Len(table), IsPrefix(table[k], r.path)
  PROVE  \E i \in 1..Len(Active(table, r)) : Active(table, r)[i] = k
<1>1. PICK n \in Nat : n = Len(table)
  OBVIOUS
<1>2. PICK f : Rounds(table, r, n, f) /\ Active(table, r) = f[n]
  <2> DEFINE g == CHOOSE f : Rounds(table, r, n, f)
  <2>1. Rounds(table, r, n, g)
    BY RoundsExist
  <2>2. Active(table, r) = g[n]
    BY <1>1 DEF Active, Rounds
  <2> QED
    BY <2>1, <2>2
<1> DEFINE Held(j) == f[j] \in Seq(Nat) /\ (k <= j => \E i \in 1..Len(f[j]) : f[j][i] = k)
           T == {j \in Nat : j <= n => Held(j)}
<1>3. 0 \in T
  <2>1. f[0] = <<>>
    BY <1>2 DEF Rounds
  <2>2. <<>> \in Seq(Nat) /\ ~ (k <= 0)
    BY <1>1, EmptySeq
  <2> QED
    BY <2>1, <2>2
<1>4. ASSUME NEW j \in T PROVE j + 1 \in T
  <2>1. SUFFICES ASSUME j + 1 <= n PROVE Held(j + 1)
    OBVIOUS
  <2>2. j \in Nat /\ Held(j)
    BY <1>4, <2>1
  <2> HIDE DEF T
  <2>3. f[j + 1] = Round(table, r, j + 1, f[j])
    <3>1. j + 1 \in 0..n /\ j + 1 # 0 /\ (j + 1) - 1 = j
      BY <2>1, <2>2
    <3> QED
      BY ONLY <1>2, <2>2, <3>1, n \in Nat DEF Rounds, Round
  <2>4. PICK s \in Seq(Nat), m \in Nat : s = f[j] /\ m = Len(s)
    BY <2>2, LenProperties
  <2>5. CASE IsPrefix(table[j + 1], r.path)
    <3>1. f[j + 1] = Append(s, j + 1)
      BY ONLY <2>3, <2>4, <2>5 DEF Round
    <3>2. j + 1 \in Nat
      BY <2>2
    <3>3. /\ Append(s, j + 1) \in Seq(Nat) /\ Len(Append(s, j + 1)) = Len(s) + 1
          /\ \A i \in 1..Len(s) : Append(s, j + 1)[i] = s[i]
          /\ Append(s, j + 1)[Len(s) + 1] = j + 1
      BY ONLY <3>2, s \in Seq(Nat), AppendProperties
    <3>4. PICK t : t = f[j + 1]
      OBVIOUS
    <3>5. /\ t \in Seq(Nat) /\ Len(t) = m + 1
          /\ \A i \in 1..m : t[i] = s[i]
          /\ t[m + 1] = j + 1
      BY ONLY <3>1, <3>3, <3>4, <2>4
    <3>6. ASSUME k <= j + 1 PROVE \E i \in 1..(m + 1) : t[i] = k
      <4>1. CASE k = j + 1
        BY <3>5, <4>1
      <4>2. CASE k # j + 1
        <5>1. k <= j
          BY <1>1, <2>2, <3>6, <4>2
        <5>2. PICK i \in 1..m : s[i] = k
          BY ONLY <5>1, <2>2, <2>4
        <5>3. i \in 1..(m + 1) /\ t[i] = k
          BY <3>5, <5>2
        <5> QED
          BY <5>3
      <4> QED
        BY <4>1, <4>2
    <3> QED
      BY ONLY <3>4, <3>5, <3>6
  <2>6. CASE ~ IsPrefix(table[j + 1], r.path)
    <3>1. f[j + 1] = f[j]
      BY <2>3, <2>6 DEF Round
    <3>2. k # j + 1
      BY <2>6
    <3>3. k <= j + 1 => k <= j
      BY <1>1, <2>2, <3>2
    <3> QED
      BY ONLY <2>2, <3>1, <3>3
  <2> QED
    BY <2>5, <2>6
<1>5. T = Nat
  <2> HIDE DEF T
  <2>1. T \subseteq Nat
    BY DEF T
  <2> QED
    BY <1>3, <1>4, <2>1, SetInduction
<1>6. Held(n)
  <2>1. n \in T
    BY ONLY <1>5, n \in Nat
  <2> QED
    BY ONLY <2>1, n \in Nat
<1>7. k <= n
  BY <1>1
<1> QED
  BY ONLY <1>2, <1>6, <1>7

\* While a request is dispatched, its route is one that matches it.
Chosen ==
  Running => /\ matched \in 1..Len(routes_)
             /\ match(routes_[matched].pattern, request.path).found

\* Every step keeps that.
LEMMA ChosenStep == IInv /\ Chosen /\ [Next]_vars => Chosen'
<1> SUFFICES ASSUME IInv, Chosen, [Next]_vars PROVE Chosen'
  OBVIOUS
<1>1. CASE UNCHANGED <<routes_, phase, request, matched>>
  BY <1>1 DEF Chosen, Running
<1>2. CASE add \/ use
  BY <1>2 DEF add, use, Chosen, Running
<1>3. CASE dispatch
  <2>1. UNCHANGED routes_
    BY <1>3 DEF dispatch, tables
  <2>2. PICK r \in Requests :
          /\ request' = r
          /\ \/ phase' = "unmatched"
             \/ RouteOf(routes_, r) # 0 /\ matched' = RouteOf(routes_, r)
    BY <1>3 DEF dispatch
  <2>3. CASE phase' = "unmatched"
    BY <2>3 DEF Chosen, Running
  <2>4. CASE RouteOf(routes_, r) # 0 /\ matched' = RouteOf(routes_, r)
    <3>1. Len(routes_) \in Nat
      BY LenProperties DEF IInv, AreSequences
    <3>2. RouteOf(routes_, r) \in Matching(routes_, r)
      BY <2>4, <3>1, RouteIsFirst
    <3>3. /\ RouteOf(routes_, r) \in 1..Len(routes_)
          /\ match(routes_[RouteOf(routes_, r)].pattern, r.path).found
      BY ONLY <3>2, Zenon DEF Matching
    <3> QED
      BY ONLY <2>1, <2>2, <2>4, <3>3 DEF Chosen
  <2> QED
    BY <2>2, <2>3, <2>4
<1>4. CASE CallNext \/ Return \/ Throw
  <2>1. UNCHANGED <<routes_, request, matched>> /\ phase' \in {phase, "matched", "threw"}
    BY <1>4 DEF CallNext, Return, Throw, tables, chosen
  <2> QED
    BY <2>1 DEF Chosen, Running
<1>5. CASE UNCHANGED vars
  <2>1. UNCHANGED <<routes_, phase, request, matched>>
    BY <1>5 DEF vars
  <2> QED
    BY <2>1, <1>1
<1> QED
  BY <1>2, <1>3, <1>4, <1>5 DEF Next

\* A sequence that is not empty begins as its prefixes do.
LEMMA PrefixesHead ==
  ASSUME NEW p \in Seq(Token), NEW m \in Seq(Token), m # <<>>, IsPrefix(m, p)
  PROVE  p # <<>> /\ Head(p) = Head(m)
<1>1. PICK n \in Nat : n = Len(m) /\ n >= 1
  BY LenProperties, EmptySeq
<1>2. n <= Len(p) /\ SubSeq(m, 1, n) = SubSeq(p, 1, n)
  BY <1>1 DEF IsPrefix
<1>3. SubSeq(m, 1, n)[1] = m[1] /\ SubSeq(p, 1, n)[1] = p[1]
  BY <1>1, <1>2, FrontCut
<1>4. m[1] = p[1]
  BY ONLY <1>2, <1>3
<1>5. p # <<>>
  BY <1>1, <1>2
<1>6. Head(m) = m[1] /\ Head(p) = p[1]
  BY ONLY <1>5, HeadTailProperties, p \in Seq(Token), m \in Seq(Token), m # <<>>
<1> QED
  BY ONLY <1>4, <1>5, <1>6

\* Whatever the patterns, the prefixes and the paths: a middleware whose prefix
\* is whole literal segments is active for a request whose route lies below the
\* prefix exactly if the path begins with a slash.
THEOREM PrefixesGuard == Spec => []PrefixGuards
<1>1. Init => Chosen
  BY DEF Init, Chosen, Running
<1>2. ASSUME IInv, Chosen PROVE PrefixGuards
  <2>1. SUFFICES ASSUME Running,
                        NEW k \in 1..Len(middlewares_),
                        middlewares_[k] # <<>>, Head(middlewares_[k]) = "/",
                        Last(middlewares_[k]) # "/",
                        \A i \in 1..Len(split(middlewares_[k])) :
                          /\ ~ IsParam(split(middlewares_[k])[i])
                          /\ ~ IsWildcard(split(middlewares_[k])[i]),
                        IsPrefix(split(middlewares_[k]), split(routes_[matched].pattern))
                 PROVE  k \in ToSet(active) <=> request.path # <<>> /\ Head(request.path) = "/"
    BY DEF PrefixGuards
  <2>2. /\ matched \in 1..Len(routes_)
        /\ match(routes_[matched].pattern, request.path).found
    BY <1>2, <2>1 DEF Chosen
  <2>3. PICK p \in Seq(Token), m \in Seq(Token), q \in Seq(Token) :
          p = request.path /\ m = middlewares_[k] /\ q = routes_[matched].pattern
    <3>1. request \in Requests
      BY <1>2 DEF IInv, TypeOK
    <3>2. request.path \in Seq(STRING)
      BY <3>1, RouterAssumption
    <3>3. middlewares_[k] \in Guarded
      BY <1>2 DEF IInv, TypeOK
    <3>4. routes_[matched] \in [method : Methods, pattern : Patterns]
      BY <1>2, <2>2 DEF IInv, TypeOK
    <3>5. routes_[matched].pattern \in Patterns
      BY <3>4
    <3>6. middlewares_[k] \in Seq(STRING) /\ routes_[matched].pattern \in Seq(STRING)
      BY ONLY <3>3, <3>5, RouterAssumption
    <3>7. Seq(STRING) \subseteq Seq(Token)
      BY SeqMonotonic DEF Token
    <3> QED
      BY <3>2, <3>6, <3>7
  <2>4. /\ m # <<>> /\ Head(m) = "/" /\ Last(m) # "/"
        /\ \A i \in 1..Len(split(m)) : ~ IsParam(split(m)[i]) /\ ~ IsWildcard(split(m)[i])
        /\ IsPrefix(split(m), split(q)) /\ match(q, p).found
    BY ONLY <2>1, <2>2, <2>3
  <2>5. Len(middlewares_) \in Nat
    BY <1>2, LenProperties DEF IInv, AreSequences
  <2>6. active = Active(middlewares_, request) /\ active \in Seq(Nat)
    BY <1>2, <2>1 DEF IInv, Entering
  <2>7. DOMAIN active = 1..Len(active)
    BY <2>6, LenProperties
  <2>8. ASSUME p # <<>>, Head(p) = "/" PROVE k \in ToSet(active)
    <3>1. IsPrefix(m, p)
      BY ONLY <2>4, <2>8, p \in Seq(Token), m \in Seq(Token), q \in Seq(Token), GuardsMatches
    <3>2. PICK i \in 1..Len(active) : active[i] = k
      BY <2>3, <2>5, <2>6, <3>1, ActiveComplete
    <3> QED
      BY <2>7, <3>2 DEF ToSet
  <2>9. ASSUME k \in ToSet(active) PROVE p # <<>> /\ Head(p) = "/"
    <3>1. PICK i \in 1..Len(active) : active[i] = k
      BY <2>7, <2>9 DEF ToSet
    <3>2. Collected(middlewares_, request, Len(middlewares_), active)
      BY <2>5, <2>6, ActiveCollected
    <3>3. IsPrefix(m, p)
      BY <2>3, <3>1, <3>2 DEF Collected
    <3> QED
      BY ONLY <2>4, <3>3, p \in Seq(Token), m \in Seq(Token), PrefixesHead
  <2> QED
    BY <2>3, <2>8, <2>9
<1>3. IInv /\ Chosen /\ [Next]_vars => Chosen'
  BY ChosenStep
<1> QED
  BY <1>1, <1>2, <1>3, Invariance, PTL DEF Spec

(***************************************************************************)
(* match.  What split takes apart, Rest puts together again.               *)
(***************************************************************************)
\* FlattenSeq flattens.
LEMMA FlattenIs ==
  ASSUME NEW s, NEW n \in Nat, n = Len(s), n # 0
  PROVE  \E f : Flattening(s, n, f) /\ FlattenSeq(s) = f[n]
<1> DEFINE g == CHOOSE f : Flattening(s, n, f)
<1>1. Flattening(s, n, g)
  BY FlatteningExists
<1>2. FlattenSeq(s) = g[n]
  BY DEF FlattenSeq, Flattening
<1> QED
  BY <1>1, <1>2

\* The pieces that Rest puts together.
Pieces(s, i) ==
  [j \in 1..(Len(s) - i + 1) |-> IF j = 1 THEN s[i] ELSE <<"/">> \o s[i + j - 1]]

\* A slash is a text.
LEMMA SlashIs == <<"/">> \in Seq(Token) /\ Len(<<"/">>) = 1
<1>1. PICK x : x = "/"
  OBVIOUS
<1>2. x \in Token
  BY <1>1 DEF Token
<1>3. <<x>> \in Seq(Token) /\ Len(<<x>>) = 1
  BY ONLY <1>2
<1> QED
  BY <1>1, <1>3

\* They are texts, and so is what is flattened.
LEMMA PiecesFlatten ==
  ASSUME NEW s \in Segments, NEW n \in Nat, n = Len(s), NEW i \in 1..n
  PROVE  \E f : /\ Rest(s, i) = f[n - i + 1]
                /\ f[1] = s[i]
                /\ \A j \in 1..(n - i + 1) : f[j] \in Seq(Token)
                /\ \A j \in 1..(n - i) : f[j + 1] = f[j] \o (<<"/">> \o s[i + j])
<1>1. PICK m \in Nat : m = n - i + 1 /\ m >= 1
  OBVIOUS
<1>2. PICK g : g = Pieces(s, i)
  OBVIOUS
<1>3. Len(g) = m /\ g[1] = s[i] /\ \A j \in 1..m : j # 1 => g[j] = <<"/">> \o s[i + j - 1]
  BY <1>1, <1>2 DEF Pieces
<1>4. PICK f : Flattening(g, m, f) /\ FlattenSeq(g) = f[m]
  BY <1>1, <1>3, FlattenIs
<1>5. Rest(s, i) = f[m]
  BY <1>2, <1>4 DEF Rest, Pieces
<1>6. f[1] = s[i]
  BY <1>1, <1>3, <1>4 DEF Flattening
<1>7. ASSUME NEW j \in 1..(n - i) PROVE f[j + 1] = f[j] \o (<<"/">> \o s[i + j])
  <2>1. j + 1 \in 1..m /\ j + 1 # 1 /\ (j + 1) - 1 = j /\ i + (j + 1) - 1 = i + j
    BY <1>1
  <2>2. f[j + 1] = f[(j + 1) - 1] \o g[j + 1]
    BY ONLY <1>4, <2>1 DEF Flattening
  <2>3. g[j + 1] = <<"/">> \o s[i + (j + 1) - 1]
    BY ONLY <1>3, <2>1
  <2> QED
    BY <2>1, <2>2, <2>3
<1> DEFINE T == {k \in Nat : k + 1 <= m => f[k + 1] \in Seq(Token)}
<1>8. 0 \in T
  <2>1. s[i] \in Seq(Token)
    BY ElementOfSeq DEF Segments
  <2> QED
    BY <1>6, <2>1
<1>9. ASSUME NEW k \in T PROVE k + 1 \in T
  <2>1. SUFFICES ASSUME (k + 1) + 1 <= m PROVE f[(k + 1) + 1] \in Seq(Token)
    OBVIOUS
  <2>2. k + 1 \in 1..(n - i) /\ f[k + 1] \in Seq(Token) /\ i + (k + 1) \in 1..n
    BY <1>1, <2>1
  <2>3. f[(k + 1) + 1] = f[k + 1] \o (<<"/">> \o s[i + (k + 1)])
    BY <1>7, <2>2
  <2>4. s[i + (k + 1)] \in Seq(Token)
    BY <2>2, ElementOfSeq DEF Segments
  <2> HIDE DEF T
  <2> QED
    BY ONLY <2>2, <2>3, <2>4, SlashIs, ConcatProperties
<1>10. T = Nat
  <2> HIDE DEF T
  <2>1. T \subseteq Nat
    BY DEF T
  <2> QED
    BY <1>8, <1>9, <2>1, SetInduction
<1>11. ASSUME NEW j \in 1..m PROVE f[j] \in Seq(Token)
  <2>1. j - 1 \in Nat /\ (j - 1) + 1 = j /\ j <= m
    BY <1>1
  <2>2. j - 1 \in T
    BY ONLY <1>10, <2>1
  <2> QED
    BY ONLY <2>1, <2>2
<1> QED
  BY <1>1, <1>5, <1>6, <1>7, <1>11

\* Rest is the first segment, a slash and the rest.
LEMMA RestIs ==
  ASSUME NEW s \in Segments, NEW n \in Nat, n = Len(s), NEW i \in 1..n
  PROVE  /\ Rest(s, i) \in Seq(Token)
         /\ i = n => Rest(s, i) = s[i]
         /\ i < n => Rest(s, i) = s[i] \o (<<"/">> \o Rest(s, i + 1))
<1>1. PICK f : /\ Rest(s, i) = f[n - i + 1]
               /\ f[1] = s[i]
               /\ \A j \in 1..(n - i + 1) : f[j] \in Seq(Token)
               /\ \A j \in 1..(n - i) : f[j + 1] = f[j] \o (<<"/">> \o s[i + j])
  BY ONLY PiecesFlatten, s \in Segments, n \in Nat, n = Len(s), i \in 1..n
<1>2. Rest(s, i) \in Seq(Token)
  <2>1. n - i + 1 \in 1..(n - i + 1)
    OBVIOUS
  <2> QED
    BY <1>1, <2>1
<1>3. i = n => Rest(s, i) = s[i]
  <2>1. i = n => n - i + 1 = 1
    OBVIOUS
  <2> QED
    BY <1>1, <2>1
<1>4. ASSUME i < n PROVE Rest(s, i) = s[i] \o (<<"/">> \o Rest(s, i + 1))
  <2>1. i + 1 \in 1..n /\ n - (i + 1) + 1 = n - i /\ n - (i + 1) \in Nat
    BY <1>4
  <2>2. PICK k \in Nat : k = n - (i + 1)
    BY <2>1
  <2>3. PICK g : /\ Rest(s, i + 1) = g[n - (i + 1) + 1]
                 /\ g[1] = s[i + 1]
                 /\ \A j \in 1..(n - (i + 1) + 1) : g[j] \in Seq(Token)
                 /\ \A j \in 1..(n - (i + 1)) : g[j + 1] = g[j] \o (<<"/">> \o s[(i + 1) + j])
    BY ONLY <2>1, PiecesFlatten, s \in Segments, n \in Nat, n = Len(s)
  <2>4. PICK a : a = s[i]
    OBVIOUS
  <2>5. a \in Seq(Token)
    BY <2>4, ElementOfSeq DEF Segments
  <2> DEFINE T == {j \in Nat : j <= k => f[j + 2] = a \o (<<"/">> \o g[j + 1])}
  <2>6. 0 \in T
    <3>1. 1 \in 1..(n - i)
      BY <1>4
    <3>2. f[1 + 1] = f[1] \o (<<"/">> \o s[i + 1])
      BY ONLY <1>1, <3>1
    <3>3. 0 + 2 = 1 + 1 /\ 0 + 1 = 1
      OBVIOUS
    <3>4. f[0 + 2] = a \o (<<"/">> \o g[0 + 1])
      BY ONLY <1>1, <2>3, <2>4, <3>2, <3>3
    <3> QED
      BY <3>4
  <2>7. ASSUME NEW j \in T PROVE j + 1 \in T
    <3>1. SUFFICES ASSUME j + 1 <= k PROVE f[(j + 1) + 2] = a \o (<<"/">> \o g[(j + 1) + 1])
      OBVIOUS
    <3>2. j \in Nat /\ f[j + 2] = a \o (<<"/">> \o g[j + 1])
      BY <2>2, <3>1
    <3> HIDE DEF T
    <3>3. /\ j + 2 \in 1..(n - i) /\ (j + 2) + 1 = (j + 1) + 2 /\ j + 1 \in 1..(n - (i + 1))
          /\ j + 1 \in 1..(n - (i + 1) + 1) /\ i + (j + 2) = (i + 1) + (j + 1) /\ i + (j + 2) \in 1..n
      BY <2>2, <3>1, <3>2
    <3>4. PICK z : z = <<"/">> \o s[i + (j + 2)]
      OBVIOUS
    <3>5. f[(j + 1) + 2] = f[j + 2] \o z
      BY ONLY <1>1, <3>3, <3>4
    <3>6. g[(j + 1) + 1] = g[j + 1] \o z
      BY ONLY <2>3, <3>3, <3>4
    <3>7. z \in Seq(Token)
      <4>1. s[i + (j + 2)] \in Seq(Token)
        BY <3>3, ElementOfSeq DEF Segments
      <4> QED
        BY ONLY <3>4, <4>1, SlashIs, ConcatProperties
    <3>8. PICK b \in Seq(Token) : b = g[j + 1]
      BY ONLY <2>3, <3>3
    <3>9. (a \o (<<"/">> \o b)) \o z = a \o (<<"/">> \o (b \o z))
      <4>1. <<"/">> \o b \in Seq(Token)
        BY ONLY <3>8, SlashIs, ConcatProperties, b \in Seq(Token)
      <4>2. (a \o (<<"/">> \o b)) \o z = a \o ((<<"/">> \o b) \o z)
        BY ONLY <4>1, <2>5, <3>7, ConcatAssociative
      <4>3. (<<"/">> \o b) \o z = <<"/">> \o (b \o z)
        BY ONLY SlashIs, b \in Seq(Token), <3>7, ConcatAssociative
      <4> QED
        BY ONLY <4>2, <4>3
    <3> QED
      BY ONLY <3>2, <3>5, <3>6, <3>8, <3>9
  <2>8. T = Nat
    <3> HIDE DEF T
    <3>1. T \subseteq Nat
      BY DEF T
    <3> QED
      BY <2>6, <2>7, <3>1, SetInduction
  <2>9. f[k + 2] = a \o (<<"/">> \o g[k + 1])
    <3>1. k \in T
      BY ONLY <2>8, k \in Nat
    <3> QED
      BY ONLY <3>1, k \in Nat
  <2>10. k + 2 = n - i + 1 /\ k + 1 = n - (i + 1) + 1
    BY <2>2
  <2> QED
    BY ONLY <1>1, <2>3, <2>4, <2>9, <2>10
<1> QED
  BY <1>2, <1>3, <1>4

\* Of segments that differ only from the l-th on, the rests differ only there.
LEMMA RestGrows ==
  ASSUME NEW P \in Segments, NEW Q \in Segments, NEW l \in Nat, l >= 1,
         l <= Len(P), l <= Len(Q), \A i \in 1..(l - 1) : P[i] = Q[i],
         NEW z \in Seq(Token), Rest(Q, l) = Rest(P, l) \o z
  PROVE  Rest(Q, 1) = Rest(P, 1) \o z
<1>1. PICK p \in Nat, q \in Nat : p = Len(P) /\ q = Len(Q)
  BY LenProperties DEF Segments
<1> DEFINE T == {k \in Nat : k < l => Rest(Q, l - k) = Rest(P, l - k) \o z}
<1>2. 0 \in T
  <2>1. l - 0 = l
    OBVIOUS
  <2> QED
    BY <2>1
<1>3. ASSUME NEW k \in T PROVE k + 1 \in T
  <2>1. SUFFICES ASSUME k + 1 < l PROVE Rest(Q, l - (k + 1)) = Rest(P, l - (k + 1)) \o z
    OBVIOUS
  <2>2. k \in Nat /\ Rest(Q, l - k) = Rest(P, l - k) \o z
    BY <2>1
  <2> HIDE DEF T
  <2>3. PICK i \in Nat : i = l - (k + 1)
    BY <2>1, <2>2
  <2>4. /\ i \in 1..p /\ i \in 1..q /\ i < p /\ i < q /\ i \in 1..(l - 1) /\ i + 1 = l - k
        /\ i + 1 \in 1..p
    BY <1>1, <2>1, <2>2, <2>3
  <2>5. Rest(Q, i) = Q[i] \o (<<"/">> \o Rest(Q, i + 1))
    BY ONLY <1>1, <2>4, RestIs, Q \in Segments, q \in Nat
  <2>6. Rest(P, i) = P[i] \o (<<"/">> \o Rest(P, i + 1))
    BY ONLY <1>1, <2>4, RestIs, P \in Segments, p \in Nat
  <2>7. PICK a \in Seq(Token) : a = P[i]
    BY <1>1, <2>4, ElementOfSeq DEF Segments
  <2>8. PICK b \in Seq(Token) : b = Rest(P, i + 1)
    <3>1. Rest(P, i + 1) \in Seq(Token)
      BY ONLY <1>1, <2>4, RestIs, P \in Segments, p \in Nat
    <3> QED
      BY <3>1
  <2>9. a \o (<<"/">> \o (b \o z)) = (a \o (<<"/">> \o b)) \o z
    <3>1. <<"/">> \o b \in Seq(Token)
      BY ONLY SlashIs, ConcatProperties, b \in Seq(Token)
    <3>2. (a \o (<<"/">> \o b)) \o z = a \o ((<<"/">> \o b) \o z)
      BY ONLY <3>1, a \in Seq(Token), z \in Seq(Token), ConcatAssociative
    <3>3. (<<"/">> \o b) \o z = <<"/">> \o (b \o z)
      BY ONLY SlashIs, b \in Seq(Token), z \in Seq(Token), ConcatAssociative
    <3> QED
      BY ONLY <3>2, <3>3
  <2>10. Q[i] = P[i]
    BY <2>4
  <2>11. Rest(Q, i + 1) = Rest(P, i + 1) \o z
    BY <2>2, <2>4
  <2> QED
    BY ONLY <2>3, <2>5, <2>6, <2>7, <2>8, <2>9, <2>10, <2>11
<1>4. T = Nat
  <2> HIDE DEF T
  <2>1. T \subseteq Nat
    BY DEF T
  <2> QED
    BY <1>2, <1>3, <2>1, SetInduction
<1>5. l - 1 \in T /\ l - 1 < l /\ l - (l - 1) = 1
  <2>1. l - 1 \in Nat /\ l - 1 < l /\ l - (l - 1) = 1
    OBVIOUS
  <2> QED
    BY ONLY <1>4, <2>1
<1> QED
  BY ONLY <1>5

\* One round of split adds its token to what Rest gives.
LEMMA RestOfStep ==
  ASSUME NEW P \in Segments, Len(P) >= 1, NEW x \in Token
  PROVE  Rest(CutStep(P, x), 1) = Rest(P, 1) \o <<x>>
<1>1. PICK l \in Nat : l = Len(P) /\ l >= 1
  BY LenProperties DEF Segments
<1>2. PICK Q : Q = CutStep(P, x)
  OBVIOUS
<1>3. /\ Q \in Segments /\ Extends(P, Q)
      /\ x = "/" => Len(Q) = l + 1 /\ Q[l] = P[l]
      /\ x # "/" => Len(Q) = l
  BY <1>1, <1>2, CutStepIs
<1>4. \A i \in 1..(l - 1) : P[i] = Q[i]
  BY <1>1, <1>3 DEF Extends
<1>5. PICK a \in Seq(Token) : a = P[l]
  <2>1. l \in 1..Len(P)
    BY <1>1
  <2> QED
    BY <2>1, ElementOfSeq DEF Segments
<1>6. <<x>> \in Seq(Token)
  OBVIOUS
<1>7. Rest(P, l) = a
  <2>1. l \in 1..l
    BY <1>1
  <2> QED
    BY ONLY <1>1, <1>5, <2>1, RestIs, l \in Nat, P \in Segments
<1>8. Rest(Q, l) = a \o <<x>> /\ l <= Len(Q)
  <2>1. CASE x = "/"
    <3>1. Len(Q) = l + 1 /\ Q[l] = a /\ l + 1 \in Nat /\ l \in 1..(l + 1) /\ l + 1 \in 1..(l + 1) /\ l < l + 1
      BY <1>1, <1>3, <1>5, <2>1
    <3>2. Q[l + 1] = <<>>
      <4>1. Q = Append(P, <<>>)
        BY <1>2, <2>1 DEF CutStep
      <4>2. <<>> \in Seq(Token)
        BY EmptySeq
      <4>3. Append(P, <<>>)[Len(P) + 1] = <<>>
        BY ONLY <4>2, P \in Segments, AppendProperties DEF Segments
      <4> QED
        BY ONLY <1>1, <4>1, <4>3
    <3>3. Rest(Q, l + 1) = <<>>
      BY ONLY <1>3, <3>1, <3>2, RestIs
    <3>4. Rest(Q, l) = a \o (<<"/">> \o <<>>)
      <4>1. Rest(Q, l) = Q[l] \o (<<"/">> \o Rest(Q, l + 1))
        BY ONLY <1>3, <3>1, RestIs
      <4> QED
        BY ONLY <3>1, <3>3, <4>1
    <3>5. <<"/">> \o <<>> = <<"/">>
      BY ONLY SlashIs, ConcatEmptySeq
    <3> QED
      BY <1>1, <2>1, <3>1, <3>4, <3>5
  <2>2. CASE x # "/"
    <3>1. Len(Q) = l /\ l \in 1..l
      BY <1>1, <1>3, <2>2
    <3>2. Q[l] = Append(a, x)
      <4>1. Q = [P EXCEPT ![l] = Append(a, x)]
        BY <1>1, <1>2, <1>5, <2>2 DEF CutStep
      <4>2. l \in DOMAIN P
        BY <1>1, LenProperties DEF Segments
      <4> QED
        BY ONLY <4>1, <4>2
    <3>3. Append(a, x) = a \o <<x>>
      BY ONLY AppendIsConcat, a \in Seq(Token), x \in Token
    <3>4. Rest(Q, l) = Q[l]
      BY ONLY <1>3, <3>1, RestIs, l \in Nat
    <3> QED
      BY ONLY <3>1, <3>2, <3>3, <3>4, l \in Nat
  <2> QED
    BY <2>1, <2>2
<1>9. Rest(Q, 1) = Rest(P, 1) \o <<x>>
  <2>1. l \in Nat /\ l >= 1 /\ l <= Len(P) /\ l <= Len(Q) /\ Rest(Q, l) = Rest(P, l) \o <<x>>
    BY <1>1, <1>7, <1>8
  <2> QED
    BY ONLY <2>1, <1>3, <1>4, <1>6, P \in Segments, RestGrows
<1> QED
  BY <1>2, <1>9

\* What split takes apart, Rest puts together again.
LEMMA RestOfSplit ==
  ASSUME NEW s \in Seq(Token)
  PROVE  Rest(split(s), 1) = Strip(s)
<1>1. PICK t : t = Strip(s)
  OBVIOUS
<1>2. t \in Seq(Token)
  BY <1>1, StripIs
<1>3. PICK n \in Nat : n = Len(t)
  BY <1>2, LenProperties
<1>4. CASE t = <<>>
  <2>1. split(s) = <<>>
    BY <1>1, <1>4, SplitType
  <2>2. PICK g : g = Pieces(<<>>, 1)
    OBVIOUS
  <2>3. Len(<<>>) - 1 + 1 = 0
    OBVIOUS
  <2>4. g = <<>> /\ Len(g) = 0
    BY <2>2, <2>3 DEF Pieces
  <2>5. Rest(<<>>, 1) = FlattenSeq(g)
    BY <2>2 DEF Rest, Pieces
  <2> QED
    BY <1>1, <1>4, <2>1, <2>4, <2>5 DEF FlattenSeq
<1>5. CASE t # <<>>
  <2>1. PICK f : Cutting(t, n, f) /\ split(s) = f[n]
    BY <1>1, <1>3, <1>5, SplitIs
  <2>2. \A i \in 0..n : f[i] \in Segments /\ Len(f[i]) >= 1
    BY <1>2, <1>3, <2>1, CuttingGrows
  <2> DEFINE T == {k \in Nat : k <= n => Rest(f[k], 1) = SubSeq(t, 1, k)}
  <2>3. 0 \in T
    <3>1. f[0] = << <<>> >>
      BY <2>1 DEF Cutting
    <3>2. f[0] \in Segments /\ Len(f[0]) = 1 /\ f[0][1] = <<>>
      BY <2>2, <3>1
    <3>3. Rest(f[0], 1) = <<>>
      <4>1. 1 \in 1..1 /\ 1 \in Nat
        OBVIOUS
      <4> QED
        BY ONLY <3>2, <4>1, RestIs
    <3>4. SubSeq(t, 1, 0) = <<>>
      BY SubSeqEmpty
    <3> QED
      BY <3>3, <3>4
  <2>4. ASSUME NEW k \in T PROVE k + 1 \in T
    <3>1. SUFFICES ASSUME k + 1 <= n PROVE Rest(f[k + 1], 1) = SubSeq(t, 1, k + 1)
      OBVIOUS
    <3>2. k \in Nat /\ Rest(f[k], 1) = SubSeq(t, 1, k)
      BY <3>1
    <3> HIDE DEF T
    <3>3. k \in 0..n /\ k + 1 \in 1..n /\ k + 1 <= n /\ 1 \in 1..n /\ (k + 1) - 1 = k
      BY <3>1, <3>2
    <3>4. f[k + 1] = CutStep(f[k], t[k + 1])
      BY ONLY <2>1, <3>2, <3>3, n \in Nat, CuttingStep
    <3>5. t[k + 1] \in Token
      BY ONLY <1>2, <1>3, <3>3, ElementOfSeq
    <3>6. Rest(f[k + 1], 1) = SubSeq(t, 1, k) \o <<t[k + 1]>>
      BY ONLY <2>2, <3>2, <3>3, <3>4, <3>5, RestOfStep
    <3>7. SubSeq(t, 1, k + 1) = SubSeq(t, 1, (k + 1) - 1) \o <<t[k + 1]>>
      BY ONLY <1>2, <1>3, <3>3, SubSeqRecursiveSecond
    <3> QED
      BY ONLY <3>3, <3>6, <3>7
  <2>5. T = Nat
    <3> HIDE DEF T
    <3>1. T \subseteq Nat
      BY DEF T
    <3> QED
      BY <2>3, <2>4, <3>1, SetInduction
  <2>6. Rest(f[n], 1) = SubSeq(t, 1, n)
    <3>1. n \in T
      BY ONLY <2>5, n \in Nat
    <3> QED
      BY ONLY <3>1, n \in Nat
  <2>7. SubSeq(t, 1, n) = t
    BY <1>2, <1>3, SubSeqFull
  <2> QED
    BY <1>1, <2>1, <2>6, <2>7
<1> QED
  BY <1>4, <1>5

(***************************************************************************)
(* What match computes, for a pattern ps of which the first b segments     *)
(* come before its wildcard.                                               *)
(***************************************************************************)
Until(ps, b) ==
  /\ b \in 0..Len(ps)
  /\ \A i \in 1..b : ~ IsWildcard(ps[i])
  /\ b < Len(ps) => IsWildcard(ps[b + 1])

\* No two captured values have the same name.
OneEach(ps, b) ==
  \A i \in 1..b :
    IsParam(ps[i]) => /\ \A j \in 1..b : IsParam(ps[j]) /\ Tail(ps[i]) = Tail(ps[j]) => i = j
                      /\ b < Len(ps) => Tail(ps[i]) # <<"*">>

\* The path has a segment for each of the pattern's, from the i-th on.
Fits(ps, rs, b, i) ==
  /\ \A j \in i..b : j <= Len(rs) /\ (IsParam(ps[j]) \/ ps[j] = rs[j])
  /\ b = Len(ps) => Len(rs) = b

\* p has the values of these segments, by their names.
Captures(ps, rs, b, i, p) ==
  /\ DOMAIN p \subseteq {Tail(ps[j]) : j \in {k \in i..b : IsParam(ps[k])}}
                        \cup (IF b < Len(ps) THEN {<<"*">>} ELSE {})
  /\ \A j \in i..b : IsParam(ps[j]) => Tail(ps[j]) \in DOMAIN p /\ p[Tail(ps[j])] = rs[j]
  /\ b < Len(ps) => <<"*">> \in DOMAIN p /\ p[<<"*">>] = Rest(rs, b + 1)

Found(x, ps, rs, b, i) ==
  \E g \in BOOLEAN : \E p :
    /\ x = [found |-> g, params |-> p]
    /\ g <=> Fits(ps, rs, b, i)
    /\ g => Captures(ps, rs, b, i, p)

\* One more captured value.
LEMMA CaptureIs ==
  ASSUME NEW p, NEW n, NEW v
  PROVE  /\ DOMAIN Capture(p, n, v) = DOMAIN p \cup {n}
         /\ \A x \in DOMAIN p : Capture(p, n, v)[x] = p[x]
         /\ n \notin DOMAIN p => Capture(p, n, v)[n] = v
  BY DEF Capture

\* Behind the pattern's segments, or at its wildcard.
LEMMA FoundAtEnd ==
  ASSUME NEW ps, NEW rs, Len(ps) \in Nat, Len(rs) \in Nat, NEW f, Matches(ps, rs, f),
         NEW b \in Nat, Until(ps, b)
  PROVE  Found(f[b + 1], ps, rs, b, b + 1)
<1>1. PICK l \in Nat, m \in Nat : l = Len(ps) /\ m = Len(rs)
  OBVIOUS
<1>2. b <= l /\ b + 1 \in 1..(l + 1) /\ (b + 1)..b = {}
  BY <1>1 DEF Until
<1>3. CASE b = l
  <2>1. b + 1 > l
    BY <1>3
  <2>2. f[b + 1] = IF l = m THEN Match(<<>>) ELSE NoMatch
    BY ONLY <1>1, <1>2, <2>1, Matches(ps, rs, f) DEF Matches
  <2>3. PICK g \in BOOLEAN : g <=> l = m
    OBVIOUS
  <2>4. f[b + 1] = [found |-> g, params |-> <<>>]
    BY <2>2, <2>3 DEF Match, NoMatch
  <2>5. g <=> Fits(ps, rs, b, b + 1)
    BY <1>1, <1>2, <1>3, <2>3 DEF Fits
  <2>6. Captures(ps, rs, b, b + 1, <<>>)
    BY <1>1, <1>2, <1>3 DEF Captures
  <2> QED
    BY <2>4, <2>5, <2>6 DEF Found
<1>4. CASE b < l
  <2>1. ~ (b + 1 > l) /\ IsWildcard(ps[b + 1])
    BY <1>1, <1>2, <1>4 DEF Until
  <2>2. f[b + 1] = Match(Capture(<<>>, <<"*">>, Rest(rs, b + 1)))
    BY ONLY <1>1, <1>2, <2>1, Matches(ps, rs, f) DEF Matches
  <2>3. PICK p : p = Capture(<<>>, <<"*">>, Rest(rs, b + 1))
    OBVIOUS
  <2>4. f[b + 1] = [found |-> TRUE, params |-> p]
    BY <2>2, <2>3 DEF Match
  <2>5. Fits(ps, rs, b, b + 1)
    BY <1>1, <1>2, <1>4 DEF Fits
  <2>6. DOMAIN p = {<<"*">>} /\ p[<<"*">>] = Rest(rs, b + 1)
    BY <2>3 DEF Capture
  <2>7. Captures(ps, rs, b, b + 1, p)
    BY <1>1, <1>2, <1>4, <2>6 DEF Captures
  <2> QED
    BY <2>4, <2>5, <2>7 DEF Found
<1> QED
  BY <1>2, <1>3, <1>4

\* One segment of the pattern.
LEMMA FoundBefore ==
  ASSUME NEW ps, NEW rs, Len(ps) \in Nat, Len(rs) \in Nat, NEW f, Matches(ps, rs, f),
         NEW b \in Nat, Until(ps, b), OneEach(ps, b),
         NEW i \in 1..b, Found(f[i + 1], ps, rs, b, i + 1)
  PROVE  Found(f[i], ps, rs, b, i)
<1>1. PICK l \in Nat, m \in Nat : l = Len(ps) /\ m = Len(rs)
  OBVIOUS
<1>2. /\ b <= l /\ i \in 1..(l + 1) /\ ~ (i > l) /\ i \in i..b
      /\ (\A j \in i..b : j = i \/ j \in (i + 1)..b) /\ (\A j \in (i + 1)..b : j \in i..b)
  BY <1>1 DEF Until
<1>3. ~ IsWildcard(ps[i])
  BY DEF Until
<1>4. f[i] = IF i > m THEN NoMatch
             ELSE IF IsParam(ps[i])
             THEN [f[i + 1] EXCEPT !.params = Capture(f[i + 1].params, Tail(ps[i]), rs[i])]
             ELSE IF ps[i] = rs[i] THEN f[i + 1] ELSE NoMatch
  BY ONLY <1>1, <1>2, <1>3, Matches(ps, rs, f) DEF Matches
<1>5. PICK g \in BOOLEAN : \E p :
        /\ f[i + 1] = [found |-> g, params |-> p]
        /\ g <=> Fits(ps, rs, b, i + 1)
        /\ g => Captures(ps, rs, b, i + 1, p)
  BY DEF Found
<1>6. PICK p : /\ f[i + 1] = [found |-> g, params |-> p]
               /\ g <=> Fits(ps, rs, b, i + 1)
               /\ g => Captures(ps, rs, b, i + 1, p)
  BY <1>5
<1>7. Fits(ps, rs, b, i) <=> Fits(ps, rs, b, i + 1) /\ i <= m /\ (IsParam(ps[i]) \/ ps[i] = rs[i])
  BY ONLY <1>1, <1>2 DEF Fits
<1>8. ASSUME ~ Fits(ps, rs, b, i), f[i] = NoMatch PROVE Found(f[i], ps, rs, b, i)
  BY <1>8 DEF Found, NoMatch
<1>9. CASE i > m
  BY <1>4, <1>7, <1>8, <1>9
<1>10. CASE ~ (i > m) /\ IsParam(ps[i])
  <2>1. PICK n, q : n = Tail(ps[i]) /\ q = Capture(p, n, rs[i])
    OBVIOUS
  <2>2. f[i] = [found |-> g, params |-> q]
    <3>1. f[i + 1].params = p
      BY <1>6
    <3>2. f[i] = [f[i + 1] EXCEPT !.params = q]
      BY ONLY <1>4, <1>10, <2>1, <3>1
    <3> QED
      BY ONLY <1>6, <3>2
  <2>3. g <=> Fits(ps, rs, b, i)
    BY <1>1, <1>6, <1>7, <1>10
  <2>4. ASSUME g PROVE Captures(ps, rs, b, i, q)
    <3>1. /\ DOMAIN p \subseteq {Tail(ps[j]) : j \in {k \in (i + 1)..b : IsParam(ps[k])}}
                                \cup (IF b < Len(ps) THEN {<<"*">>} ELSE {})
          /\ \A j \in (i + 1)..b :
               IsParam(ps[j]) => Tail(ps[j]) \in DOMAIN p /\ p[Tail(ps[j])] = rs[j]
          /\ b < Len(ps) => <<"*">> \in DOMAIN p /\ p[<<"*">>] = Rest(rs, b + 1)
      BY <1>6, <2>4 DEF Captures
    <3>2. n \notin DOMAIN p
      <4>1. \A j \in 1..b : IsParam(ps[j]) /\ n = Tail(ps[j]) => i = j
        BY <1>10, <2>1 DEF OneEach
      <4>2. b < Len(ps) => n # <<"*">>
        BY <1>10, <2>1 DEF OneEach
      <4>3. \A j \in (i + 1)..b : j \in 1..b /\ i # j
        OBVIOUS
      <4>4. n \notin {Tail(ps[j]) : j \in {k \in (i + 1)..b : IsParam(ps[k])}}
        BY ONLY <4>1, <4>3
      <4> QED
        BY ONLY <3>1, <4>2, <4>4
    <3>3. /\ DOMAIN q = DOMAIN p \cup {n}
          /\ \A x \in DOMAIN p : q[x] = p[x]
          /\ q[n] = rs[i]
      <4>1. /\ DOMAIN Capture(p, n, rs[i]) = DOMAIN p \cup {n}
            /\ \A x \in DOMAIN p : Capture(p, n, rs[i])[x] = p[x]
            /\ n \notin DOMAIN p => Capture(p, n, rs[i])[n] = rs[i]
        BY ONLY CaptureIs
      <4> QED
        BY ONLY <2>1, <3>2, <4>1
    <3>4. DOMAIN q \subseteq {Tail(ps[j]) : j \in {k \in i..b : IsParam(ps[k])}}
                             \cup (IF b < Len(ps) THEN {<<"*">>} ELSE {})
      <4>1. n \in {Tail(ps[j]) : j \in {k \in i..b : IsParam(ps[k])}}
        BY ONLY <1>2, <1>10, <2>1
      <4>2. {Tail(ps[j]) : j \in {k \in (i + 1)..b : IsParam(ps[k])}}
              \subseteq {Tail(ps[j]) : j \in {k \in i..b : IsParam(ps[k])}}
        BY ONLY <1>2
      <4> QED
        BY ONLY <3>1, <3>3, <4>1, <4>2
    <3>5. \A j \in i..b : IsParam(ps[j]) => Tail(ps[j]) \in DOMAIN q /\ q[Tail(ps[j])] = rs[j]
      BY ONLY <1>2, <2>1, <3>1, <3>3
    <3>6. b < Len(ps) => <<"*">> \in DOMAIN q /\ q[<<"*">>] = Rest(rs, b + 1)
      BY ONLY <3>1, <3>3
    <3> QED
      BY ONLY <3>4, <3>5, <3>6 DEF Captures
  <2> QED
    BY <2>2, <2>3, <2>4 DEF Found
<1>11. CASE ~ (i > m) /\ ~ IsParam(ps[i]) /\ ps[i] = rs[i]
  <2>1. f[i] = [found |-> g, params |-> p]
    BY <1>4, <1>6, <1>11
  <2>2. g <=> Fits(ps, rs, b, i)
    BY <1>1, <1>6, <1>7, <1>11
  <2>3. ASSUME g PROVE Captures(ps, rs, b, i, p)
    <3>1. Captures(ps, rs, b, i + 1, p)
      BY <1>6, <2>3
    <3>2. {k \in i..b : IsParam(ps[k])} = {k \in (i + 1)..b : IsParam(ps[k])}
      BY ONLY <1>2, <1>11
    <3> QED
      BY ONLY <1>2, <1>11, <3>1, <3>2 DEF Captures
  <2> QED
    BY <2>1, <2>2, <2>3 DEF Found
<1>12. CASE ~ (i > m) /\ ~ IsParam(ps[i]) /\ ps[i] # rs[i]
  BY <1>4, <1>7, <1>8, <1>12
<1> QED
  BY <1>9, <1>10, <1>11, <1>12

\* All of them.
LEMMA MatchFinds ==
  ASSUME NEW pat, NEW text, NEW ps \in Segments, NEW rs \in Segments,
         ps = split(pat), rs = split(text),
         NEW b \in Nat, Until(ps, b), OneEach(ps, b)
  PROVE  Found(match(pat, text), ps, rs, b, 1)
<1>1. Len(ps) \in Nat /\ Len(rs) \in Nat
  BY LenProperties DEF Segments
<1>2. PICK f : Matches(ps, rs, f) /\ match(pat, text) = f[1]
  <2> DEFINE g == CHOOSE f : Matches(split(pat), split(text), f)
  <2>1. Matches(split(pat), split(text), g)
    BY <1>1, MatchesExist
  <2>2. match(pat, text) = g[1]
    BY DEF match, Matches
  <2> QED
    BY <2>1, <2>2
<1> DEFINE T == {k \in Nat : k <= b => Found(f[(b + 1) - k], ps, rs, b, (b + 1) - k)}
<1>3. 0 \in T
  <2>1. Found(f[b + 1], ps, rs, b, b + 1)
    BY ONLY <1>1, <1>2, b \in Nat, Until(ps, b), FoundAtEnd
  <2>2. (b + 1) - 0 = b + 1
    OBVIOUS
  <2> QED
    BY <2>1, <2>2
<1>4. ASSUME NEW k \in T PROVE k + 1 \in T
  <2>1. SUFFICES ASSUME k + 1 <= b PROVE Found(f[(b + 1) - (k + 1)], ps, rs, b, (b + 1) - (k + 1))
    OBVIOUS
  <2>2. k \in Nat /\ Found(f[(b + 1) - k], ps, rs, b, (b + 1) - k)
    BY <2>1
  <2> HIDE DEF T
  <2>3. PICK i \in 1..b : i = (b + 1) - (k + 1) /\ i + 1 = (b + 1) - k
    BY <2>1, <2>2
  <2>4. Found(f[i + 1], ps, rs, b, i + 1)
    BY ONLY <2>2, <2>3
  <2>5. Found(f[i], ps, rs, b, i)
    BY ONLY <1>1, <1>2, <2>4, b \in Nat, Until(ps, b), OneEach(ps, b), i \in 1..b, FoundBefore
  <2> QED
    BY ONLY <2>3, <2>5
<1>5. T = Nat
  <2> HIDE DEF T
  <2>1. T \subseteq Nat
    BY DEF T
  <2> QED
    BY <1>3, <1>4, <2>1, SetInduction
<1>6. Found(f[(b + 1) - b], ps, rs, b, (b + 1) - b)
  <2>1. b \in T
    BY ONLY <1>5, b \in Nat
  <2> QED
    BY ONLY <2>1, b \in Nat
<1>7. (b + 1) - b = 1
  OBVIOUS
<1> QED
  BY ONLY <1>2, <1>6, <1>7

\* What match is given: tokens.
PathInput ==
  subject.parser = "match" => subject.pattern \in Seq(Token) /\ input \in Seq(Token)

\* A few tokens are a text.
LEMMA Tuples ==
  ASSUME NEW S, NEW a \in S, NEW b \in S, NEW c \in S, NEW d \in S, NEW e \in S
  PROVE  {<<>>, <<a>>, <<a, b>>, <<a, b, c>>, <<a, b, c, d>>, <<a, b, c, d, e>>} \subseteq Seq(S)
  OBVIOUS

\* The patterns of MCParsers are.
LEMMA PatternsAre == MCPatterns \subseteq Seq(Token)
<1>1. PICK sl, co, st, a, b, x, y :
        sl = "/" /\ co = ":" /\ st = "*" /\ a = "a" /\ b = "b" /\ x = "x" /\ y = "y"
  OBVIOUS
<1>2. {sl, co, st, a, b, x, y} \subseteq Token
  BY <1>1 DEF Token
<1>3. /\ {<<>>, <<sl>>, <<sl, a>>, <<sl, a, sl>>, <<sl, a, sl, b>>, <<sl, a, b>>} \subseteq Seq(Token)
      /\ {<<sl, co, x>>, <<sl, a, sl, co, x>>, <<sl, co, x, sl, b>>} \subseteq Seq(Token)
      /\ {<<sl, co>>, <<a>>, <<sl, st>>, <<sl, a, st>>, <<sl, a, sl, st>>} \subseteq Seq(Token)
      /\ <<sl, st, sl, b>> \in Seq(Token)
  BY <1>2, Tuples
<1>4. <<sl, co, x, sl, co, y>> \in Seq(Token) /\ <<sl, co, x, sl, co, x>> \in Seq(Token)
      /\ <<sl, co, x, sl, st>> \in Seq(Token)
  BY <1>2
<1> QED
  BY ONLY <1>1, <1>3, <1>4 DEF MCPatterns

\* One more token of the path arrives.
LEMMA PathInputHolds == Inputs => []PathInput
<1>1. Start => PathInput
  <2> SUFFICES ASSUME Start, subject.parser = "match" PROVE PathInput
    BY DEF PathInput
  <2>1. input = <<>> /\ subject.pattern \in MCPatterns
    BY DEF Start, SealedMessages
  <2> QED
    BY <2>1, PatternsAre, EmptySeq DEF PathInput
<1>2. PathInput /\ [Extend]_inputs => PathInput'
  <2> SUFFICES ASSUME PathInput, [Extend]_inputs, (subject.parser = "match")'
               PROVE  PathInput'
    BY DEF PathInput
  <2>1. CASE Extend
    <3>1. ExtendPath
      BY <2>1 DEF Extend, ExtendPath, ExtendWire, ExtendHeader,
                  ExtendQuery, ExtendCalls, ExtendSealed, ExtendText
    <3>2. /\ subject.parser = "match" /\ subject' = subject
          /\ \E c \in Letter \cup {"/"} : input' = Append(input, c)
      BY <3>1 DEF ExtendPath
    <3>3. Letter \cup {"/"} \subseteq Token
      BY DEF Token
    <3>4. input' \in Seq(Token)
      BY <3>2, <3>3, AppendProperties DEF PathInput
    <3> QED
      BY <3>2, <3>4 DEF PathInput
  <2>2. CASE UNCHANGED inputs
    BY <2>2 DEF inputs, PathInput
  <2> QED
    BY <2>1, <2>2
<1> QED
  BY <1>1, <1>2, PTL DEF Inputs

\* Before is where the first wildcard is.
LEMMA BeforeIs ==
  ASSUME subject.pattern \in Seq(Token)
  PROVE  /\ Before \in Nat /\ Until(split(subject.pattern), Before)
         /\ HasWildcard <=> Before < Len(split(subject.pattern))
<1>1. PICK ps \in Segments : ps = split(subject.pattern)
  BY SplitType
<1>2. PICK l \in Nat : l = Len(ps)
  BY LenProperties DEF Segments
<1>3. PICK stars : stars = {i \in 1..l : IsWildcard(ps[i])}
  OBVIOUS
<1>4. Before = IF stars = {} THEN l ELSE Min(stars) - 1
  BY <1>1, <1>2, <1>3 DEF Before, pattern
<1>5. HasWildcard <=> Before < l
  BY <1>1, <1>2 DEF HasWildcard, pattern
<1>6. CASE stars = {}
  BY <1>1, <1>2, <1>3, <1>4, <1>5, <1>6 DEF Until
<1>7. CASE stars # {}
  <2>0. stars \subseteq Nat
    BY <1>3
  <2>1. PICK x \in stars : \A y \in stars : x <= y
    BY ONLY <1>7, <2>0, LeastNumber
  <2>2. PICK n : n = Min(stars)
    OBVIOUS
  <2>3. n \in stars /\ \A y \in stars : n <= y
    BY <2>1, <2>2 DEF Min
  <2>4. n \in 1..l /\ IsWildcard(ps[n])
    BY <1>3, <2>3
  <2>5. \A i \in 1..(n - 1) : ~ IsWildcard(ps[i])
    <3> SUFFICES ASSUME NEW i \in 1..(n - 1), IsWildcard(ps[i]) PROVE FALSE
      OBVIOUS
    <3>1. i \in stars /\ ~ (n <= i)
      BY <1>3, <2>4
    <3> QED
      BY <2>3, <3>1
  <2>6. Before = n - 1 /\ n - 1 \in 0..l /\ (n - 1) + 1 = n
    BY <1>4, <1>7, <2>2, <2>4
  <2> QED
    BY <1>1, <1>2, <1>5, <2>4, <2>5, <2>6 DEF Until
<1> QED
  BY <1>6, <1>7

\* Parameters with the same name are the same segment.
LEMMA SameName ==
  ASSUME NEW s \in Seq(Token), NEW t \in Seq(Token), IsParam(s), IsParam(t), Tail(s) = Tail(t)
  PROVE  s = t
<1>1. s # <<>> /\ t # <<>> /\ Head(s) = Head(t)
  BY DEF IsParam
<1>2. Len(s) \in Nat /\ Len(t) \in Nat /\ Len(s) >= 1 /\ Len(t) >= 1
  BY <1>1, NonEmpty
<1>3. Len(Tail(s)) = Len(s) - 1 /\ \A i \in 1..Len(Tail(s)) : Tail(s)[i] = s[i + 1]
  BY <1>1, HeadTailProperties
<1>4. Len(Tail(t)) = Len(t) - 1 /\ \A i \in 1..Len(Tail(t)) : Tail(t)[i] = t[i + 1]
  BY <1>1, HeadTailProperties
<1>5. Len(s) = Len(t)
  BY <1>2, <1>3, <1>4
<1>6. ASSUME NEW i \in 1..Len(s) PROVE s[i] = t[i]
  <2>1. CASE i = 1
    BY <1>1, <2>1
  <2>2. CASE i # 1
    <3>1. i - 1 \in 1..Len(Tail(s)) /\ (i - 1) + 1 = i
      BY <1>2, <1>3, <2>2
    <3> QED
      BY <1>3, <1>4, <3>1
  <2> QED
    BY <2>1, <2>2
<1> QED
  BY ONLY <1>5, <1>6, SeqEqual, s \in Seq(Token), t \in Seq(Token)

\* To be in front of another text, element by element.
LEMMA PrefixIs ==
  ASSUME NEW S, NEW s \in Seq(S), NEW t \in Seq(S)
  PROVE  IsPrefix(s, t) <=> Len(s) <= Len(t) /\ \A i \in 1..Len(s) : s[i] = t[i]
<1>1. PICK n \in Nat : n = Len(s)
  BY LenProperties
<1>2. SubSeq(s, 1, n) = s
  BY <1>1, SubSeqFull
<1>3. ASSUME n <= Len(t) PROVE SubSeq(t, 1, n) = s <=> \A i \in 1..n : s[i] = t[i]
  <2>1. PICK u : u = SubSeq(t, 1, n)
    OBVIOUS
  <2>2. u \in Seq(S) /\ Len(u) = n /\ \A i \in 1..n : u[i] = t[i]
    BY ONLY <1>3, <2>1, FrontCut, t \in Seq(S), n \in Nat
  <2>3. (\A i \in 1..n : s[i] = t[i]) => u = s
    BY ONLY <1>1, <2>2, SeqEqual, s \in Seq(S)
  <2> QED
    BY ONLY <2>1, <2>2, <2>3
<1> QED
  BY ONLY <1>1, <1>2, <1>3 DEF IsPrefix

\* The parameters of a pattern, each of which occurs once.
Parameters(sp, b) == {sp[i] : i \in {j \in 1..b : IsParam(sp[j])}}
Once(sp, b) == \A i, j \in 1..b : IsParam(sp[i]) /\ sp[i] = sp[j] => i = j

\* The other segments are the path's; some values make all of them the path's.
Stands(sp, rs, b) == \A i \in 1..b : i <= Len(rs) /\ (IsParam(sp[i]) \/ sp[i] = rs[i])
Becomes(sp, rs, b, value) ==
  \E v \in [value -> ToSet(rs)] :
    \A i \in 1..b : /\ i <= Len(rs)
                    /\ (IF sp[i] \in value THEN v[sp[i]] ELSE sp[i]) = rs[i]

\* Values for the parameters make the pattern's segments the path's exactly if
\* every other segment is there as it stands.
LEMMA ValuesFit ==
  ASSUME NEW sp, NEW rs \in Segments, NEW b \in Nat, Once(sp, b)
  PROVE  Stands(sp, rs, b) <=> Becomes(sp, rs, b, Parameters(sp, b))
<1>0. PICK value : value = Parameters(sp, b)
  OBVIOUS
<1>1. PICK n \in Nat : n = Len(rs) /\ DOMAIN rs = 1..n
  BY LenProperties DEF Segments
<1>2. \A i \in 1..b : sp[i] \in value <=> IsParam(sp[i])
  BY <1>0 DEF Parameters
<1>3. ASSUME \A i \in 1..b : i <= n /\ (IsParam(sp[i]) \/ sp[i] = rs[i])
      PROVE  \E v \in [value -> ToSet(rs)] :
               \A i \in 1..b : i <= n /\ (IF sp[i] \in value THEN v[sp[i]] ELSE sp[i]) = rs[i]
  <2> DEFINE v == [s \in value |-> rs[CHOOSE j \in 1..b : sp[j] = s]]
  <2>1. ASSUME NEW i \in 1..b, IsParam(sp[i]) PROVE v[sp[i]] = rs[i]
    <3>1. PICK c : c = CHOOSE j \in 1..b : sp[j] = sp[i]
      OBVIOUS
    <3>2. c \in 1..b /\ sp[c] = sp[i]
      BY <3>1
    <3>3. c = i
      BY <2>1, <3>2 DEF Once
    <3>4. v[sp[i]] = rs[c]
      BY <1>2, <2>1, <3>1
    <3> QED
      BY ONLY <3>3, <3>4
  <2>2. v \in [value -> ToSet(rs)]
    <3>1. ASSUME NEW s \in value PROVE v[s] \in ToSet(rs)
      <4>1. PICK i \in 1..b : IsParam(sp[i]) /\ s = sp[i]
        BY <1>0 DEF Parameters
      <4>2. v[s] = rs[i]
        BY <2>1, <4>1
      <4>3. i \in DOMAIN rs
        BY <1>1, <1>3
      <4> QED
        BY ONLY <4>2, <4>3 DEF ToSet
    <3> QED
      BY <3>1
  <2>3. ASSUME NEW i \in 1..b
        PROVE  i <= n /\ (IF sp[i] \in value THEN v[sp[i]] ELSE sp[i]) = rs[i]
    <3>1. CASE IsParam(sp[i])
      BY ONLY <1>2, <1>3, <2>1, <3>1, i \in 1..b
    <3>2. CASE ~ IsParam(sp[i])
      BY ONLY <1>2, <1>3, <3>2, i \in 1..b
    <3> QED
      BY <3>1, <3>2
  <2> HIDE DEF v
  <2> QED
    BY ONLY <2>2, <2>3
<1>4. ASSUME NEW v \in [value -> ToSet(rs)],
             \A i \in 1..b : i <= n /\ (IF sp[i] \in value THEN v[sp[i]] ELSE sp[i]) = rs[i]
      PROVE  \A i \in 1..b : i <= n /\ (IsParam(sp[i]) \/ sp[i] = rs[i])
  BY ONLY <1>2, <1>4
<1> QED
  BY ONLY <1>0, <1>1, <1>3, <1>4 DEF Stands, Becomes

\* The first b segments of a path, and behind them a last one.
Filled(text, b, star) ==
  LET first == [i \in 1..b |-> split(text)[i]]
  IN  Rest(IF Len(split(text)) > b THEN Append(first, star) ELSE first, 1)

\* The captured values, and what the wildcard took, are the path again.
LEMMA FilledIsPath ==
  ASSUME NEW text \in Seq(Token), NEW b \in Nat, b <= Len(split(text)), NEW star,
         Len(split(text)) > b => star = Rest(split(text), b + 1)
  PROVE  Strip(text) = Filled(text, b, star)
<1>a. PICK rs : rs = split(text)
  OBVIOUS
<1>b. PICK filled : filled = [i \in 1..b |-> rs[i]]
  OBVIOUS
<1>1. rs \in Segments /\ Rest(rs, 1) = Strip(text)
  BY <1>a, SplitType, RestOfSplit
<1>2. PICK n \in Nat : n = Len(rs)
  BY <1>1, LenProperties DEF Segments
<1>3. ASSUME NEW i \in 1..n PROVE rs[i] \in Seq(Token)
  BY <1>1, <1>2, ElementOfSeq DEF Segments
<1>4. filled \in Segments /\ Len(filled) = b /\ \A i \in 1..b : filled[i] = rs[i]
  <2>1. \A i \in 1..b : i \in 1..n /\ filled[i] \in Seq(Token)
    BY <1>a, <1>b, <1>2, <1>3
  <2>2. PICK S : S = Seq(Token)
    OBVIOUS
  <2>3. filled \in Seq(S) /\ Len(filled) = b
    BY ONLY <1>b, <2>1, <2>2, b \in Nat
  <2> QED
    BY <1>b, <2>2, <2>3 DEF Segments
<1>5. CASE n > b
  <2>1. PICK l \in Nat : l = b + 1
    OBVIOUS
  <2>2. l \in 1..n /\ l >= 1 /\ l <= n /\ l - 1 = b
    BY <1>5, <2>1
  <2>3. star = Rest(rs, l) /\ star \in Seq(Token)
    <3>1. Rest(rs, l) \in Seq(Token)
      BY ONLY <1>1, <1>2, <2>2, RestIs, n \in Nat
    <3> QED
      BY <1>a, <1>2, <1>5, <2>1, <3>1
  <2>4. PICK Q : Q = Append(filled, star)
    OBVIOUS
  <2>5. Q \in Segments /\ Len(Q) = l /\ Q[l] = star /\ \A i \in 1..b : Q[i] = rs[i]
    BY ONLY <1>4, <2>1, <2>3, <2>4, AppendProperties, b \in Nat DEF Segments
  <2>6. Rest(Q, l) = star
    <3>1. l \in 1..l
      BY <2>2
    <3> QED
      BY ONLY <2>5, <3>1, RestIs, l \in Nat
  <2>7. <<>> \in Seq(Token) /\ Rest(Q, l) = Rest(rs, l) \o <<>>
    BY <2>3, <2>6, EmptySeq, ConcatEmptySeq
  <2>8. \A i \in 1..(l - 1) : rs[i] = Q[i]
    BY ONLY <2>2, <2>5
  <2>9. Rest(Q, 1) = Rest(rs, 1) \o <<>>
    <3>1. l >= 1 /\ l <= Len(rs) /\ l <= Len(Q)
      BY ONLY <1>2, <2>2, <2>5, l \in Nat
    <3>2. rs \in Segments /\ Q \in Segments
      BY <1>1, <2>5
    <3> QED
      BY ONLY <2>7, <2>8, <3>1, <3>2, RestGrows, l \in Nat
  <2>10. Rest(rs, 1) \o <<>> = Rest(rs, 1)
    <3>1. Strip(text) \in Seq(Token)
      BY StripIs
    <3> QED
      BY <1>1, <3>1, ConcatEmptySeq
  <2> QED
    BY ONLY <1>a, <1>b, <1>1, <1>2, <1>5, <2>4, <2>9, <2>10 DEF Filled
<1>6. CASE ~ (n > b)
  <2>1. n = b
    BY <1>a, <1>2, <1>6
  <2>2. filled = rs
    BY ONLY <1>1, <1>2, <1>4, <2>1, SeqEqual DEF Segments
  <2> QED
    BY ONLY <1>a, <1>b, <1>1, <1>2, <1>6, <2>2 DEF Filled
<1> QED
  BY <1>5, <1>6
\* What match finds, and what it captures, is what the property asks for.
LEMMA PathMatches ==
  ASSUME PathInput
  PROVE  MatchIsSubstitution
<1> SUFFICES ASSUME subject.parser = "match", Distinct PROVE MatchIsSubstitution
  BY DEF MatchIsSubstitution
<1>1. subject.pattern \in Seq(Token) /\ input \in Seq(Token)
  BY DEF PathInput
<1>2. PICK full \in Segments : full = split(pattern)
  BY <1>1, SplitType DEF pattern
<1> DEFINE m     == match(pattern, path)
           ps    == SubSeq(split(pattern), 1, Before)
           rs    == split(path)
           value == {ps[i] : i \in {j \in 1..Before : IsParam(ps[j])}}
           Put(v) == [i \in 1..Before |-> IF ps[i] \in value THEN v[ps[i]] ELSE ps[i]]
<1>3. PICK b \in Nat : b = Before
  BY <1>1, BeforeIs
<1>4. Until(full, b) /\ (HasWildcard <=> b < Len(full)) /\ b <= Len(full)
  BY <1>1, <1>2, <1>3, BeforeIs DEF pattern, Until
<1>5. PICK ss \in Segments : ss = rs
  BY <1>1, SplitType DEF path
<1>6. PICK n \in Nat : n = Len(ss)
  BY LenProperties DEF Segments
<1>7. PICK sp : sp = ps
  OBVIOUS
<1>8. \A i \in 1..b : sp[i] = full[i]
  <2>1. SubSeq(full, 1, b) = sp
    BY <1>2, <1>3, <1>7
  <2> QED
    BY ONLY <1>4, <2>1, FrontCut, full \in Segments, b \in Nat DEF Segments
<1>9. PICK val : val = {sp[i] : i \in {j \in 1..b : IsParam(sp[j])}}
  OBVIOUS
<1>10. val = value
  BY <1>3, <1>7, <1>9
<1>11. /\ OneEach(full, b)
       /\ \A i, j \in 1..b : IsParam(sp[i]) /\ sp[i] = sp[j] => i = j
  <2>1. \A i, j \in 1..b :
          IsParam(full[i]) =>
            (full[i] = full[j] => i = j) /\ (HasWildcard => Tail(full[i]) # <<"*">>)
    BY <1>2, <1>3 DEF Distinct
  <2>2. \A i \in 1..b : full[i] \in Seq(Token)
    <3>1. ASSUME NEW i \in 1..b PROVE full[i] \in Seq(Token)
      <4>1. i \in 1..Len(full)
        BY <1>4, LenProperties DEF Segments
      <4> QED
        BY <4>1, ElementOfSeq DEF Segments
    <3> QED
      BY <3>1
  <2>3. OneEach(full, b)
    BY <1>4, <2>1, <2>2, SameName DEF OneEach
  <2> QED
    BY ONLY <1>8, <2>1, <2>3
<1>12. PICK g \in BOOLEAN : \E p :
         /\ m = [found |-> g, params |-> p]
         /\ g <=> Fits(full, ss, b, 1)
         /\ g => Captures(full, ss, b, 1, p)
  <2>1. Found(match(pattern, path), full, ss, b, 1)
    BY ONLY <1>2, <1>4, <1>5, <1>11, MatchFinds, full \in Segments, ss \in Segments, b \in Nat
  <2> QED
    BY <2>1 DEF Found
<1>13. PICK p : /\ m = [found |-> g, params |-> p]
                /\ g <=> Fits(full, ss, b, 1)
                /\ g => Captures(full, ss, b, 1, p)
  BY ONLY <1>12
<1>14. m.found = g /\ m.params = p
  BY ONLY <1>13
<1>15. g <=> /\ \A i \in 1..b : i <= n /\ (IsParam(sp[i]) \/ sp[i] = ss[i])
             /\ HasWildcard \/ n = b
  <2>1. Len(full) \in Nat
    BY LenProperties DEF Segments
  <2>2. b = Len(full) <=> ~ HasWildcard
    BY ONLY <1>4, <2>1, b \in Nat
  <2>3. Fits(full, ss, b, 1)
        <=> /\ \A i \in 1..b : i <= n /\ (IsParam(full[i]) \/ full[i] = ss[i])
            /\ b = Len(full) => n = b
    BY ONLY <1>6 DEF Fits
  <2>4. (\A i \in 1..b : i <= n /\ (IsParam(full[i]) \/ full[i] = ss[i]))
        <=> (\A i \in 1..b : i <= n /\ (IsParam(sp[i]) \/ sp[i] = ss[i]))
    BY ONLY <1>8
  <2>5. g <=> Fits(full, ss, b, 1)
    BY ONLY <1>13
  <2>6. (b = Len(full) => n = b) <=> (HasWildcard \/ n = b)
    BY ONLY <2>2
  <2> HIDE DEF m, ps, rs, value, Put
  <2> QED
    BY ONLY <2>3, <2>4, <2>5, <2>6
<1>16. ASSUME NEW v
       PROVE  Put(v) = [i \in 1..b |-> IF sp[i] \in val THEN v[sp[i]] ELSE sp[i]]
  BY ONLY <1>3, <1>7, <1>10
<1>17. m.found <=> \E v \in [value -> ToSet(rs)] :
                     IF HasWildcard THEN IsPrefix(Put(v), rs) ELSE Put(v) = rs
  <2>1. ASSUME NEW v \in [val -> ToSet(ss)]
        PROVE  (IF HasWildcard THEN IsPrefix(Put(v), ss) ELSE Put(v) = ss)
               <=> /\ \A i \in 1..b : /\ i <= n
                                      /\ (IF sp[i] \in val THEN v[sp[i]] ELSE sp[i]) = ss[i]
                   /\ HasWildcard \/ n = b
    <3>1. PICK w : w = Put(v)
      OBVIOUS
    <3>2. w = [i \in 1..b |-> IF sp[i] \in val THEN v[sp[i]] ELSE sp[i]]
      BY ONLY <1>16, <3>1
    <3>3. PICK S : S = {w[i] : i \in 1..b} \cup {ss[i] : i \in 1..n}
      OBVIOUS
    <3>4. w \in Seq(S) /\ Len(w) = b
      BY ONLY <3>2, <3>3, b \in Nat
    <3>5. ss \in Seq(S)
      <4>1. PICK T : ss \in Seq(T)
        BY DEF Segments
      <4> QED
        BY ONLY <1>6, <3>3, <4>1, n \in Nat, LenProperties
    <3>6. IsPrefix(w, ss) <=> b <= n /\ \A i \in 1..b : w[i] = ss[i]
      BY ONLY <1>6, <3>4, <3>5, PrefixIs
    <3>7. w = ss <=> n = b /\ \A i \in 1..b : w[i] = ss[i]
      BY ONLY <1>6, <3>4, <3>5, SeqEqual
    <3>8. (\A i \in 1..b : i <= n) <=> b <= n
      BY ONLY b \in Nat, n \in Nat
    <3>9. \A i \in 1..b : w[i] = IF sp[i] \in val THEN v[sp[i]] ELSE sp[i]
      BY ONLY <3>2
    <3>10. PICK same \in BOOLEAN : same <=> \A i \in 1..b : w[i] = ss[i]
      OBVIOUS
    <3>11. (\A i \in 1..b : /\ i <= n
                            /\ (IF sp[i] \in val THEN v[sp[i]] ELSE sp[i]) = ss[i])
           <=> b <= n /\ same
      BY ONLY <3>8, <3>9, <3>10
    <3>12. (IF HasWildcard THEN IsPrefix(w, ss) ELSE w = ss)
           <=> (IF HasWildcard THEN b <= n /\ same ELSE n = b /\ same)
      BY ONLY <3>6, <3>7, <3>10
    <3>13. n = b => b <= n
      BY ONLY b \in Nat, n \in Nat
    <3>14. HasWildcard \in BOOLEAN
      BY DEF HasWildcard
    <3> HIDE DEF Put
    <3> QED
      BY ONLY <3>1, <3>11, <3>12, <3>13, <3>14
  <2>2. (\A i \in 1..b : i <= n /\ (IsParam(sp[i]) \/ sp[i] = ss[i]))
        <=> \E v \in [val -> ToSet(ss)] :
              \A i \in 1..b : /\ i <= n
                              /\ (IF sp[i] \in val THEN v[sp[i]] ELSE sp[i]) = ss[i]
    <3>1. Once(sp, b) /\ val = Parameters(sp, b)
      BY ONLY <1>9, <1>11 DEF Once, Parameters
    <3>2. Stands(sp, ss, b) <=> Becomes(sp, ss, b, val)
      BY ONLY <3>1, ValuesFit, ss \in Segments, b \in Nat
    <3> QED
      BY ONLY <1>6, <3>2 DEF Stands, Becomes
  <2>3. g <=> \E v \in [val -> ToSet(ss)] :
                IF HasWildcard THEN IsPrefix(Put(v), ss) ELSE Put(v) = ss
    BY ONLY <1>15, <2>1, <2>2
  <2> QED
    BY ONLY <1>5, <1>10, <1>14, <2>3
<1>18. ASSUME m.found
       PROVE  Strip(path) =
                Rest(IF Len(rs) > Before
                     THEN Append(Put([s \in value |-> m.params[Tail(s)]]), m.params[<<"*">>])
                     ELSE Put([s \in value |-> m.params[Tail(s)]]), 1)
  <2>1. g /\ Captures(full, ss, b, 1, p)
    BY ONLY <1>13, <1>14, <1>18
  <2>2. PICK v : v = [s \in val |-> p[Tail(s)]]
    OBVIOUS
  <2>3. PICK filled : filled = Put(v)
    OBVIOUS
  <2>4. filled = [i \in 1..b |-> ss[i]]
    <3>1. ASSUME NEW i \in 1..b
          PROVE  (IF sp[i] \in val THEN v[sp[i]] ELSE sp[i]) = ss[i]
      <4>1. sp[i] \in val <=> IsParam(sp[i])
        BY ONLY <1>9, i \in 1..b
      <4>2. IsParam(sp[i]) => p[Tail(sp[i])] = ss[i]
        BY ONLY <1>8, <2>1, i \in 1..b DEF Captures
      <4>3. IsParam(sp[i]) \/ sp[i] = ss[i]
        BY ONLY <1>15, <2>1, i \in 1..b
      <4> QED
        BY ONLY <2>2, <4>1, <4>2, <4>3
    <3>2. filled = [i \in 1..b |-> IF sp[i] \in val THEN v[sp[i]] ELSE sp[i]]
      BY ONLY <1>16, <2>3
    <3> QED
      BY ONLY <3>1, <3>2
  <2>5. b <= n
    BY ONLY <1>15, <2>1, b \in Nat, n \in Nat
  <2>6. PICK star : star = p[<<"*">>]
    OBVIOUS
  <2>7. n > b => star = Rest(ss, b + 1)
    <3>1. n > b => b < Len(full)
      BY ONLY <1>4, <1>15, <2>1, b \in Nat, n \in Nat
    <3> QED
      BY ONLY <2>1, <2>6, <3>1 DEF Captures
  <2>8. Strip(path) = Rest(IF n > b THEN Append(filled, star) ELSE filled, 1)
    <3>1. PICK text \in Seq(Token) : text = path
      BY <1>1 DEF path
    <3>2. ss = split(text)
      BY <1>5, <3>1
    <3>3. Strip(text) = Filled(text, b, star)
      <4>1. b <= Len(split(text)) /\ (Len(split(text)) > b => star = Rest(split(text), b + 1))
        BY ONLY <1>6, <2>5, <2>7, <3>2
      <4> QED
        BY ONLY <4>1, FilledIsPath, b \in Nat, text \in Seq(Token)
    <3>4. Filled(text, b, star) = Rest(IF n > b THEN Append(filled, star) ELSE filled, 1)
      BY ONLY <1>6, <2>4, <3>2 DEF Filled
    <3> QED
      BY ONLY <3>1, <3>3, <3>4
  <2>9. filled = Put([s \in value |-> m.params[Tail(s)]])
    BY ONLY <1>10, <1>14, <2>2, <2>3
  <2>10. m.params[<<"*">>] = star
    BY ONLY <1>14, <2>6
  <2>11. Len(rs) = n /\ Before = b
    BY ONLY <1>3, <1>5, <1>6
  <2> HIDE DEF Put, m, value, rs
  <2> QED
    BY ONLY <2>8, <2>9, <2>10, <2>11
<1>19. (\E v \in [value -> ToSet(rs) \ {<<>>}] :
          IF HasWildcard THEN IsPrefix(Put(v), rs) ELSE Put(v) = rs)
       => m.found
  <2>1. \A v \in [value -> ToSet(rs) \ {<<>>}] : v \in [value -> ToSet(rs)]
    OBVIOUS
  <2> HIDE DEF Put, m, value, rs
  <2> QED
    BY ONLY <1>17, <2>1
<1> QED
  BY <1>17, <1>18, <1>19 DEF MatchIsSubstitution

\* match finds exactly the paths that the pattern becomes when its parameters
\* are replaced by values, and captures all there is of the path
\* (router.hpp:120-180): for a pattern and a path of any length.
THEOREM MatchIsSubstitutionHolds == Inputs => []MatchIsSubstitution
<1>1. PathInput => MatchIsSubstitution
  BY PathMatches
<1> QED
  BY <1>1, PathInputHolds, PTL
===============================================================================
