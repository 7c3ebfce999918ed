---------------------------- MODULE ChannelLemmas ----------------------------
(***************************************************************************)
(* What the operations on a channel do to the sequence that models it.     *)
(***************************************************************************)
EXTENDS Naturals, Sequences, TLAPS

(* Membership of a sequence, by the name the lemmas on channels use. *)
Holds(s, f) == \E i \in DOMAIN s : s[i] = f
NoRepeat(s) == \A i, j \in DOMAIN s : s[i] = s[j] => i = j

(* Sending a function that is not in the channel adds it, once. *)
LEMMA AppendHolds ==
    ASSUME NEW S, NEW s \in Seq(S), NEW f \in S
    PROVE  /\ Append(s, f) \in Seq(S)
           /\ \A g : Holds(Append(s, f), g) <=> Holds(s, g) \/ g = f
           /\ NoRepeat(s) /\ ~Holds(s, f) => NoRepeat(Append(s, f))
  <1> DEFINE t == Append(s, f)
  <1>1. /\ t \in Seq(S)
        /\ Len(s) \in Nat
        /\ DOMAIN s = 1..Len(s)
        /\ DOMAIN t = 1..(Len(s) + 1)
        /\ \A i \in 1..Len(s) : t[i] = s[i]
        /\ t[Len(s) + 1] = f
    OBVIOUS
  <1> HIDE DEF t
  <1>2. \A g : Holds(t, g) <=> Holds(s, g) \/ g = f
    BY <1>1 DEF Holds
  <1>3. NoRepeat(s) /\ ~Holds(s, f) => NoRepeat(t)
    BY <1>1 DEF Holds, NoRepeat
  <1> QED
    BY <1>1, <1>2, <1>3 DEF t

(* Receiving removes the head and nothing else. *)
LEMMA TailHolds ==
    ASSUME NEW S, NEW s \in Seq(S), s # << >>, NoRepeat(s)
    PROVE  /\ Head(s) \in S
           /\ Tail(s) \in Seq(S)
           /\ Len(Tail(s)) <= Len(s)
           /\ Holds(s, Head(s))
           /\ \A g : Holds(Tail(s), g) <=> Holds(s, g) /\ g # Head(s)
           /\ NoRepeat(Tail(s))
  <1> DEFINE t == Tail(s)
             h == Head(s)
  <1>1. /\ t \in Seq(S)
        /\ Len(s) \in Nat \ {0}
        /\ DOMAIN s = 1..Len(s)
        /\ Len(t) = Len(s) - 1
        /\ DOMAIN t = 1..(Len(s) - 1)
        /\ \A i \in 1..(Len(s) - 1) : t[i] = s[i + 1]
        /\ h = s[1]
        /\ h \in S
    OBVIOUS
  <1> HIDE DEF t, h
  <1>2. Holds(s, h)
    BY <1>1 DEF Holds
  <1>3. ASSUME NEW g PROVE Holds(t, g) <=> Holds(s, g) /\ g # h
    <2>1. ASSUME Holds(t, g) PROVE Holds(s, g) /\ g # h
      <3>1. PICK i \in 1..(Len(s) - 1) : s[i + 1] = g
        BY <1>1, <2>1 DEF Holds
      <3>2. i + 1 \in DOMAIN s /\ i + 1 # 1 /\ 1 \in DOMAIN s
        BY <1>1
      <3> QED
        BY <3>1, <3>2, <1>1, NoRepeat(s) DEF Holds, NoRepeat
    <2>2. ASSUME Holds(s, g), g # h PROVE Holds(t, g)
      <3>1. PICK i \in 1..Len(s) : s[i] = g
        BY <1>1, <2>2 DEF Holds
      <3>2. i # 1
        BY <3>1, <2>2, <1>1
      <3>3. i - 1 \in 1..(Len(s) - 1) /\ (i - 1) + 1 = i
        BY <3>2, <1>1
      <3> QED
        BY <3>1, <3>3, <1>1 DEF Holds
    <2> QED
      BY <2>1, <2>2
  <1>4. NoRepeat(t)
    <2>1. SUFFICES ASSUME NEW i \in 1..(Len(s) - 1), NEW j \in 1..(Len(s) - 1), s[i + 1] = s[j + 1]
                   PROVE  i = j
      BY <1>1 DEF NoRepeat
    <2>2. i + 1 \in DOMAIN s /\ j + 1 \in DOMAIN s
      BY <1>1
    <2>3. i + 1 = j + 1
      BY <2>1, <2>2, NoRepeat(s) DEF NoRepeat
    <2> QED
      BY <2>3
  <1>5. Len(t) <= Len(s)
    BY <1>1
  <1> QED
    BY <1>1, <1>2, <1>3, <1>4, <1>5 DEF t, h

(* Taking the first n out of a channel leaves every other one in it. *)
LEMMA SplitHolds ==
    ASSUME NEW S, NEW s \in Seq(S), NEW n \in 1..Len(s), NoRepeat(s)
    PROVE  LET b == SubSeq(s, 1, n)
               q == SubSeq(s, n + 1, Len(s))
           IN  /\ b \in Seq(S) /\ Len(b) = n /\ NoRepeat(b)
               /\ q \in Seq(S) /\ Len(q) = Len(s) - n /\ NoRepeat(q)
               /\ \A g : Holds(s, g) <=> Holds(b, g) \/ Holds(q, g)
               /\ \A g : ~(Holds(b, g) /\ Holds(q, g))
  <1> DEFINE b == SubSeq(s, 1, n)
             q == SubSeq(s, n + 1, Len(s))
  <1>0. Len(s) \in Nat /\ n \in Nat /\ 1 <= n /\ n <= Len(s) /\ DOMAIN s = 1..Len(s)
    OBVIOUS
  <1>1. b \in Seq(S) /\ Len(b) = n /\ DOMAIN b = 1..n /\ \A i \in 1..n : b[i] = s[i]
    BY <1>0
  <1>2. /\ q \in Seq(S) /\ Len(q) = Len(s) - n /\ DOMAIN q = 1..(Len(s) - n)
        /\ \A i \in 1..(Len(s) - n) : q[i] = s[i + n]
    <2>1. q \in Seq(S)
      BY <1>0
    <2>2. Len(q) = Len(s) - n
      <3>1. CASE n + 1 <= Len(s)
        BY <1>0, <3>1
      <3>2. CASE n = Len(s)
        <4>1. ~(n + 1 <= Len(s)) /\ Len(s) - n = 0 /\ n + 1 > Len(s)
          BY <1>0, <3>2
        <4>2. q = << >>
          BY <1>0, <4>1
        <4> QED
          BY <4>1, <4>2
      <3>3. n + 1 <= Len(s) \/ n = Len(s)
        <4>1. \A m \in Nat : n <= m => n + 1 <= m \/ n = m
          BY <1>0
        <4> QED
          BY <1>0, <4>1
      <3> HIDE DEF q
      <3> QED
        BY <3>1, <3>2, <3>3
    <2>3. DOMAIN q = 1..(Len(s) - n)
      BY <2>1, <2>2
    <2>4. ASSUME NEW i \in 1..(Len(s) - n) PROVE q[i] = s[i + n]
      <3>1. (n + 1) + i - 1 = i + n /\ n + 1 \in 1..Len(s)
        BY <1>0
      <3>2. q[i] = s[(n + 1) + i - 1]
        BY <1>0, <3>1
      <3> QED
        BY <3>1, <3>2
    <2> QED
      BY <2>1, <2>2, <2>3, <2>4
  <1> HIDE DEF b, q
  <1>3. NoRepeat(b)
    BY <1>0, <1>1, NoRepeat(s) DEF NoRepeat
  <1>4. NoRepeat(q)
    <2>1. ASSUME NEW i \in DOMAIN q, NEW j \in DOMAIN q, q[i] = q[j] PROVE i = j
      <3>1. i \in 1..(Len(s) - n) /\ j \in 1..(Len(s) - n)
        BY <1>2
      <3>2. s[i + n] = s[j + n]
        BY <2>1, <3>1, <1>2
      <3>3. i + n \in DOMAIN s /\ j + n \in DOMAIN s
        BY <3>1, <1>0
      <3>4. i + n = j + n
        BY <3>2, <3>3, NoRepeat(s) DEF NoRepeat
      <3> QED
        BY <3>1, <3>4, <1>0
    <2> QED
      BY <2>1 DEF NoRepeat
  <1>5. ASSUME NEW g, Holds(s, g) PROVE Holds(b, g) \/ Holds(q, g)
    <2>1. PICK i \in 1..Len(s) : s[i] = g
      BY <1>0, <1>5 DEF Holds
    <2>2. CASE i <= n
      BY <2>1, <2>2, <1>0, <1>1 DEF Holds
    <2>3. CASE i > n
      <3>1. i - n \in 1..(Len(s) - n) /\ (i - n) + n = i
        BY <2>1, <2>3, <1>0
      <3>2. q[i - n] = g
        BY <3>1, <2>1, <1>2
      <3> QED
        BY <3>1, <3>2, <1>2 DEF Holds
    <2> QED
      BY <2>1, <2>2, <2>3, <1>0
  <1>6. ASSUME NEW g, Holds(b, g) PROVE Holds(s, g) /\ ~Holds(q, g)
    <2>1. PICK i \in 1..n : s[i] = g
      BY <1>1, <1>6 DEF Holds
    <2>2. i \in DOMAIN s
      BY <2>1, <1>0
    <2>3. ASSUME Holds(q, g) PROVE FALSE
      <3>1. PICK j \in 1..(Len(s) - n) : s[j + n] = g
        BY <2>3, <1>2 DEF Holds
      <3>2. j + n \in DOMAIN s /\ j + n # i
        BY <3>1, <2>1, <1>0
      <3> QED
        BY <2>1, <2>2, <3>1, <3>2, NoRepeat(s) DEF NoRepeat
    <2> QED
      BY <2>1, <2>2, <2>3 DEF Holds
  <1>7. ASSUME NEW g, Holds(q, g) PROVE Holds(s, g)
    <2>1. PICK j \in 1..(Len(s) - n) : s[j + n] = g
      BY <1>7, <1>2 DEF Holds
    <2>2. j + n \in DOMAIN s
      BY <2>1, <1>0
    <2> QED
      BY <2>1, <2>2 DEF Holds
  <1> QED
    BY <1>1, <1>2, <1>3, <1>4, <1>5, <1>6, <1>7 DEF b, q
=============================================================================
