----------------------------- MODULE TallyProofs ----------------------------
(***************************************************************************)
(* What sending a frame does to the count of every request, what queues    *)
(* and boxes of frames hold, and in what order.                            *)
(***************************************************************************)
EXTENDS Tally, FiniteSetTheorems, SequenceTheorems, TLAPS

\* On no connection anything was sent.
LEMMA NothingSent ==
    ASSUME NEW wire, NEW id, \A k \in DOMAIN wire : wire[k] = <<>>
    PROVE  IsFiniteSet(Places(wire, id)) /\ Times(wire, id) = 0
  <1>1. Places(wire, id) = {}
    BY DEF Places
  <1>2. QED
    BY <1>1, FS_EmptySet DEF Times

\* wires2 is wires with the frame f sent on connection k.
Sending(K, F, wires, wires2, k, f) ==
    /\ wires \in [K -> Seq(F)] /\ k \in K /\ f \in F
    /\ wires2 = [wires EXCEPT ![k] = Append(@, f)]

\* A frame that is sent adds one to the count of its own request, and leaves
\* those of the others alone.
LEMMA SendCounts ==
    ASSUME NEW K, NEW F, NEW wire, NEW wire2, NEW k, NEW f,
           Sending(K, F, wire, wire2, k, f),
           NEW id, IsFiniteSet(Places(wire, id))
    PROVE  /\ IsFiniteSet(Places(wire2, id))
           /\ f.id = id => Times(wire2, id) = Times(wire, id) + 1
           /\ f.id # id => Times(wire2, id) = Times(wire, id)
  <1> DEFINE n == Len(wire[k]) + 1
  <1>1. /\ DOMAIN wire2 = K /\ DOMAIN wire = K
        /\ wire2[k] = Append(wire[k], f)
        /\ \A j \in K : j # k => wire2[j] = wire[j]
        /\ k \in K /\ wire[k] \in Seq(F)
    BY DEF Sending
  <1>2. /\ DOMAIN wire[k] = 1 .. Len(wire[k]) /\ Len(wire[k]) \in Nat
        /\ DOMAIN wire2[k] = DOMAIN wire[k] \cup {n} /\ n \notin DOMAIN wire[k]
        /\ wire2[k][n] = f /\ \A i \in DOMAIN wire[k] : wire2[k][i] = wire[k][i]
    BY <1>1
  <1>3. ASSUME NEW w, NEW j, NEW i
        PROVE  <<j, i>> \in Places(w, id)
                   <=> j \in DOMAIN w /\ i \in DOMAIN w[j] /\ w[j][i].id = id
    BY DEF Places
  <1>4. ASSUME NEW w, NEW p \in Places(w, id)
        PROVE  \E j \in DOMAIN w : \E i \in DOMAIN w[j] : p = <<j, i>>
    BY DEF Places
  <1> HIDE DEF n
  <1>5. ASSUME NEW j, NEW i
        PROVE  <<j, i>> \in Places(wire2, id)
                   <=> <<j, i>> \in Places(wire, id) \/ (j = k /\ i = n /\ f.id = id)
    <2>1. CASE j = k
      <3>1. <<k, i>> \in Places(wire2, id)
                <=> i \in DOMAIN wire2[k] /\ wire2[k][i].id = id
        BY <1>1, <1>3
      <3>2. <<k, i>> \in Places(wire, id)
                <=> i \in DOMAIN wire[k] /\ wire[k][i].id = id
        BY <1>1, <1>3
      <3>3. QED
        BY <1>2, <2>1, <3>1, <3>2
    <2>2. CASE j # k
      <3>1. <<j, i>> \in Places(wire2, id)
                <=> j \in K /\ i \in DOMAIN wire2[j] /\ wire2[j][i].id = id
        BY <1>1, <1>3
      <3>2. <<j, i>> \in Places(wire, id)
                <=> j \in K /\ i \in DOMAIN wire[j] /\ wire[j][i].id = id
        BY <1>1, <1>3
      <3>3. QED
        BY <1>1, <2>2, <3>1, <3>2
    <2>3. QED
      BY <2>1, <2>2
  <1>6. <<k, n>> \notin Places(wire, id)
    BY <1>1, <1>2, <1>3
  <1>7. ASSUME NEW p
        PROVE  p \in Places(wire2, id)
                   <=> p \in Places(wire, id) \/ (p = <<k, n>> /\ f.id = id)
    <2>1. CASE \E j, i : p = <<j, i>>
      <3>1. PICK j, i : p = <<j, i>>
        BY <2>1
      <3>2. p = <<k, n>> <=> j = k /\ i = n
        BY <3>1
      <3>3. <<j, i>> \in Places(wire2, id)
                <=> <<j, i>> \in Places(wire, id) \/ (j = k /\ i = n /\ f.id = id)
        BY <1>5
      <3>4. QED
        BY <3>1, <3>2, <3>3, Zenon
    <2>2. CASE ~ \E j, i : p = <<j, i>>
      <3>1. p \notin Places(wire2, id)
        BY <1>4, <2>2
      <3>2. p \notin Places(wire, id)
        BY <1>4, <2>2
      <3>3. QED
        BY <2>2, <3>1, <3>2
    <2>3. QED
      BY <2>1, <2>2
  <1>8. CASE f.id = id
    <2>1. ASSUME NEW p PROVE p \in Places(wire2, id)
                             <=> p \in Places(wire, id) \cup {<<k, n>>}
      BY <1>7, <1>8
    <2>2. Places(wire2, id) = Places(wire, id) \cup {<<k, n>>}
      BY <2>1
    <2>3. /\ IsFiniteSet(Places(wire2, id))
          /\ Cardinality(Places(wire2, id)) = Cardinality(Places(wire, id)) + 1
      BY <1>6, <2>2, FS_AddElement, Zenon
    <2>4. QED
      BY <1>8, <2>3 DEF Times
  <1>9. CASE f.id # id
    <2>1. ASSUME NEW p PROVE p \in Places(wire2, id) <=> p \in Places(wire, id)
      BY <1>7, <1>9
    <2>2. Places(wire2, id) = Places(wire, id)
      BY <2>1
    <2>3. QED
      BY <1>9, <2>2 DEF Times
  <1>10. QED
    BY <1>8, <1>9

-----------------------------------------------------------------------------
(* Queues of frames; those with the number 0 do not count.                 *)

Distinct(s) == \A p, q \in DOMAIN s : s[p].id = s[q].id /\ s[p].id # 0 => p = q

LEMMA IdsEmpty == Ids(<<>>) = {} /\ Distinct(<<>>)
  BY DEF Ids, Distinct

LEMMA IdsIn ==
    ASSUME NEW F, NEW s \in Seq(F), NEW x
    PROVE  x \in Ids(s) <=> x # 0 /\ \E p \in DOMAIN s : s[p].id = x
  BY DEF Ids

LEMMA IdsOne ==
    ASSUME NEW F, NEW f \in F
    PROVE  /\ <<f>> \in Seq(F) /\ Distinct(<<f>>)
           /\ Ids(<<f>>) = IF f.id = 0 THEN {} ELSE {f.id}
  <1>1. <<f>> \in Seq(F) /\ DOMAIN <<f>> = {1} /\ <<f>>[1] = f
    OBVIOUS
  <1> DEFINE s == <<f>>
  <1> HIDE DEF s
  <1>2. s \in Seq(F) /\ DOMAIN s = {1} /\ s[1] = f
    BY <1>1 DEF s
  <1>3. ASSUME NEW x PROVE x \in Ids(s) <=> x # 0 /\ x = f.id
    <2>1. x \in Ids(s) <=> x # 0 /\ \E p \in DOMAIN s : s[p].id = x
      BY <1>2, IdsIn
    <2>2. QED
      BY <1>2, <2>1
  <1>4. Ids(s) = IF f.id = 0 THEN {} ELSE {f.id}
    BY <1>3
  <1>5. QED
    BY <1>2, <1>4 DEF Distinct, s

\* A frame at the end of a queue, which is the first with its number.
LEMMA IdsAppend ==
    ASSUME NEW F, NEW s \in Seq(F), NEW f \in F
    PROVE  /\ Append(s, f) \in Seq(F)
           /\ Ids(Append(s, f)) = IF f.id = 0 THEN Ids(s) ELSE Ids(s) \cup {f.id}
           /\ Distinct(s) /\ f.id \notin Ids(s) => Distinct(Append(s, f))
  <1> DEFINE t == Append(s, f)
             n == Len(s) + 1
  <1>1. /\ t \in Seq(F) /\ n \notin DOMAIN s
        /\ DOMAIN t = DOMAIN s \cup {n} /\ t[n] = f
        /\ \A p \in DOMAIN s : t[p] = s[p]
    OBVIOUS
  <1> HIDE DEF t, n
  <1>2. ASSUME NEW x PROVE x \in Ids(t) <=> x \in Ids(s) \/ (x # 0 /\ x = f.id)
    <2>1. x \in Ids(t) <=> x # 0 /\ \E p \in DOMAIN t : t[p].id = x
      BY <1>1, IdsIn
    <2>2. x \in Ids(s) <=> x # 0 /\ \E p \in DOMAIN s : s[p].id = x
      BY IdsIn
    <2>3. QED
      BY <1>1, <2>1, <2>2
  <1>3. CASE f.id = 0
    <2>1. Ids(t) = Ids(s)
      BY <1>2, <1>3
    <2>2. Distinct(s) => Distinct(t)
      BY <1>1, <1>3 DEF Distinct
    <2>3. QED
      BY <1>1, <1>3, <2>1, <2>2 DEF t
  <1>4. CASE f.id # 0
    <2>1. Ids(t) = Ids(s) \cup {f.id}
      BY <1>2, <1>4
    <2>2. ASSUME Distinct(s), f.id \notin Ids(s) PROVE Distinct(t)
      <3>1. \A p \in DOMAIN s : s[p].id # f.id
        BY <1>4, <2>2, IdsIn
      <3>2. QED
        BY <1>1, <2>2, <3>1 DEF Distinct
    <2>3. QED
      BY <1>1, <1>4, <2>1, <2>2 DEF t
  <1>5. QED
    BY <1>3, <1>4

\* The frame at the head is taken out of a queue.
LEMMA IdsTail ==
    ASSUME NEW F, NEW s \in Seq(F), s # <<>>, Distinct(s)
    PROVE  /\ Head(s) \in F /\ (Head(s).id # 0 => Head(s).id \in Ids(s))
           /\ Tail(s) \in Seq(F) /\ Distinct(Tail(s))
           /\ Ids(Tail(s)) = Ids(s) \ {Head(s).id}
  <1> DEFINE t == Tail(s)
  <1>1. /\ t \in Seq(F) /\ Head(s) = s[1] /\ Head(s) \in F
        /\ Len(s) \in Nat /\ DOMAIN s = 1 .. Len(s) /\ 1 \in DOMAIN s
        /\ DOMAIN t = 1 .. Len(s) - 1
        /\ \A p \in DOMAIN t : p + 1 \in DOMAIN s /\ t[p] = s[p + 1]
    OBVIOUS
  <1> HIDE DEF t
  <1>2. \A x : x \in Ids(s) <=> x # 0 /\ \E p \in DOMAIN s : s[p].id = x
    BY IdsIn
  <1>3. \A x : x \in Ids(t) <=> x # 0 /\ \E p \in DOMAIN t : t[p].id = x
    BY <1>1, IdsIn
  <1>4. ASSUME NEW x PROVE x \in Ids(t) <=> x \in Ids(s) \ {s[1].id}
    <2>1. ASSUME NEW p \in DOMAIN t, t[p].id = x, x # 0
          PROVE  x \in Ids(s) \ {s[1].id}
      <3>1. s[p + 1].id = x /\ p + 1 \in DOMAIN s /\ p + 1 # 1
        BY <1>1, <2>1
      <3>2. s[p + 1].id # s[1].id
        BY <1>1, <2>1, <3>1 DEF Distinct
      <3>3. QED
        BY <1>2, <2>1, <3>1, <3>2
    <2>2. ASSUME NEW p \in DOMAIN s, s[p].id = x, x # s[1].id
          PROVE  \E q \in DOMAIN t : t[q].id = x
      <3>1. p \in 1 .. Len(s)
        BY <1>1, Zenon
      <3>2. p # 1
        BY <2>2, Zenon
      <3>3. p - 1 \in 1 .. Len(s) - 1 /\ (p - 1) + 1 = p
        BY <1>1, <3>1, <3>2
      <3>4. p - 1 \in DOMAIN t
        BY <1>1, <3>3, Zenon
      <3>5. t[p - 1] = s[p]
        BY <1>1, <3>3, <3>4
      <3>6. QED
        BY <2>2, <3>4, <3>5, Zenon
    <2>3. QED
      BY <1>2, <1>3, <2>1, <2>2
  <1>5. Ids(t) = Ids(s) \ {s[1].id}
    BY <1>4
  <1>6. Distinct(t)
    BY <1>1 DEF Distinct
  <1>7. Head(s).id # 0 => Head(s).id \in Ids(s)
    BY <1>1, <1>2
  <1>8. QED
    BY <1>1, <1>5, <1>6, <1>7 DEF t

LEMMA IdsConcat ==
    ASSUME NEW F, NEW s \in Seq(F), NEW t \in Seq(F)
    PROVE  Ids(s \o t) = Ids(s) \cup Ids(t)
  <1> DEFINE u == s \o t
  <1>1. /\ u \in Seq(F) /\ Len(s) \in Nat /\ Len(t) \in Nat
        /\ DOMAIN s = 1 .. Len(s) /\ DOMAIN t = 1 .. Len(t)
        /\ DOMAIN u = 1 .. Len(s) + Len(t)
        /\ \A p \in DOMAIN s : u[p] = s[p]
        /\ \A p \in DOMAIN t : u[p + Len(s)] = t[p]
        /\ \A p \in DOMAIN u : p > Len(s) => u[p] = t[p - Len(s)]
    OBVIOUS
  <1> HIDE DEF u
  <1>2. ASSUME NEW x, \E p \in DOMAIN u : u[p].id = x
        PROVE  (\E p \in DOMAIN s : s[p].id = x) \/ \E p \in DOMAIN t : t[p].id = x
    <2>1. PICK p \in DOMAIN u : u[p].id = x
      BY <1>2
    <2>2. p \in 1 .. Len(s) \/ p - Len(s) \in 1 .. Len(t)
      BY <1>1
    <2>3. p \in 1 .. Len(s) \/ p > Len(s)
      BY <1>1
    <2>4. QED
      BY <1>1, <2>1, <2>2, <2>3
  <1>3. ASSUME NEW x,
               (\E p \in DOMAIN s : s[p].id = x) \/ \E p \in DOMAIN t : t[p].id = x
        PROVE  \E p \in DOMAIN u : u[p].id = x
    <2>1. \A p \in DOMAIN s : p \in DOMAIN u
      BY <1>1
    <2>2. \A p \in DOMAIN t : p + Len(s) \in DOMAIN u
      BY <1>1
    <2>3. QED
      BY <1>1, <1>3, <2>1, <2>2
  <1>4. ASSUME NEW x PROVE x \in Ids(u) <=> x \in Ids(s) \cup Ids(t)
    <2>1. x \in Ids(u) <=> x # 0 /\ \E p \in DOMAIN u : u[p].id = x
      BY <1>1, IdsIn
    <2>2. x \in Ids(s) <=> x # 0 /\ \E p \in DOMAIN s : s[p].id = x
      BY IdsIn
    <2>3. x \in Ids(t) <=> x # 0 /\ \E p \in DOMAIN t : t[p].id = x
      BY IdsIn
    <2>4. QED
      BY <1>2, <1>3, <2>1, <2>2, <2>3
  <1>5. QED
    BY <1>4 DEF u

LEMMA ConcatAppend ==
    ASSUME NEW F, NEW s \in Seq(F), NEW t \in Seq(F), NEW f \in F
    PROVE  s \o Append(t, f) = Append(s \o t, f)
  <1>1. /\ s \o t \in Seq(F) /\ <<f>> \in Seq(F)
        /\ Append(t, f) = t \o <<f>> /\ Append(s \o t, f) = (s \o t) \o <<f>>
    BY ConcatProperties, AppendIsConcat
  <1>2. (s \o t) \o <<f>> = s \o (t \o <<f>>)
    BY <1>1, ConcatAssociative
  <1>3. QED
    BY <1>1, <1>2

\* One request before a queue: it is the head of the whole.
LEMMA ConsTail ==
    ASSUME NEW F, NEW f \in F, NEW t \in Seq(F)
    PROVE  /\ <<f>> \o t \in Seq(F) /\ <<f>> \o t # <<>>
           /\ Head(<<f>> \o t) = f /\ Tail(<<f>> \o t) = t
  <1> DEFINE s == <<f>> \o t
  <1>1. /\ s \in Seq(F) /\ Len(s) = Len(t) + 1 /\ Len(t) \in Nat /\ s[1] = f
        /\ \A i \in 1 .. Len(t) : s[i + 1] = t[i]
    <2>1. <<f>> \in Seq(F) /\ Len(<<f>>) = 1 /\ <<f>>[1] = f
      OBVIOUS
    <2>2. Len(t) \in Nat
      OBVIOUS
    <2> DEFINE u == <<f>>
    <2> HIDE DEF u
    <2>3. /\ u \o t \in Seq(F) /\ Len(u \o t) = Len(u) + Len(t)
          /\ \A i \in 1 .. Len(u) + Len(t) :
                (u \o t)[i] = IF i <= Len(u) THEN u[i] ELSE t[i - Len(u)]
      BY <2>1, ConcatProperties DEF u
    <2>4. Len(u) = 1 /\ u[1] = f
      BY <2>1 DEF u
    <2>5. (u \o t)[1] = f
      BY <2>2, <2>3, <2>4
    <2>6. ASSUME NEW i \in 1 .. Len(t) PROVE (u \o t)[i + 1] = t[i]
      <3>1. i + 1 \in 1 .. 1 + Len(t) /\ ~ (i + 1 <= 1) /\ (i + 1) - 1 = i
        BY <2>2
      <3>2. QED
        BY <2>3, <2>4, <3>1
    <2>7. QED
      BY <2>2, <2>3, <2>4, <2>5, <2>6 DEF u
  <1> HIDE DEF s
  <1>2. s # <<>> /\ Head(s) = f
    BY <1>1
  <1>3. /\ Tail(s) \in Seq(F) /\ Len(Tail(s)) = Len(t)
        /\ \A i \in 1 .. Len(t) : Tail(s)[i] = t[i]
    <2>1. /\ Tail(s) \in Seq(F) /\ Len(Tail(s)) = Len(s) - 1
          /\ \A i \in 1 .. Len(Tail(s)) : Tail(s)[i] = s[i + 1]
      BY <1>1, <1>2, HeadTailProperties
    <2>2. Len(Tail(s)) = Len(t)
      BY <1>1, <2>1
    <2>3. QED
      BY <1>1, <2>1, <2>2
  <1>4. Tail(s) = t
    BY <1>3, SeqEqual
  <1>5. QED
    BY <1>1, <1>2, <1>4 DEF s

LEMMA ConsHeadTail ==
    ASSUME NEW F, NEW t \in Seq(F), t # <<>>
    PROVE  <<Head(t)>> \o Tail(t) = t /\ Head(t) \in F /\ Tail(t) \in Seq(F)
  <1> DEFINE u == <<Head(t)>>
             v == Tail(t)
             s == u \o v
  <1>1. /\ Head(t) \in F /\ v \in Seq(F) /\ Len(v) = Len(t) - 1
        /\ \A i \in 1 .. Len(t) - 1 : v[i] = t[i + 1]
    BY HeadTailProperties
  <1>2. Len(t) \in Nat \ {0} /\ Head(t) = t[1]
    OBVIOUS
  <1>3. u \in Seq(F) /\ Len(u) = 1 /\ u[1] = t[1]
    BY <1>1, <1>2
  <1> HIDE DEF u, v
  <1>4. /\ s \in Seq(F) /\ Len(s) = Len(u) + Len(v)
        /\ \A i \in 1 .. Len(u) + Len(v) :
                s[i] = IF i <= Len(u) THEN u[i] ELSE v[i - Len(u)]
    <2>1. u \in Seq(F) /\ v \in Seq(F)
      BY <1>1, <1>3
    <2>2. QED
      BY <2>1, ConcatProperties
  <1> HIDE DEF s
  <1>5. Len(s) = Len(t)
    BY <1>1, <1>2, <1>3, <1>4
  <1>6. ASSUME NEW i \in 1 .. Len(t) PROVE s[i] = t[i]
    <2>1. CASE i = 1
      BY <1>1, <1>2, <1>3, <1>4, <2>1
    <2>2. CASE i # 1
      <3>1. i - 1 \in 1 .. Len(t) - 1 /\ ~ (i <= 1) /\ (i - 1) + 1 = i
        BY <1>2, <2>2
      <3>2. s[i] = v[i - 1]
        BY <1>1, <1>2, <1>3, <1>4, <3>1
      <3>3. QED
        BY <1>1, <3>1, <3>2
    <2>3. QED
      BY <2>1, <2>2
  <1>7. s = t
    BY <1>4, <1>5, <1>6, SeqEqual
  <1>8. QED
    BY <1>1, <1>7 DEF s, u, v

-----------------------------------------------------------------------------
(* A client keeps its requests in boxes, which are queues: B[x] is the     *)
(* contents of box x.  Of n requests, each is in one place at most.        *)

OneEach(I, B, n) ==
    /\ \A x \in I : Distinct(B[x]) /\ Ids(B[x]) \subseteq 1 .. n
    /\ \A x, y \in I : x # y => Ids(B[x]) \cap Ids(B[y]) = {}

Boxes(I, F, B, n) == B \in [I -> Seq(F)] /\ n \in Nat /\ OneEach(I, B, n)

OneLess(I, B, B2, id) == \A x \in I : Ids(B2[x]) = Ids(B[x]) \ {id}
HeadTaken(B, B2, q) == B2 = [B EXCEPT ![q] = Tail(@)]
Cleared(B, B2, q) == B2 = [B EXCEPT ![q] = <<>>]
Added(B, B2, q, f) == B2 = [B EXCEPT ![q] = Append(@, f)]
Moved(B, B2, p, q, f) == B2 = [B EXCEPT ![p] = <<>>, ![q] = Append(B[q], f)]
Passed(B, B2, p, q) ==
    B2 = [B EXCEPT ![p] = Tail(@), ![q] = Append(@, Head(B[p]))]
Poured(B, B2, p, q) == B2 = [B EXCEPT ![p] = <<>>, ![q] = B[p]]

\* More requests, none of which is in a box.
LEMMA BoxMore ==
    ASSUME NEW I, NEW F, NEW B, NEW n, Boxes(I, F, B, n)
    PROVE  Boxes(I, F, B, n + 1)
  <1>1. n \in Nat /\ n + 1 \in Nat /\ 1 .. n \subseteq 1 .. n + 1
    BY DEF Boxes
  <1>2. QED
    BY <1>1 DEF Boxes, OneEach

\* The head of a box is taken out.
LEMMA BoxTake ==
    ASSUME NEW I, NEW F, NEW B, NEW n, Boxes(I, F, B, n), NEW q \in I, B[q] # <<>>,
           NEW B2, HeadTaken(B, B2, q), NEW h, h = Head(B[q])
    PROVE  /\ Boxes(I, F, B2, n)
           /\ h \in F /\ (h.id # 0 => h.id \in Ids(B[q]))
           /\ OneLess(I, B, B2, h.id)
  <1>1. /\ h \in F /\ (h.id # 0 => h.id \in Ids(B[q]))
        /\ Tail(B[q]) \in Seq(F) /\ Distinct(Tail(B[q]))
        /\ Ids(Tail(B[q])) = Ids(B[q]) \ {h.id}
    BY IdsTail DEF Boxes, OneEach
  <1>2. /\ B2 \in [I -> Seq(F)] /\ B2[q] = Tail(B[q])
        /\ \A x \in I : x # q => B2[x] = B[x]
    BY <1>1 DEF Boxes, HeadTaken
  <1>3. \A x \in I : x # q => h.id \notin Ids(B[x])
    <2>1. CASE h.id = 0
      BY <2>1 DEF Boxes, OneEach
    <2>2. CASE h.id # 0
      BY <1>1, <2>2 DEF Boxes, OneEach
    <2>3. QED
      BY <2>1, <2>2
  <1>4. ASSUME NEW x \in I PROVE Ids(B2[x]) = Ids(B[x]) \ {h.id}
    BY <1>1, <1>2, <1>3
  <1>5. ASSUME NEW x \in I PROVE Distinct(B2[x]) /\ Ids(B2[x]) \subseteq 1 .. n
    BY <1>1, <1>2, <1>4 DEF Boxes, OneEach
  <1>6. ASSUME NEW x \in I, NEW y \in I, x # y
        PROVE  Ids(B2[x]) \cap Ids(B2[y]) = {}
    <2>1. Ids(B[x]) \cap Ids(B[y]) = {}
      BY <1>6 DEF Boxes, OneEach
    <2>2. Ids(B2[x]) \subseteq Ids(B[x]) /\ Ids(B2[y]) \subseteq Ids(B[y])
      BY <1>4
    <2>3. QED
      BY <2>1, <2>2
  <1>7. OneEach(I, B2, n)
    BY <1>5, <1>6 DEF OneEach
  <1>8. Boxes(I, F, B2, n)
    BY <1>2, <1>7 DEF Boxes
  <1>9. QED
    BY <1>1, <1>4, <1>8 DEF OneLess

\* All of a box is taken out.
LEMMA BoxClear ==
    ASSUME NEW I, NEW F, NEW B, NEW n, Boxes(I, F, B, n), NEW q \in I,
           NEW B2, Cleared(B, B2, q)
    PROVE  /\ Boxes(I, F, B2, n)
           /\ \A x \in I : Ids(B2[x]) = IF x = q THEN {} ELSE Ids(B[x])
  <1>1. /\ B2 \in [I -> Seq(F)] /\ B2[q] = <<>>
        /\ \A x \in I : x # q => B2[x] = B[x]
    BY DEF Boxes, Cleared
  <1>2. ASSUME NEW x \in I
        PROVE  /\ Ids(B2[x]) = IF x = q THEN {} ELSE Ids(B[x])
               /\ Distinct(B2[x])
    BY <1>1, IdsEmpty DEF Boxes, OneEach
  <1>3. OneEach(I, B2, n)
    BY <1>2 DEF Boxes, OneEach
  <1>4. QED
    BY <1>1, <1>2, <1>3 DEF Boxes

\* A frame that is no request is put at the end of a box.
LEMMA BoxOwn ==
    ASSUME NEW I, NEW F, NEW B, NEW n, Boxes(I, F, B, n), NEW q \in I,
           NEW f \in F, f.id = 0,
           NEW B2, Added(B, B2, q, f)
    PROVE  Boxes(I, F, B2, n) /\ \A x \in I : Ids(B2[x]) = Ids(B[x])
  <1>1. f.id \notin Ids(B[q])
    BY DEF Boxes, OneEach
  <1>2. /\ Append(B[q], f) \in Seq(F) /\ Distinct(Append(B[q], f))
        /\ Ids(Append(B[q], f)) = Ids(B[q])
    BY <1>1, IdsAppend DEF Boxes, OneEach
  <1>3. /\ B2 \in [I -> Seq(F)] /\ B2[q] = Append(B[q], f)
        /\ \A x \in I : x # q => B2[x] = B[x]
    BY <1>2 DEF Boxes, Added
  <1>4. ASSUME NEW x \in I PROVE Distinct(B2[x]) /\ Ids(B2[x]) = Ids(B[x])
    BY <1>2, <1>3 DEF Boxes, OneEach
  <1>5. OneEach(I, B2, n)
    BY <1>4 DEF Boxes, OneEach
  <1>6. QED
    BY <1>3, <1>4, <1>5 DEF Boxes

\* A new request is put at the end of a box.
LEMMA BoxAdd ==
    ASSUME NEW I, NEW F, NEW B, NEW n, Boxes(I, F, B, n), NEW q \in I,
           NEW f \in F, f.id = n + 1,
           NEW B2, Added(B, B2, q, f)
    PROVE  /\ Boxes(I, F, B2, n + 1)
           /\ Ids(B2[q]) = Ids(B[q]) \cup {n + 1}
           /\ \A x \in I : x # q => B2[x] = B[x]
  <1>1. n \in Nat /\ n + 1 \in Nat /\ n + 1 \notin 1 .. n
        /\ 1 .. n \subseteq 1 .. n + 1 /\ n + 1 \in 1 .. n + 1
    BY DEF Boxes
  <1>2. \A x \in I : n + 1 \notin Ids(B[x])
    BY <1>1 DEF Boxes, OneEach
  <1>3. /\ Append(B[q], f) \in Seq(F) /\ Distinct(Append(B[q], f))
        /\ Ids(Append(B[q], f)) = Ids(B[q]) \cup {n + 1}
    <2>1. /\ Append(B[q], f) \in Seq(F)
          /\ Ids(Append(B[q], f)) = IF f.id = 0 THEN Ids(B[q]) ELSE Ids(B[q]) \cup {f.id}
          /\ Distinct(B[q]) /\ f.id \notin Ids(B[q]) => Distinct(Append(B[q], f))
      BY IdsAppend DEF Boxes
    <2>2. QED
      BY <1>1, <1>2, <2>1 DEF Boxes, OneEach
  <1>4. /\ B2 \in [I -> Seq(F)] /\ B2[q] = Append(B[q], f)
        /\ \A x \in I : x # q => B2[x] = B[x]
    BY <1>3 DEF Boxes, Added
  <1>5. ASSUME NEW x \in I
        PROVE  Ids(B[x]) \subseteq 1 .. n + 1 /\ Distinct(B[x])
    BY <1>1 DEF Boxes, OneEach
  <1>6. ASSUME NEW x \in I PROVE Distinct(B2[x]) /\ Ids(B2[x]) \subseteq 1 .. n + 1
    <2>1. CASE x = q
      BY <1>1, <1>3, <1>4, <1>5, <2>1
    <2>2. CASE x # q
      BY <1>4, <1>5, <2>2
    <2>3. QED
      BY <2>1, <2>2
  <1>7. ASSUME NEW x \in I, NEW y \in I, x # y
        PROVE  Ids(B2[x]) \cap Ids(B2[y]) = {}
    BY <1>2, <1>3, <1>4, <1>7, ZenonT(30) DEF Boxes, OneEach
  <1>8. OneEach(I, B2, n + 1)
    BY <1>6, <1>7 DEF OneEach
  <1>9. QED
    BY <1>1, <1>3, <1>4, <1>8 DEF Boxes

\* The head of one box is put at the end of another.
LEMMA BoxPass ==
    ASSUME NEW I, NEW F, NEW B, NEW n, Boxes(I, F, B, n), NEW p \in I, NEW q \in I,
           p # q, B[p] # <<>>,
           NEW B2, Passed(B, B2, p, q)
    PROVE  /\ Boxes(I, F, B2, n)
           /\ Ids(B2[p]) \cup Ids(B2[q]) = Ids(B[p]) \cup Ids(B[q])
           /\ \A x \in I : x \notin {p, q} => B2[x] = B[x]
  <1> DEFINE h == Head(B[p])
             i == {h.id} \ {0}
  <1>1. /\ h \in F /\ (h.id # 0 => h.id \in Ids(B[p]))
        /\ Tail(B[p]) \in Seq(F) /\ Distinct(Tail(B[p]))
        /\ Ids(Tail(B[p])) = Ids(B[p]) \ {h.id}
    BY IdsTail DEF Boxes, OneEach
  <1>2. B \in [I -> Seq(F)] /\ n \in Nat /\ \A x \in I : 0 \notin Ids(B[x])
    BY DEF Boxes, OneEach
  <1> HIDE DEF h
  <1>3. /\ i \subseteq Ids(B[p]) /\ i \subseteq 1 .. n
        /\ Ids(Tail(B[p])) = Ids(B[p]) \ i
        /\ \A x \in I : x # p => i \cap Ids(B[x]) = {} /\ h.id \notin Ids(B[x])
    BY <1>1, <1>2 DEF Boxes, OneEach
  <1>4. /\ Append(B[q], h) \in Seq(F) /\ Distinct(Append(B[q], h))
        /\ Ids(Append(B[q], h)) = Ids(B[q]) \cup i
    <2>1. /\ Append(B[q], h) \in Seq(F)
          /\ Ids(Append(B[q], h)) = IF h.id = 0 THEN Ids(B[q]) ELSE Ids(B[q]) \cup {h.id}
          /\ Distinct(B[q]) /\ h.id \notin Ids(B[q]) => Distinct(Append(B[q], h))
      BY <1>1, <1>2, IdsAppend
    <2>2. QED
      BY <1>2, <1>3, <2>1 DEF Boxes, OneEach
  <1> HIDE DEF i
  <1>5. /\ B2 \in [I -> Seq(F)]
        /\ B2[q] = Append(B[q], h) /\ B2[p] = Tail(B[p])
        /\ \A x \in I : x \notin {p, q} => B2[x] = B[x]
    <2>1. B2 = [B EXCEPT ![p] = Tail(B[p]), ![q] = Append(B[q], h)]
      BY DEF Passed, h
    <2>2. QED
      BY <1>1, <1>2, <1>4, <2>1
  <1>6. ASSUME NEW x \in I PROVE Distinct(B2[x]) /\ Ids(B2[x]) \subseteq 1 .. n
    <2>1. CASE x = q
      BY <1>3, <1>4, <1>5, <2>1 DEF Boxes, OneEach
    <2>2. CASE x = p
      BY <1>1, <1>5, <2>2 DEF Boxes, OneEach
    <2>3. CASE x \notin {p, q}
      BY <1>5, <2>3 DEF Boxes, OneEach
    <2>4. QED
      BY <2>1, <2>2, <2>3
  <1>7. ASSUME NEW x \in I, x # p, x # q
        PROVE  /\ Ids(B2[x]) \cap Ids(B2[p]) = {}
               /\ Ids(B2[x]) \cap Ids(B2[q]) = {}
    <2>1. /\ Ids(B[x]) \cap Ids(B[p]) = {} /\ Ids(B[x]) \cap Ids(B[q]) = {}
          /\ i \cap Ids(B[x]) = {} /\ B2[x] = B[x]
      BY <1>3, <1>5, <1>7 DEF Boxes, OneEach
    <2>2. QED
      BY <1>3, <1>4, <1>5, <2>1
  <1>8. Ids(B2[p]) \cap Ids(B2[q]) = {}
    <2>1. Ids(B[p]) \cap Ids(B[q]) = {}
      BY DEF Boxes, OneEach
    <2>2. QED
      BY <1>3, <1>4, <1>5, <2>1
  <1>9. ASSUME NEW x \in I, NEW y \in I, x \notin {p, q}, y \notin {p, q}, x # y
        PROVE  Ids(B2[x]) \cap Ids(B2[y]) = {}
    <2>1. B2[x] = B[x] /\ B2[y] = B[y]
      BY <1>5, <1>9
    <2>2. Ids(B[x]) \cap Ids(B[y]) = {}
      BY <1>9 DEF Boxes, OneEach
    <2>3. QED
      BY <2>1, <2>2, Zenon
  <1>10. ASSUME NEW x \in I, NEW y \in I, x # y
         PROVE  Ids(B2[x]) \cap Ids(B2[y]) = {}
    BY <1>7, <1>8, <1>9, <1>10
  <1>11. Boxes(I, F, B2, n)
    BY <1>2, <1>5, <1>6, <1>10 DEF Boxes, OneEach
  <1>12. QED
    BY <1>3, <1>4, <1>5, <1>11

\* The same, with what the two boxes hold as one set.
Together(B, p, q) == Ids(B[p]) \cup Ids(B[q])

LEMMA BoxPassKeeps ==
    ASSUME NEW I, NEW F, NEW B, NEW n, Boxes(I, F, B, n), NEW p \in I, NEW q \in I,
           p # q, B[p] # <<>>,
           NEW B2, Passed(B, B2, p, q)
    PROVE  Boxes(I, F, B2, n) /\ Together(B2, p, q) = Together(B, p, q)
  <1>1. Boxes(I, F, B2, n)
    BY BoxPass
  <1>2. Ids(B2[p]) \cup Ids(B2[q]) = Ids(B[p]) \cup Ids(B[q])
    BY BoxPass
  <1>3. QED
    BY <1>1, <1>2 DEF Together

\* The only frame of one box is put at the end of another.
LEMMA BoxMove ==
    ASSUME NEW I, NEW F, NEW B, NEW n, Boxes(I, F, B, n), NEW p \in I, NEW q \in I,
           p # q, NEW f \in F, B[p] = <<f>>,
           NEW B2, Moved(B, B2, p, q, f)
    PROVE  /\ Boxes(I, F, B2, n) /\ Ids(B2[p]) = {}
           /\ Ids(B2[q]) = Ids(B[q]) \cup Ids(B[p])
           /\ \A x \in I : x \notin {p, q} => B2[x] = B[x]
  <1>1. Head(B[p]) = f /\ Tail(B[p]) = <<>> /\ B[p] # <<>>
    OBVIOUS
  <1>2. Passed(B, B2, p, q)
    BY <1>1 DEF Boxes, Moved, Passed
  <1>3. /\ Boxes(I, F, B2, n)
        /\ Ids(B2[p]) \cup Ids(B2[q]) = Ids(B[p]) \cup Ids(B[q])
        /\ \A x \in I : x \notin {p, q} => B2[x] = B[x]
    <2>1. Boxes(I, F, B2, n)
      BY <1>1, <1>2, BoxPass
    <2>2. Ids(B2[p]) \cup Ids(B2[q]) = Ids(B[p]) \cup Ids(B[q])
      BY <1>1, <1>2, BoxPass
    <2>3. \A x \in I : x \notin {p, q} => B2[x] = B[x]
      BY DEF Boxes, Moved
    <2>4. QED
      BY <2>1, <2>2, <2>3
  <1>4. B2[p] = <<>>
    BY DEF Boxes, Moved
  <1>5. QED
    BY <1>3, <1>4, IdsEmpty

\* What one box holds replaces what another holds.
LEMMA BoxPour ==
    ASSUME NEW I, NEW F, NEW B, NEW n, Boxes(I, F, B, n), NEW p \in I, NEW q \in I,
           p # q,
           NEW B2, Poured(B, B2, p, q)
    PROVE  /\ Boxes(I, F, B2, n) /\ Ids(B2[p]) = {} /\ Ids(B2[q]) = Ids(B[p])
           /\ \A x \in I : x \notin {p, q} => B2[x] = B[x]
  <1>1. /\ B2 \in [I -> Seq(F)] /\ B2[p] = <<>> /\ B2[q] = B[p]
        /\ \A x \in I : x \notin {p, q} => B2[x] = B[x]
    <2>1. B \in [I -> Seq(F)] /\ <<>> \in Seq(F)
      BY DEF Boxes
    <2>2. B2 \in [I -> Seq(F)]
      BY <2>1 DEF Poured
    <2>3. QED
      BY <2>1, <2>2 DEF Poured
  <1>2. ASSUME NEW x \in I PROVE Distinct(B2[x]) /\ Ids(B2[x]) \subseteq 1 .. n
    BY <1>1, IdsEmpty DEF Boxes, OneEach
  <1>3. ASSUME NEW x \in I, NEW y \in I, x # y
        PROVE  Ids(B2[x]) \cap Ids(B2[y]) = {}
    <2>1. CASE x = p \/ y = p
      BY <1>1, <2>1, IdsEmpty
    <2>2. CASE x # p /\ y # p
      BY <1>1, <1>3, <2>2 DEF Boxes, OneEach
    <2>3. QED
      BY <2>1, <2>2
  <1>4. QED
    BY <1>1, <1>2, <1>3, IdsEmpty DEF Boxes, OneEach
-----------------------------------------------------------------------------
(* The order of frames.  R is a set of pairs: <<f, g>> \in R says that f    *)
(* may come before g.                                                      *)

Ordered(R, s) == \A i, j \in DOMAIN s : i < j => <<s[i], s[j]>> \in R
Ahead(R, s, t) == \A i \in DOMAIN s : \A j \in DOMAIN t : <<s[i], t[j]>> \in R

LEMMA AheadEmpty ==
    ASSUME NEW R, NEW s
    PROVE  Ahead(R, s, <<>>) /\ Ahead(R, <<>>, s) /\ Ordered(R, <<>>)
  BY DEF Ahead, Ordered

LEMMA OrderedOne ==
    ASSUME NEW R, NEW f
    PROVE  Ordered(R, <<f>>)
  BY DEF Ordered

\* Queues put one behind the other.
LEMMA ConcatAt ==
    ASSUME NEW F, NEW s \in Seq(F), NEW t \in Seq(F)
    PROVE  /\ s \o t \in Seq(F) /\ Len(s) \in Nat
           /\ \A i \in DOMAIN (s \o t) :
                 \/ i \in DOMAIN s /\ i <= Len(s) /\ (s \o t)[i] = s[i]
                 \/ /\ i - Len(s) \in DOMAIN t /\ i > Len(s)
                    /\ (s \o t)[i] = t[i - Len(s)]
  OBVIOUS

LEMMA AheadConcat ==
    ASSUME NEW R, NEW F, NEW s \in Seq(F), NEW t \in Seq(F), NEW u
    PROVE  /\ Ahead(R, s, u) /\ Ahead(R, t, u) => Ahead(R, s \o t, u)
           /\ Ahead(R, u, s) /\ Ahead(R, u, t) => Ahead(R, u, s \o t)
  <1> DEFINE v == s \o t
  <1>1. \A i \in DOMAIN v : \/ i \in DOMAIN s /\ v[i] = s[i]
                            \/ i - Len(s) \in DOMAIN t /\ v[i] = t[i - Len(s)]
    BY ConcatAt
  <1> HIDE DEF v
  <1>2. QED
    BY <1>1 DEF Ahead, v

LEMMA OrderedConcat ==
    ASSUME NEW R, NEW F, NEW s \in Seq(F), NEW t \in Seq(F),
           Ordered(R, s), Ordered(R, t), Ahead(R, s, t)
    PROVE  Ordered(R, s \o t)
  <1> DEFINE v == s \o t
  <1>1. /\ Len(s) \in Nat /\ DOMAIN v \subseteq Nat
        /\ \A i \in DOMAIN v :
              \/ i \in DOMAIN s /\ i <= Len(s) /\ v[i] = s[i]
              \/ i - Len(s) \in DOMAIN t /\ i > Len(s) /\ v[i] = t[i - Len(s)]
    BY ConcatAt
  <1> HIDE DEF v
  <1>2. ASSUME NEW i \in DOMAIN v, NEW j \in DOMAIN v, i < j
        PROVE  <<v[i], v[j]>> \in R
    <2>1. i \in Nat /\ j \in Nat
      BY <1>1
    <2>2. CASE j <= Len(s)
      <3>1. i \in DOMAIN s /\ j \in DOMAIN s /\ v[i] = s[i] /\ v[j] = s[j]
        BY <1>1, <1>2, <2>1, <2>2
      <3>2. QED
        BY <1>2, <3>1 DEF Ordered
    <2>3. CASE i <= Len(s) /\ j > Len(s)
      <3>1. i \in DOMAIN s /\ v[i] = s[i]
            /\ j - Len(s) \in DOMAIN t /\ v[j] = t[j - Len(s)]
        BY <1>1, <2>1, <2>3
      <3>2. QED
        BY <3>1 DEF Ahead
    <2>4. CASE i > Len(s) /\ j > Len(s)
      <3>1. /\ i - Len(s) \in DOMAIN t /\ v[i] = t[i - Len(s)]
            /\ j - Len(s) \in DOMAIN t /\ v[j] = t[j - Len(s)]
            /\ i - Len(s) < j - Len(s)
        BY <1>1, <1>2, <2>1, <2>4
      <3>2. QED
        BY <3>1 DEF Ordered
    <2>5. QED
      BY <1>1, <1>2, <2>1, <2>2, <2>3, <2>4
  <1>3. QED
    BY <1>2 DEF Ordered, v

\* The head of a queue, and what is left when it is taken.
LEMMA AheadParts ==
    ASSUME NEW R, NEW F, NEW s \in Seq(F), s # <<>>, NEW u
    PROVE  /\ Ahead(R, s, u) => Ahead(R, <<Head(s)>>, u) /\ Ahead(R, Tail(s), u)
           /\ Ahead(R, u, s) => Ahead(R, u, <<Head(s)>>) /\ Ahead(R, u, Tail(s))
           /\ Ordered(R, s) => Ordered(R, Tail(s)) /\ Ahead(R, <<Head(s)>>, Tail(s))
  <1> DEFINE h == <<Head(s)>>
             t == Tail(s)
  <1>1. /\ 1 \in DOMAIN s /\ \A i \in DOMAIN h : h[i] = s[1]
        /\ DOMAIN t \subseteq Nat
        /\ \A i \in DOMAIN t : i + 1 \in DOMAIN s /\ i + 1 > 1 /\ t[i] = s[i + 1]
    OBVIOUS
  <1> HIDE DEF h, t
  <1>2. /\ Ahead(R, s, u) => Ahead(R, h, u) /\ Ahead(R, t, u)
        /\ Ahead(R, u, s) => Ahead(R, u, h) /\ Ahead(R, u, t)
    BY <1>1 DEF Ahead
  <1>3. Ordered(R, s) => Ahead(R, h, t)
    BY <1>1 DEF Ordered, Ahead
  <1>4. ASSUME Ordered(R, s), NEW i \in DOMAIN t, NEW j \in DOMAIN t, i < j
        PROVE  <<t[i], t[j]>> \in R
    <2>1. i + 1 < j + 1
      BY <1>1, <1>4
    <2>2. QED
      BY <1>1, <1>4, <2>1 DEF Ordered
  <1>5. QED
    BY <1>2, <1>3, <1>4 DEF Ordered, h, t

\* A queue that loses a part of its middle stays in order, behind and before
\* what it was.
LEMMA MiddleLost ==
    ASSUME NEW R, NEW F, NEW s \in Seq(F), NEW t \in Seq(F), NEW u \in Seq(F),
           NEW v
    PROVE  /\ Ordered(R, (s \o t) \o u) => Ordered(R, s \o u)
           /\ Ahead(R, (s \o t) \o u, v) => Ahead(R, s \o u, v)
  <1> DEFINE a == (s \o t) \o u
             b == s \o u
             at(i) == IF i <= Len(s) THEN i ELSE i + Len(t)
  <1>1. /\ DOMAIN b \subseteq Nat
        /\ \A i \in DOMAIN b : at(i) \in DOMAIN a /\ b[i] = a[at(i)]
    BY SMTT(30)
  <1>2. \A i, j \in Nat : i < j => at(i) < at(j)
    BY LenProperties
  <1> HIDE DEF a, b, at
  <1>3. Ordered(R, a) => Ordered(R, b)
    <2> SUFFICES ASSUME Ordered(R, a), NEW i \in DOMAIN b, NEW j \in DOMAIN b, i < j
                 PROVE  <<b[i], b[j]>> \in R
      BY DEF Ordered
    <2>1. at(i) \in DOMAIN a /\ at(j) \in DOMAIN a /\ at(i) < at(j)
      BY <1>1, <1>2
    <2>2. QED
      BY <1>1, <2>1 DEF Ordered
  <1>4. Ahead(R, a, v) => Ahead(R, b, v)
    BY <1>1 DEF Ahead
  <1>5. QED
    BY <1>3, <1>4 DEF a, b
=============================================================================
