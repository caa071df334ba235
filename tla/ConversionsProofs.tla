--------------------------- MODULE ConversionsProofs ---------------------------
(* Proofs about Conversions, for texts and keys of any length: what Matches
   computes is that a text can be cut into parts that the tokens of the key stand
   for, and a path means the same whichever separators it is written with.

   Induction over the key is by its shortest prefix for which a claim fails.   *)
EXTENDS Conversions, WellFoundedInduction, TLAPS

LEMMA Least ==
  ASSUME NEW S \in SUBSET Nat, S # {}
  PROVE  \E n \in S : \A m \in S : n <= m
PROOF
  <1>1. OpToRel(<, Nat) = {ss \in Nat \X Nat : ss[1] < ss[2]}
    BY DEF OpToRel
  <1>2. PICK n \in S : \A m \in S : ~ (<<m, n>> \in OpToRel(<, Nat))
    BY NatLessThanWellFounded, WFMin
  <1>3. ASSUME NEW m \in S
        PROVE  n <= m
    <2>1. <<m, n>> \notin {ss \in Nat \X Nat : ss[1] < ss[2]}
      BY <1>1, <1>2, Zenon
    <2>2. ~ (m < n)
      BY <2>1
    <2> QED
      BY <2>2
  <1> QED
    BY <1>3

-----------------------------------------------------------------------------
(* The table of Matches: where matches of the first j tokens of the key can end. *)

Table(E, text, key, n) ==
  E = [j \in 0 .. n |-> IF j = 0 THEN {0} ELSE Ends(text, key[j], E[j - 1])]

LEMMA TableExtends ==
  ASSUME NEW text, NEW key, NEW n \in Nat, NEW E, Table(E, text, key, n)
  PROVE  \E F : Table(F, text, key, n + 1)
PROOF
  <1> DEFINE F == [j \in 0 .. n + 1 |-> IF j = n + 1 THEN Ends(text, key[n + 1], E[n]) ELSE E[j]]
  <1>1. ASSUME NEW j \in 0 .. n + 1
        PROVE  F[j] = IF j = 0 THEN {0} ELSE Ends(text, key[j], F[j - 1])
    <2>1. CASE j = n + 1
      <3>1. n \in 0 .. n + 1 /\ n # n + 1 /\ j - 1 = n /\ j # 0
        BY <2>1
      <3>2. F[n] = E[n]
        BY <3>1
      <3> QED
        BY <2>1, <3>1, <3>2
    <2>2. CASE j # n + 1
      <3>1. j \in 0 .. n
        BY <2>2
      <3>2. E[j] = IF j = 0 THEN {0} ELSE Ends(text, key[j], E[j - 1])
        BY <3>1 DEF Table
      <3>3. j # 0 => j - 1 \in 0 .. n + 1 /\ j - 1 # n + 1
        BY <3>1
      <3>4. F[j] = E[j] /\ (j # 0 => F[j - 1] = E[j - 1])
        BY <2>2, <3>3
      <3> QED
        BY <3>2, <3>4
    <2> QED
      BY <2>1, <2>2
  <1>2. F = [j \in 0 .. n + 1 |-> F[j]]
    OBVIOUS
  <1> HIDE DEF F
  <1>3. F = [j \in 0 .. n + 1 |-> IF j = 0 THEN {0} ELSE Ends(text, key[j], F[j - 1])]
    BY <1>1, <1>2
  <1> QED
    BY <1>3 DEF Table

LEMMA TableExists ==
  ASSUME NEW text, NEW key, NEW n \in Nat
  PROVE  \E E : Table(E, text, key, n)
PROOF
  <1> DEFINE S == {m \in Nat : ~ \E E : Table(E, text, key, m)}
  <1>1. SUFFICES ASSUME S # {}
                 PROVE  FALSE
    OBVIOUS
  <1>2. PICK m \in S : \A k \in S : m <= k
    BY <1>1, Least
  <1>3. CASE m = 0
    <2> DEFINE E == [j \in 0 .. 0 |-> {0}]
    <2>1. Table(E, text, key, 0)
      BY DEF Table
    <2> QED
      BY <1>3, <2>1
  <1>4. CASE m # 0
    <2>1. m - 1 \in Nat /\ m - 1 \notin S /\ (m - 1) + 1 = m
      BY <1>2, <1>4
    <2>2. PICK E : Table(E, text, key, m - 1)
      BY <2>1
    <2> QED
      BY <2>1, <2>2, TableExtends
  <1> QED
    BY <1>3, <1>4

LEMMA MatchesByTable ==
  ASSUME NEW text, NEW S, NEW key \in Seq(S)
  PROVE  \E E : /\ Table(E, text, key, Len(key))
                /\ Matches(text, key) <=> Len(text) \in E[Len(key)]
PROOF
  <1> DEFINE E == CHOOSE F : F = [j \in 0 .. Len(key) |->
                                   IF j = 0 THEN {0} ELSE Ends(text, key[j], F[j - 1])]
  <1>1. E = CHOOSE F : Table(F, text, key, Len(key))
    BY DEF Table
  <1>2. Matches(text, key) <=> Len(text) \in E[Len(key)]
    BY DEF Matches
  <1>3. Len(key) \in Nat
    OBVIOUS
  <1> HIDE DEF E
  <1>4. Table(E, text, key, Len(key))
    BY <1>1, <1>3, TableExists, Zenon
  <1> QED
    BY <1>2, <1>4

-----------------------------------------------------------------------------
(* Matching a regular expression whose tokens stand for one token each, or, "*",
   for any number: the key cuts the text, token k standing for what is between
   the cuts k - 1 and k.                                                       *)

Stands(token, text, from, to) ==
  IF token = "*" THEN from <= to ELSE to = from + 1 /\ Same(token, text[to])

Cuts(cut, text, key, n) ==
  /\ cut \in [0 .. n -> 0 .. Len(text)]
  /\ cut[0] = 0
  /\ \A k \in 1 .. n : Stands(key[k], text, cut[k - 1], cut[k])

Reaches(text, key, n, i) == \E cut : Cuts(cut, text, key, n) /\ cut[n] = i
Cuttable(text, key)      == Reaches(text, key, Len(key), Len(text))

LEMMA OneMoreCut ==
  ASSUME NEW T, NEW text \in Seq(T), NEW key, NEW n \in Nat, NEW i \in 0 .. Len(text)
  PROVE  Reaches(text, key, n + 1, i) <=>
           \E h \in 0 .. Len(text) : Reaches(text, key, n, h) /\ Stands(key[n + 1], text, h, i)
PROOF
  <1>1. ASSUME Reaches(text, key, n + 1, i)
        PROVE  \E h \in 0 .. Len(text) : Reaches(text, key, n, h) /\ Stands(key[n + 1], text, h, i)
    <2>1. PICK cut : Cuts(cut, text, key, n + 1) /\ cut[n + 1] = i
      BY <1>1 DEF Reaches
    <2> DEFINE c == [k \in 0 .. n |-> cut[k]]
    <2>2. Cuts(c, text, key, n) /\ c[n] = cut[n]
      BY <2>1 DEF Cuts
    <2>3. cut[n] \in 0 .. Len(text) /\ Stands(key[n + 1], text, cut[n], i)
      <3>1. n + 1 \in 1 .. n + 1 /\ (n + 1) - 1 = n /\ n \in 0 .. n + 1
        OBVIOUS
      <3> QED
        BY <2>1, <3>1 DEF Cuts
    <2> HIDE DEF c
    <2> QED
      BY <2>2, <2>3 DEF Reaches
  <1>2. ASSUME NEW h \in 0 .. Len(text), Reaches(text, key, n, h), Stands(key[n + 1], text, h, i)
        PROVE  Reaches(text, key, n + 1, i)
    <2>1. PICK cut : Cuts(cut, text, key, n) /\ cut[n] = h
      BY <1>2 DEF Reaches
    <2> DEFINE c == [k \in 0 .. n + 1 |-> IF k = n + 1 THEN i ELSE cut[k]]
    <2>2. /\ c \in [0 .. n + 1 -> 0 .. Len(text)]
          /\ c[n + 1] = i /\ \A k \in 0 .. n : c[k] = cut[k]
      BY <2>1 DEF Cuts
    <2> HIDE DEF c
    <2>3. c[0] = 0 /\ c[n] = h
      BY <2>1, <2>2 DEF Cuts
    <2>4. ASSUME NEW k \in 1 .. n + 1
          PROVE  Stands(key[k], text, c[k - 1], c[k])
      <3>1. CASE k = n + 1
        <4>1. k - 1 = n
          BY <3>1
        <4> QED
          BY <1>2, <2>2, <2>3, <3>1, <4>1
      <3>2. CASE k # n + 1
        <4>1. k \in 1 .. n /\ k \in 0 .. n /\ k - 1 \in 0 .. n
          BY <3>2
        <4> QED
          BY <2>1, <2>2, <4>1 DEF Cuts
      <3> QED
        BY <3>1, <3>2
    <2> QED
      BY <2>2, <2>3, <2>4 DEF Reaches, Cuts
  <1> QED
    BY <1>1, <1>2

LEMMA NoCut ==
  ASSUME NEW T, NEW text \in Seq(T), NEW key, NEW i \in 0 .. Len(text)
  PROVE  Reaches(text, key, 0, i) <=> i = 0
PROOF
  <1> DEFINE c == [k \in 0 .. 0 |-> 0]
  <1>1. Len(text) \in Nat
    OBVIOUS
  <1>2. Cuts(c, text, key, 0) /\ c[0] = 0
    BY <1>1 DEF Cuts
  <1>3. \A cut : Cuts(cut, text, key, 0) => cut[0] = 0
    BY DEF Cuts
  <1> HIDE DEF c
  <1> QED
    BY <1>2, <1>3 DEF Reaches

LEMMA TableReaches ==
  ASSUME NEW T, NEW text \in Seq(T), NEW key, NEW n \in Nat,
         NEW E, Table(E, text, key, n), NEW j \in 0 .. n
  PROVE  E[j] = {i \in 0 .. Len(text) : Reaches(text, key, j, i)}
PROOF
  <1> DEFINE R(m) == {i \in 0 .. Len(text) : Reaches(text, key, m, i)}
             S == {m \in 0 .. n : E[m] # R(m)}
  <1>1. SUFFICES ASSUME S # {}
                 PROVE  FALSE
    OBVIOUS
  <1>2. PICK m \in S : \A k \in S : m <= k
    <2>1. S \in SUBSET Nat
      OBVIOUS
    <2> HIDE DEF S
    <2> QED
      BY <1>1, <2>1, Least
  <1>3. E[m] = IF m = 0 THEN {0} ELSE Ends(text, key[m], E[m - 1])
    BY <1>2 DEF Table
  <1>4. Len(text) \in Nat
    OBVIOUS
  <1>5. CASE m = 0
    BY <1>2, <1>3, <1>4, <1>5, NoCut
  <1>6. CASE m # 0
    <2>1. m - 1 \in 0 .. n /\ m - 1 \in Nat /\ (m - 1) + 1 = m /\ ~ (m <= m - 1)
      BY <1>2, <1>6
    <2>2. E[m - 1] = R(m - 1)
      BY <1>2, <2>1
    <2>3. ASSUME NEW i \in 0 .. Len(text)
          PROVE  Reaches(text, key, m, i) <=>
                   \E h \in 0 .. Len(text) : h \in E[m - 1] /\ Stands(key[m], text, h, i)
      <3>1. Reaches(text, key, (m - 1) + 1, i) <=>
              \E h \in 0 .. Len(text) :
                Reaches(text, key, m - 1, h) /\ Stands(key[(m - 1) + 1], text, h, i)
        BY <2>1, OneMoreCut
      <3> QED
        BY <2>1, <2>2, <3>1
    <2>4. E[m] = Ends(text, key[m], E[m - 1]) /\ E[m - 1] \subseteq 0 .. Len(text)
      BY <1>3, <1>6, <2>2
    <2>5. ASSUME NEW i \in 0 .. Len(text)
          PROVE  i \in Ends(text, key[m], E[m - 1]) <=>
                   \E h \in 0 .. Len(text) : h \in E[m - 1] /\ Stands(key[m], text, h, i)
      <3>1. CASE key[m] = "*"
        BY <2>4, <3>1 DEF Ends, Stands
      <3>2. CASE key[m] # "*"
        <4>1. \A h \in 0 .. Len(text) : i = h + 1 <=> (h = i - 1 /\ i \in 1 .. Len(text))
          BY <1>4
        <4>2. i \in 1 .. Len(text) => i - 1 \in 0 .. Len(text)
          BY <1>4
        <4> QED
          BY <3>2, <4>1, <4>2 DEF Ends, Stands
      <3> QED
        BY <3>1, <3>2
    <2>6. Ends(text, key[m], E[m - 1]) \subseteq 0 .. Len(text)
      BY <1>4 DEF Ends
    <2> QED
      BY <1>2, <2>3, <2>4, <2>5, <2>6
  <1> QED
    BY <1>5, <1>6

(* checkSignalAccess matches a path with a key as with a regular expression whose
   "*" stands for any text: with nothing, with a name, and across separators.  *)
THEOREM MatchesIsCutting ==
  ASSUME NEW T, NEW text \in Seq(T), NEW S, NEW key \in Seq(S)
  PROVE  Matches(text, key) <=> Cuttable(text, key)
PROOF
  <1>1. PICK E : /\ Table(E, text, key, Len(key))
                 /\ Matches(text, key) <=> Len(text) \in E[Len(key)]
    BY MatchesByTable
  <1>2. Len(key) \in Nat /\ Len(key) \in 0 .. Len(key) /\ Len(text) \in 0 .. Len(text)
    OBVIOUS
  <1>3. E[Len(key)] = {i \in 0 .. Len(text) : Reaches(text, key, Len(key), i)}
    BY <1>1, <1>2, TableReaches
  <1> QED
    BY <1>1, <1>2, <1>3 DEF Cuttable

(* Every text matches itself, taken as a key. *)
LEMMA MatchesItself ==
  ASSUME NEW T, NEW text \in Seq(T)
  PROVE  Matches(text, text)
PROOF
  <1> DEFINE c == [k \in 0 .. Len(text) |-> k]
  <1>1. Len(text) \in Nat
    OBVIOUS
  <1>2. /\ c \in [0 .. Len(text) -> 0 .. Len(text)]
        /\ \A k \in 0 .. Len(text) : c[k] = k
    OBVIOUS
  <1> HIDE DEF c
  <1>3. \A k \in 1 .. Len(text) : k - 1 \in 0 .. Len(text) /\ k \in 0 .. Len(text)
                                  /\ k - 1 <= k /\ k = (k - 1) + 1
    BY <1>1
  <1>4. \A k \in 1 .. Len(text) : Stands(text[k], text, c[k - 1], c[k])
    BY <1>2, <1>3 DEF Stands, Same
  <1>5. 0 \in 0 .. Len(text) /\ Len(text) \in 0 .. Len(text)
    BY <1>1
  <1> QED
    BY <1>2, <1>4, <1>5, MatchesIsCutting DEF Cuttable, Reaches, Cuts

-----------------------------------------------------------------------------
(* Notations *)

(* A text of the same length, each token of which is matched by what the token of
   the first is matched by, matches the keys that the first one does.          *)
LEMMA MatchesLikewise ==
  ASSUME NEW T, NEW s \in Seq(T), NEW U, NEW t \in Seq(U),
         NEW R, NEW a \in Seq(R), NEW S, NEW b \in Seq(S),
         Len(s) = Len(t), Len(a) = Len(b),
         \A k \in 1 .. Len(a) : a[k] = "*" <=> b[k] = "*",
         \A k \in 1 .. Len(a), i \in 1 .. Len(s) :
           a[k] # "*" /\ Same(a[k], s[i]) => Same(b[k], t[i]),
         Matches(s, a)
  PROVE  Matches(t, b)
PROOF
  <1>0. Len(s) \in Nat /\ Len(a) \in Nat
    OBVIOUS
  <1>1. PICK cut : Cuts(cut, s, a, Len(a)) /\ cut[Len(a)] = Len(s)
    BY MatchesIsCutting DEF Cuttable, Reaches
  <1>2. ASSUME NEW k \in 1 .. Len(a)
        PROVE  Stands(b[k], t, cut[k - 1], cut[k])
    <2>1. Stands(a[k], s, cut[k - 1], cut[k])
      BY <1>1 DEF Cuts
    <2>2. cut[k] \in 0 .. Len(s) /\ cut[k - 1] \in 0 .. Len(s)
      <3>1. k \in 0 .. Len(a) /\ k - 1 \in 0 .. Len(a)
        BY <1>0
      <3>2. cut \in [0 .. Len(a) -> 0 .. Len(s)]
        BY <1>1 DEF Cuts
      <3> QED
        BY <3>1, <3>2
    <2>3. cut[k] = cut[k - 1] + 1 => cut[k] \in 1 .. Len(s)
      BY <1>0, <2>2
    <2> QED
      BY <2>1, <2>3 DEF Stands
  <1>3. Cuts(cut, t, b, Len(b)) /\ cut[Len(b)] = Len(t)
    BY <1>1, <1>2 DEF Cuts
  <1> QED
    BY <1>3, MatchesIsCutting DEF Cuttable, Reaches

LEMMA ConvertedTypes ==
  ASSUME NEW T, NEW text \in Seq(T)
  PROVE  /\ gen1togen2(text) \in Seq(T \cup {".", "/"}) /\ Len(gen1togen2(text)) = Len(text)
         /\ gen2togen1(text) \in Seq(T \cup {".", "/"}) /\ Len(gen2togen1(text)) = Len(text)
         /\ \A i \in 1 .. Len(text) :
              /\ gen1togen2(text)[i] = IF text[i] = "." THEN "/" ELSE text[i]
              /\ gen2togen1(text)[i] = IF text[i] = "/" THEN "." ELSE text[i]
PROOF
  <1>1. Len(text) \in Nat /\ DOMAIN text = 1 .. Len(text) /\ \A i \in 1 .. Len(text) : text[i] \in T
    OBVIOUS
  <1> DEFINE U == T \cup {".", "/"}
  <1>2. ASSUME NEW n \in Nat, NEW f, DOMAIN f = 1 .. n, f = [i \in 1 .. n |-> f[i]],
               \A i \in 1 .. n : f[i] \in U
        PROVE  f \in Seq(U) /\ Len(f) = n
    BY <1>2
  <1>3. ASSUME NEW a, NEW b \in U
        PROVE  LET f == [i \in DOMAIN text |-> IF text[i] = a THEN b ELSE text[i]] IN
               /\ f \in Seq(U) /\ Len(f) = Len(text)
               /\ \A i \in 1 .. Len(text) : f[i] = IF text[i] = a THEN b ELSE text[i]
    <2> DEFINE f == [i \in DOMAIN text |-> IF text[i] = a THEN b ELSE text[i]]
    <2>1. \A i \in 1 .. Len(text) : f[i] = IF text[i] = a THEN b ELSE text[i]
      BY <1>1
    <2>2. /\ DOMAIN f = 1 .. Len(text) /\ f = [i \in 1 .. Len(text) |-> f[i]]
          /\ \A i \in 1 .. Len(text) : f[i] \in U
      BY <1>1
    <2> HIDE DEF f
    <2>3. f \in Seq(U) /\ Len(f) = Len(text)
      BY <1>1, <1>2, <2>2
    <2> QED
      BY <2>1, <2>3 DEF f
  <1>4. "." \in U /\ "/" \in U
    OBVIOUS
  <1> DEFINE y == [i \in DOMAIN text |-> IF text[i] = "." THEN "/" ELSE text[i]]
             z == [i \in DOMAIN text |-> IF text[i] = "/" THEN "." ELSE text[i]]
  <1>5. /\ y \in Seq(U) /\ Len(y) = Len(text)
        /\ \A i \in 1 .. Len(text) : y[i] = IF text[i] = "." THEN "/" ELSE text[i]
    BY <1>3, <1>4
  <1>6. /\ z \in Seq(U) /\ Len(z) = Len(text)
        /\ \A i \in 1 .. Len(text) : z[i] = IF text[i] = "/" THEN "." ELSE text[i]
    BY <1>3, <1>4
  <1>7. gen1togen2(text) = y /\ gen2togen1(text) = z
    BY DEF gen1togen2, gen2togen1
  <1> HIDE DEF y, z
  <1> QED
    BY <1>5, <1>6, <1>7

LEMMA Gen1Types ==
  ASSUME NEW T, NEW text \in Seq(T)
  PROVE  /\ VSSGen1Path(text) \in Seq(T \cup {".", "/"}) /\ Len(VSSGen1Path(text)) = Len(text)
         /\ \A i \in 1 .. Len(text) :
              \/ VSSGen1Path(text)[i] = text[i]
              \/ text[i] = "/" /\ VSSGen1Path(text)[i] = "."
PROOF
  BY ConvertedTypes DEF VSSGen1Path

(* A key of a token is the same key with its slashes turned into dots: it matches
   no less.                                                                    *)
LEMMA KeyNotation ==
  ASSUME NEW T, NEW path \in Seq(T), NEW S, NEW key \in Seq(S), Matches(path, key)
  PROVE  Matches(path, gen2togen1(key))
PROOF
  <1> DEFINE k2 == gen2togen1(key)
  <1>1. k2 \in Seq(S \cup {".", "/"}) /\ Len(k2) = Len(key)
    BY ConvertedTypes
  <1>2. \A k \in 1 .. Len(key) : k2[k] = IF key[k] = "/" THEN "." ELSE key[k]
    BY ConvertedTypes
  <1> HIDE DEF k2
  <1>3. \A k \in 1 .. Len(key) : key[k] = "*" <=> k2[k] = "*"
    BY <1>2
  <1>4. \A k \in 1 .. Len(key), i \in 1 .. Len(path) :
          key[k] # "*" /\ Same(key[k], path[i]) => Same(k2[k], path[i])
    BY <1>2 DEF Same
  <1>5. Matches(path, k2)
    BY <1>1, <1>3, <1>4, MatchesLikewise
  <1> QED
    BY <1>5 DEF k2

(* A path selects the same nodes whatever its separators are, and with slashes
   only or dots only its rights are looked up under the same name.             *)
LEMMA NotationsAgree ==
  ASSUME NEW T, NEW text \in Seq(T)
  PROVE  LET y == gen1togen2(text)
             z == [i \in DOMAIN text |-> IF text[i] = "/" THEN "." ELSE text[i]] IN
         /\ VSSPath(text) = VSSPath(y) /\ VSSPath(y) = VSSPath(z)
         /\ VSSGen1Path(y) = VSSGen1Path(z)
PROOF
  <1> DEFINE y == gen1togen2(text)
             z == gen2togen1(text)
  <1>1. /\ DOMAIN y = DOMAIN text /\ DOMAIN z = DOMAIN text
        /\ y = [i \in DOMAIN text |-> y[i]] /\ z = [i \in DOMAIN text |-> z[i]]
        /\ \A i \in DOMAIN text : /\ y[i] = IF text[i] = "." THEN "/" ELSE text[i]
                                  /\ z[i] = IF text[i] = "/" THEN "." ELSE text[i]
    BY DEF gen1togen2, gen2togen1
  <1> HIDE DEF y, z
  <1>2. ~ IsGen1Origin(y)
    BY <1>1 DEF IsGen1Origin
  <1>3. gen2togen1(y) = z
    BY <1>1 DEF gen2togen1
  <1>4. gen1togen2(z) = y
    BY <1>1 DEF gen1togen2
  <1>5. VSSPath(y) = y /\ VSSGen1Path(y) = z
    BY <1>2, <1>3 DEF VSSPath, VSSGen1Path
  <1>6. ASSUME IsGen1Origin(z)
        PROVE  VSSPath(z) = y /\ VSSGen1Path(z) = z
    BY <1>4, <1>6 DEF VSSPath, VSSGen1Path
  <1>7. ASSUME ~ IsGen1Origin(z)
        PROVE  y = z
    <2>1. \A i \in DOMAIN text : y[i] = z[i]
      BY <1>1, <1>7 DEF IsGen1Origin
    <2> QED
      BY <1>1, <2>1
  <1>8. VSSPath(y) = VSSPath(z) /\ VSSGen1Path(y) = VSSGen1Path(z)
    BY <1>5, <1>6, <1>7
  <1>9. VSSPath(text) = y
    <2>1. CASE IsGen1Origin(text)
      BY <2>1 DEF VSSPath, y
    <2>2. CASE ~ IsGen1Origin(text)
      <3>1. \A i \in DOMAIN text : y[i] = text[i]
        BY <1>1, <2>2 DEF IsGen1Origin
      <3>2. text = [i \in DOMAIN text |-> text[i]]
        OBVIOUS
      <3>3. y = text
        BY <1>1, <3>1, <3>2
      <3> QED
        BY <2>2, <3>3 DEF VSSPath
    <2> QED
      BY <2>1, <2>2
  <1> QED
    BY <1>5, <1>8, <1>9 DEF y, z, gen2togen1

-----------------------------------------------------------------------------
(* A text of names and separators in turn. *)
Alternates(text) ==
  Len(text) % 2 = 1 /\ \A i \in DOMAIN text : text[i] \in {".", "/"} <=> i % 2 = 0

LEMMA DottedTypes ==
  ASSUME NEW T, NEW l \in Seq(T), l # <<>>
  PROVE  /\ Dotted(l) \in Seq(T \cup {"."}) /\ Len(Dotted(l)) = 2 * Len(l) - 1
         /\ \A p \in 1 .. 2 * Len(l) - 1 :
              Dotted(l)[p] = IF p % 2 = 1 THEN l[(p + 1) \div 2] ELSE "."
PROOF
  <1> DEFINE n == 2 * Len(l) - 1
  <1>1. Len(l) \in Nat /\ n \in Nat
    OBVIOUS
  <1>2. ASSUME NEW p \in 1 .. n, p % 2 = 1
        PROVE  l[(p + 1) \div 2] \in T
    <2>1. (p + 1) \div 2 \in 1 .. Len(l)
      BY <1>1, <1>2
    <2> QED
      BY <2>1
  <1>3. Dotted(l) = [p \in 1 .. n |-> IF p % 2 = 1 THEN l[(p + 1) \div 2] ELSE "."]
    BY DEF Dotted
  <1> HIDE DEF n
  <1>4. Dotted(l) \in [1 .. n -> T \cup {"."}]
    BY <1>2, <1>3
  <1>5. Dotted(l) \in Seq(T \cup {"."}) /\ Len(Dotted(l)) = n
    BY <1>1, <1>4
  <1> QED
    BY <1>3, <1>5 DEF n

(* What a path that selects a node says of its tokens. *)
LEMMA SelectedTokens ==
  ASSUME NEW T, NEW x \in Seq(T), Alternates(x), NEW U, NEW l \in Seq(U), l # <<>>,
         Selects(JSONPath(x), l)
  PROVE  /\ Len(x) = 2 * Len(l) - 1
         /\ \A p \in 1 .. Len(x) :
              IF p % 2 = 1 THEN x[p] \in {"*", Dotted(l)[p]} \ {".", "/"}
              ELSE x[p] \in {".", "/"} /\ Dotted(l)[p] = "."
PROOF
  <1> DEFINE v == VSSPath(x)
             m == (Len(v) + 1) \div 2
  <1>1. Len(x) \in Nat /\ Len(l) \in Nat /\ DOMAIN x = 1 .. Len(x) /\ DOMAIN l = 1 .. Len(l)
    OBVIOUS
  <1>2. Len(v) = Len(x) /\ \A p \in 1 .. Len(x) : v[p] = x[p] \/ x[p] = "."
    BY ConvertedTypes DEF VSSPath
  <1>3. JSONPath(x) = [i \in 1 .. m |-> v[2 * i - 1]]
    BY DEF JSONPath, gen2tojson
  <1>4. m \in Nat
    BY <1>1, <1>2
  <1>5. Len(JSONPath(x)) = m /\ DOMAIN JSONPath(x) = 1 .. m
    <2> HIDE DEF m, v
    <2>1. \A f : DOMAIN f = 1 .. m /\ f = [i \in 1 .. m |-> f[i]] => Len(f) = m
      BY <1>4
    <2> QED
      BY <1>3, <2>1
  <1>6. m = Len(l)
    BY <1>5 DEF Selects
  <1>7. Len(x) = 2 * Len(l) - 1
    <2>1. Len(x) % 2 = 1 /\ (Len(x) + 1) \div 2 = Len(l)
      BY <1>2, <1>6 DEF Alternates
    <2>2. \A a, b \in Nat : a % 2 = 1 /\ (a + 1) \div 2 = b => a = 2 * b - 1
      OBVIOUS
    <2> QED
      BY <1>1, <2>1, <2>2
  <1>8. ASSUME NEW i \in 1 .. Len(l)
        PROVE  v[2 * i - 1] \in {"*", l[i]}
    <2> HIDE DEF v, m
    <2>1. i \in 1 .. m
      BY <1>6
    <2>2. JSONPath(x)[i] = v[2 * i - 1]
      BY <1>3, <2>1
    <2> QED
      BY <1>5, <2>1, <2>2 DEF Selects
  <1>9. ASSUME NEW p \in 1 .. Len(x), p % 2 = 1
        PROVE  x[p] \in {"*", Dotted(l)[p]} \ {".", "/"}
    <2> DEFINE i == (p + 1) \div 2
    <2>1. i \in 1 .. Len(l) /\ 2 * i - 1 = p
      BY <1>1, <1>7, <1>9
    <2>2. x[p] \notin {".", "/"}
      BY <1>1, <1>9 DEF Alternates
    <2>3. Dotted(l)[p] = l[i]
      BY <1>7, <1>9, DottedTypes
    <2> HIDE DEF i, v, m
    <2>4. v[p] \in {"*", l[i]}
      BY <1>8, <2>1
    <2> QED
      BY <1>2, <2>2, <2>3, <2>4
  <1>10. ASSUME NEW p \in 1 .. Len(x), p % 2 # 1
         PROVE  x[p] \in {".", "/"} /\ Dotted(l)[p] = "."
    <2>1. p % 2 = 0
      BY <1>1, <1>10
    <2> QED
      BY <1>1, <1>7, <1>10, <2>1, DottedTypes DEF Alternates
  <1> QED
    BY <1>7, <1>9, <1>10

(* A key that matches a path, in whatever notation, matches every node that the
   path selects: what is granted for a path is granted for what it names.      *)
THEOREM MatchCoversSelected ==
  ASSUME NEW T, NEW x \in Seq(T), Alternates(x), NEW U, NEW l \in Seq(U), l # <<>>,
         Selects(JSONPath(x), l), NEW S, NEW key \in Seq(S), Matches(VSSGen1Path(x), key)
  PROVE  Matches(Dotted(l), gen2togen1(key))
PROOF
  <1> DEFINE g == VSSGen1Path(x)
             d == Dotted(l)
             k2 == gen2togen1(key)
  <1>1. /\ g \in Seq(T \cup {".", "/"}) /\ Len(g) = Len(x)
        /\ \A p \in 1 .. Len(x) : g[p] = x[p] \/ (x[p] = "/" /\ g[p] = ".")
    BY Gen1Types
  <1>2. d \in Seq(U \cup {"."}) /\ Len(d) = Len(x)
    <2>1. d \in Seq(U \cup {"."}) /\ Len(d) = 2 * Len(l) - 1
      BY DottedTypes
    <2>2. Len(x) = 2 * Len(l) - 1
      BY SelectedTokens
    <2> QED
      BY <2>1, <2>2
  <1>3. /\ k2 \in Seq(S \cup {".", "/"}) /\ Len(k2) = Len(key)
        /\ \A k \in 1 .. Len(key) : k2[k] = IF key[k] = "/" THEN "." ELSE key[k]
    BY ConvertedTypes
  <1>4. \A p \in 1 .. Len(x) : IF p % 2 = 1 THEN x[p] \in {"*", d[p]} \ {".", "/"}
                               ELSE x[p] \in {".", "/"} /\ d[p] = "."
    BY SelectedTokens
  <1> HIDE DEF g, d, k2
  <1>5. ASSUME NEW k \in 1 .. Len(key), NEW p \in 1 .. Len(g), key[k] # "*", Same(key[k], g[p])
        PROVE  Same(k2[k], d[p])
    <2>1. CASE p % 2 = 1
      BY <1>1, <1>3, <1>4, <1>5, <2>1 DEF Same
    <2>2. CASE p % 2 # 1
      BY <1>1, <1>3, <1>4, <1>5, <2>2 DEF Same
    <2> QED
      BY <2>1, <2>2
  <1>6. \A k \in 1 .. Len(key) : key[k] = "*" <=> k2[k] = "*"
    BY <1>3
  <1>7. Matches(g, key)
    BY DEF g
  <1>8. Len(g) = Len(d) /\ Len(key) = Len(k2)
    BY <1>1, <1>2, <1>3
  <1>9. Matches(d, k2)
    <2> DEFINE G == T \cup {".", "/"}
               D == U \cup {"."}
               K == S \cup {".", "/"}
    <2>1. g \in Seq(G) /\ d \in Seq(D) /\ key \in Seq(S) /\ k2 \in Seq(K)
      BY <1>1, <1>2, <1>3
    <2> HIDE DEF G, D, K
    <2> QED
      BY <1>5, <1>6, <1>7, <1>8, <2>1, MatchesLikewise
  <1> QED
    BY <1>9 DEF d, k2
=============================================================================
