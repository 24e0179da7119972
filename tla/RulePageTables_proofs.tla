----------------------- MODULE RulePageTables_proofs -----------------------
(***************************************************************************)
(* Proofs about RulePages: with nothing in flight the table shows the      *)
(* rules in force for the selected machine.                                *)
(***************************************************************************)
EXTENDS RulePageTypes_proofs

-----------------------------------------------------------------------------
(* The same rules, whatever their ids *)

LEMMA SameMeans ==
    ASSUME NEW S, NEW T
    PROVE  SameValues(S, T) <=> \A v : Times(S, v) = Times(T, v)
<1>1. ASSUME NEW v, v \notin {e.v : e \in S \cup T} PROVE Times(S, v) = Times(T, v)
  <2>1. {e \in S : e.v = v} = {} /\ {e \in T : e.v = v} = {}
    BY <1>1
  <2> QED
    BY <2>1 DEF Times
<1>2. ASSUME SameValues(S, T), NEW e \in S \cup T PROVE Times(S, e.v) = Times(T, e.v)
  BY <1>2 DEF SameValues
<1>3. SameValues(S, T) => \A v \in {e.v : e \in S \cup T} : Times(S, v) = Times(T, v)
  BY <1>2
<1> QED
  BY <1>1, <1>3 DEF SameValues

\* A table leaves out the groups without items, in both sets alike.
LEMMA ListedSame ==
    ASSUME NEW S, NEW T, SameValues(S, T)
    PROVE  SameValues(Listed(S), Listed(T))
<1>1. CASE page = "api"
  <2>1. ASSUME NEW A, NEW v
        PROVE  Times(ApiRows(A), v) = IF v.predicateItems # {} THEN Times(A, v) ELSE Cardinality({})
    <3>1. {e \in ApiRows(A) : e.v = v} = IF v.predicateItems # {} THEN {e \in A : e.v = v} ELSE {}
      BY DEF ApiRows
    <3> QED
      BY <3>1 DEF Times
  <2>2. \A v : Times(ApiRows(S), v) = Times(ApiRows(T), v)
    BY <2>1, SameMeans
  <2> QED
    BY <1>1, <2>2, SameMeans DEF Listed
<1> QED
  BY <1>1 DEF Listed

LEMMA TimesType == ASSUME NEW S \in RuleSets, NEW v PROVE Times(S, v) \in Nat
<1>1. IsFiniteSet({e \in S : e.v = v})
  BY FS_Subset DEF RuleSets
<1> QED
  BY <1>1, FS_CardinalityType DEF Times

LEMMA TimesAdd ==
    ASSUME NEW S \in RuleSets, NEW e, e \notin S, NEW v
    PROVE  Times(S \cup {e}, v) = Times(S, v) + (IF e.v = v THEN 1 ELSE 0)
<1> DEFINE A == {d \in S : d.v = v}
           B == {d \in S \cup {e} : d.v = v}
<1>1. IsFiniteSet(A) /\ e \notin A
  BY FS_Subset DEF RuleSets
<1>2. B = IF e.v = v THEN A \cup {e} ELSE A
  OBVIOUS
<1>3. Times(S, v) = Cardinality(A) /\ Times(S \cup {e}, v) = Cardinality(B)
  BY DEF Times
<1> HIDE DEF A, B
<1>4. Cardinality(A \cup {e}) = Cardinality(A) + 1 /\ Cardinality(A) \in Nat
  BY <1>1, FS_AddElement, FS_CardinalityType
<1> QED
  BY <1>2, <1>3, <1>4

LEMMA TimesRemove ==
    ASSUME NEW S \in RuleSets, NEW e \in S, NEW v
    PROVE  Times(S, v) = Times(S \ {e}, v) + (IF e.v = v THEN 1 ELSE 0)
<1> DEFINE T == S \ {e}
<1>1. T \in RuleSets /\ e \notin T /\ S = T \cup {e}
  BY RuleSetParts
<1> HIDE DEF T
<1>2. Times(S, v) = Times(T, v) + (IF e.v = v THEN 1 ELSE 0)
  BY <1>1, TimesAdd
<1> QED
  BY <1>2 DEF T

LEMMA TimesEmpty == ASSUME NEW v PROVE Times({}, v) = 0
<1>1. {e \in {} : e.v = v} = {}
  OBVIOUS
<1> QED
  BY <1>1, FS_EmptySet DEF Times

-----------------------------------------------------------------------------
(* The last query in flight *)

None(rs, op) == \A k \in DOMAIN rs : rs[k].op # op
\* The last request of a kind, if there is one, is in G.
Ends(rs, op, G) ==
    \A k \in DOMAIN rs :
        rs[k].op = op /\ (\A j \in DOMAIN rs : j > k => rs[j].op # op) => rs[k] \in G
\* The dashboard has worked on a change, or refused it, and the page does not
\* know yet.
Done(rs) == \E k \in DOMAIN rs : IsChange(rs[k]) /\ rs[k].result # "none"

Marked(r, ops) == IF r.op \in ops THEN [r EXCEPT !.old = TRUE] ELSE r

LEMMA MarkedIs ==
    ASSUME NEW r \in PageRequest, NEW ops \in SUBSET {"rules", "names"}
    PROVE  /\ Marked(r, ops).op = r.op
           /\ r.op \in {"rules", "names"} => r \in QueryRequest
           /\ IsChange(r) => r.op \notin {"rules", "names"} /\ Marked(r, ops) = r
<1>1. r.op \in {"rules", "names"} => r \in QueryRequest
  BY KindsOfRequest
<1>2. Marked(r, ops).op = r.op
  BY <1>1 DEF Marked, QueryRequest
<1> QED
  BY <1>1, <1>2 DEF Marked, IsChange

LEMMA OutdatedAt ==
    ASSUME NEW rs \in Seq(PageRequest), NEW ops
    PROVE  /\ DOMAIN Outdated(rs, ops) = 1..Len(rs) /\ DOMAIN rs = 1..Len(rs)
           /\ \A k \in 1..Len(rs) : Outdated(rs, ops)[k] = Marked(rs[k], ops)
<1>1. DOMAIN rs = 1..Len(rs)
  OBVIOUS
<1>2. DOMAIN Outdated(rs, ops) = DOMAIN rs
      /\ \A k \in DOMAIN rs : Outdated(rs, ops)[k] = Marked(rs[k], ops)
  BY Zenon DEF Outdated, Marked
<1> QED
  BY <1>1, <1>2

LEMMA JoinedAt ==
    ASSUME NEW S, NEW s \in Seq(S), NEW t \in Seq(S)
    PROVE  /\ DOMAIN s = 1..Len(s) /\ DOMAIN t = 1..Len(t) /\ Len(s) \in Nat /\ Len(t) \in Nat
           /\ DOMAIN (s \o t) = 1..(Len(s) + Len(t))
           /\ \A k \in 1..Len(s) : (s \o t)[k] = s[k]
           /\ \A k \in 1..Len(t) : (s \o t)[Len(s) + k] = t[k]
           /\ \A k \in DOMAIN (s \o t) :
                \/ k \in 1..Len(s) /\ (s \o t)[k] = s[k]
                \/ \E j \in 1..Len(t) : k = Len(s) + j /\ (s \o t)[k] = t[j]
<1>1. /\ DOMAIN s = 1..Len(s) /\ DOMAIN t = 1..Len(t) /\ Len(s) \in Nat /\ Len(t) \in Nat
      /\ DOMAIN (s \o t) = 1..(Len(s) + Len(t))
      /\ \A k \in 1..Len(s) : (s \o t)[k] = s[k]
      /\ \A k \in 1..Len(t) : (s \o t)[Len(s) + k] = t[k]
  OBVIOUS
<1>2. ASSUME NEW k \in DOMAIN (s \o t), k \notin 1..Len(s)
      PROVE  \E j \in 1..Len(t) : k = Len(s) + j /\ (s \o t)[k] = t[j]
  <2>1. k - Len(s) \in 1..Len(t) /\ k = Len(s) + (k - Len(s))
    BY <1>1, <1>2
  <2> QED
    BY <1>1, <2>1
<1> QED
  BY <1>1, <1>2

LEMMA PiecesAt ==
    ASSUME NEW S, NEW s \in Seq(S), NEW k \in DOMAIN s
    PROVE  /\ \A j \in 1..(k - 1) : SubSeq(s, 1, k - 1)[j] = s[j]
           /\ \A j \in 1..(Len(s) - k) : SubSeq(s, k + 1, Len(s))[j] = s[k + j]
<1>1. k \in 1..Len(s) /\ Len(s) \in Nat
  OBVIOUS
<1>2. \A j \in 1..(k - 1) : SubSeq(s, 1, k - 1)[j] = s[1 + j - 1] /\ 1 + j - 1 = j
  BY <1>1
<1>3. \A j \in 1..(Len(s) - k) :
        SubSeq(s, k + 1, Len(s))[j] = s[k + 1 + j - 1] /\ k + 1 + j - 1 = k + j
  BY <1>1
<1> QED
  BY <1>2, <1>3

\* The requests that stay when one is answered.
LEMMA RestAt ==
    ASSUME requests \in Seq(PageRequest), NEW i \in DOMAIN requests
    PROVE  LET n   == Len(requests)
               ops == {requests[i].op} \cap {"rules", "names"}
           IN  /\ DOMAIN requests = 1..n /\ n \in Nat /\ i \in 1..n
               /\ DOMAIN Rest(i) = 1..(n - 1)
               /\ \A k \in 1..(i - 1) : Rest(i)[k] = Marked(requests[k], ops)
               /\ \A k \in i..(n - 1) : Rest(i)[k] = requests[k + 1]
<1> DEFINE n      == Len(requests)
           ops    == {requests[i].op} \cap {"rules", "names"}
           before == SubSeq(requests, 1, i - 1)
           after  == SubSeq(requests, i + 1, n)
           marked == Outdated(before, ops)
<1>1. DOMAIN requests = 1..n /\ n \in Nat /\ i \in 1..n /\ \A k \in 1..n : requests[k] \in PageRequest
  OBVIOUS
<1>2. before \in Seq(PageRequest) /\ Len(before) = i - 1 /\ \A k \in 1..(i - 1) : before[k] = requests[k]
  BY Pieces, PiecesAt
<1>3. after \in Seq(PageRequest) /\ Len(after) = n - i /\ \A k \in 1..(n - i) : after[k] = requests[i + k]
  BY Pieces, PiecesAt
<1>4. marked \in Seq(PageRequest) /\ Len(marked) = i - 1
      /\ \A k \in 1..(i - 1) : marked[k] = Marked(requests[k], ops)
  <2> HIDE DEF before, ops
  <2>1. marked \in Seq(PageRequest) /\ Len(marked) = Len(before)
    BY <1>2, OutdatedType
  <2>2. \A k \in 1..Len(before) : marked[k] = Marked(before[k], ops)
    BY <1>2, OutdatedAt
  <2> QED
    BY <1>2, <2>1, <2>2
<1>5. Rest(i) = marked \o after
  BY DEF Rest
<1> HIDE DEF marked, after
<1>6. /\ DOMAIN (marked \o after) = 1..((i - 1) + (n - i))
      /\ \A k \in 1..(i - 1) : (marked \o after)[k] = marked[k]
      /\ \A k \in 1..(n - i) : (marked \o after)[(i - 1) + k] = after[k]
  <2>1. /\ DOMAIN (marked \o after) = 1..(Len(marked) + Len(after))
        /\ \A k \in 1..Len(marked) : (marked \o after)[k] = marked[k]
        /\ \A k \in 1..Len(after) : (marked \o after)[Len(marked) + k] = after[k]
    <3>1. marked \in Seq(PageRequest) /\ after \in Seq(PageRequest)
      BY <1>3, <1>4
    <3> QED
      BY <3>1
  <2> QED
    BY <1>3, <1>4, <2>1, Zenon
<1>7. ASSUME NEW k \in i..(n - 1) PROVE (marked \o after)[k] = requests[k + 1]
  <2>1. k - (i - 1) \in 1..(n - i) /\ (i - 1) + (k - (i - 1)) = k /\ i + (k - (i - 1)) = k + 1
    BY <1>1
  <2> QED
    BY <1>3, <1>6, <2>1
<1>8. (i - 1) + (n - i) = n - 1
  BY <1>1
<1> QED
  BY <1>1, <1>4, <1>5, <1>6, <1>7, <1>8

\* When a query is answered the last one of its kind stays the last, or was
\* answered, and then the others are out of date.
LEMMA RestEnds ==
    ASSUME requests \in Seq(PageRequest), NEW i \in DOMAIN requests,
           NEW op \in {"rules", "names"}, NEW G,
           \A r \in QueryRequest : r.op = op => [r EXCEPT !.old = TRUE] \in G,
           Ends(requests, op, G)
    PROVE  /\ Ends(Rest(i), op, G)
           /\ None(Rest(i), op) => IF requests[i].op = op THEN requests[i] \in G ELSE None(requests, op)
<1> DEFINE n   == Len(requests)
           ops == {requests[i].op} \cap {"rules", "names"}
           rest == Rest(i)
<1>1. /\ DOMAIN requests = 1..n /\ n \in Nat /\ i \in 1..n
      /\ DOMAIN rest = 1..(n - 1)
      /\ \A k \in 1..(i - 1) : rest[k] = Marked(requests[k], ops)
      /\ \A k \in i..(n - 1) : rest[k] = requests[k + 1]
  BY RestAt
<1> HIDE DEF rest
<1>2. \A k \in 1..n : requests[k] \in PageRequest
  OBVIOUS
<1>3. \A k \in 1..(i - 1) : rest[k].op = requests[k].op
  BY <1>1, <1>2, MarkedIs
<1>4. ASSUME NEW k \in 1..n, k < i PROVE k \in 1..(i - 1) /\ k \in DOMAIN rest /\ rest[k].op = requests[k].op
  BY <1>1, <1>3, <1>4
<1>5. ASSUME NEW k \in 1..n, k > i PROVE k - 1 \in DOMAIN rest /\ rest[k - 1] = requests[k]
  <2>1. k - 1 \in i..(n - 1) /\ (k - 1) + 1 = k
    BY <1>1, <1>5
  <2> QED
    BY <1>1, <2>1
<1>6. ASSUME NEW k \in DOMAIN rest, rest[k].op = op, \A j \in DOMAIN rest : j > k => rest[j].op # op
      PROVE  rest[k] \in G
  <2>1. CASE k < i
    <3>1. k \in 1..(i - 1) /\ k \in 1..n /\ requests[k].op = op /\ rest[k] = Marked(requests[k], ops)
      BY <1>1, <1>3, <1>6, <2>1
    <3>2. CASE requests[i].op = op
      <4>1. requests[k] \in QueryRequest
        BY <1>2, <3>1, MarkedIs
      <4> QED
        BY <3>1, <3>2, <4>1 DEF Marked
    <3>3. CASE requests[i].op # op
      <4>1. rest[k] = requests[k]
        BY <3>1, <3>3 DEF Marked
      <4>2. ASSUME NEW j \in 1..n, j > k PROVE requests[j].op # op
        <5>1. CASE j < i
          BY <1>4, <1>6, <4>2, <5>1
        <5>2. CASE j > i
          <6>1. j - 1 > k
            BY <1>1, <2>1, <5>2, <3>1
          <6> QED
            BY <1>5, <1>6, <5>2, <6>1
        <5> QED
          BY <1>1, <3>3, <5>1, <5>2
      <4> QED
        BY <1>1, <3>1, <4>1, <4>2 DEF Ends
    <3> QED
      BY <3>2, <3>3
  <2>2. CASE k >= i
    <3>1. k \in i..(n - 1) /\ k + 1 \in 1..n /\ rest[k] = requests[k + 1]
      BY <1>1, <2>2
    <3>2. ASSUME NEW j \in 1..n, j > k + 1 PROVE requests[j].op # op
      <4>1. j > i /\ j - 1 > k
        BY <1>1, <2>2, <3>1, <3>2
      <4> QED
        BY <1>5, <1>6, <4>1
    <3> QED
      BY <1>1, <1>6, <3>1, <3>2 DEF Ends
  <2> QED
    BY <1>1, <2>1, <2>2
<1>7. ASSUME None(rest, op) PROVE \A j \in 1..n : j # i => requests[j].op # op
  BY <1>1, <1>4, <1>5, <1>7 DEF None
<1>8. ASSUME None(rest, op), requests[i].op = op PROVE requests[i] \in G
  BY <1>1, <1>7, <1>8 DEF Ends
<1>9. ASSUME None(rest, op), requests[i].op # op PROVE None(requests, op)
  BY <1>1, <1>7, <1>9 DEF None
<1>10. Ends(rest, op, G)
  BY <1>6 DEF Ends
<1> QED
  BY <1>8, <1>9, <1>10 DEF rest

LEMMA RestDone ==
    ASSUME requests \in Seq(PageRequest), NEW i \in DOMAIN requests, Done(requests),
           ~IsChange(requests[i])
    PROVE  Done(Rest(i))
<1> DEFINE n   == Len(requests)
           ops == {requests[i].op} \cap {"rules", "names"}
           rest == Rest(i)
<1>1. /\ DOMAIN requests = 1..n /\ n \in Nat /\ i \in 1..n
      /\ DOMAIN rest = 1..(n - 1)
      /\ \A k \in 1..(i - 1) : rest[k] = Marked(requests[k], ops)
      /\ \A k \in i..(n - 1) : rest[k] = requests[k + 1]
  BY RestAt
<1> HIDE DEF rest
<1>2. PICK k \in 1..n : IsChange(requests[k]) /\ requests[k].result # "none"
  BY <1>1 DEF Done
<1>3. CASE k < i
  <2>1. k \in 1..(i - 1) /\ k \in DOMAIN rest
    BY <1>1, <1>3
  <2>2. rest[k] = requests[k]
    BY <1>1, <1>2, <2>1, MarkedIs
  <2> QED
    BY <1>2, <2>1, <2>2 DEF Done, rest
<1>4. CASE k > i
  <2>1. k - 1 \in i..(n - 1) /\ k - 1 \in DOMAIN rest /\ (k - 1) + 1 = k
    BY <1>1, <1>4
  <2>2. rest[k - 1] = requests[k]
    BY <1>1, <2>1
  <2> QED
    BY <1>2, <2>1, <2>2 DEF Done, rest
<1> QED
  BY <1>1, <1>2, <1>3, <1>4

LEMMA OutdatedEnds ==
    ASSUME NEW rs \in Seq(PageRequest), NEW op \in {"rules", "names"}, NEW G,
           \A r \in QueryRequest : r.op = op => [r EXCEPT !.old = TRUE] \in G
    PROVE  /\ None(Outdated(rs, {"rules"}), op) => None(rs, op)
           /\ Ends(rs, op, G) \/ op = "rules" => Ends(Outdated(rs, {"rules"}), op, G)
           /\ Done(rs) => Done(Outdated(rs, {"rules"}))
<1> DEFINE marked == Outdated(rs, {"rules"})
<1>1. /\ DOMAIN marked = 1..Len(rs) /\ DOMAIN rs = 1..Len(rs)
      /\ \A k \in 1..Len(rs) : marked[k] = Marked(rs[k], {"rules"})
  BY OutdatedAt
<1>2. \A k \in 1..Len(rs) : rs[k] \in PageRequest
  OBVIOUS
<1>3. \A k \in 1..Len(rs) : marked[k].op = rs[k].op
  BY <1>1, <1>2, MarkedIs
<1> HIDE DEF marked
<1>4. None(marked, op) => None(rs, op)
  BY <1>1, <1>3 DEF None
<1>5. ASSUME op = "rules" PROVE Ends(marked, op, G)
  <2>1. ASSUME NEW k \in 1..Len(rs), rs[k].op = "rules" PROVE marked[k] \in G
    <3>1. rs[k] \in QueryRequest
      BY <1>2, <2>1, MarkedIs
    <3> QED
      BY <1>1, <1>5, <2>1, <3>1 DEF Marked
  <2> QED
    BY <1>1, <1>3, <1>5, <2>1 DEF Ends
<1>6. ASSUME Ends(rs, op, G), op = "names" PROVE Ends(marked, op, G)
  <2>1. \A k \in 1..Len(rs) : rs[k].op = "names" => marked[k] = rs[k]
    BY <1>1 DEF Marked
  <2> QED
    BY <1>1, <1>3, <1>6, <2>1 DEF Ends
<1>7. Done(rs) => Done(marked)
  <2>1. \A k \in 1..Len(rs) : IsChange(rs[k]) => marked[k] = rs[k]
    BY <1>1, <1>2, MarkedIs
  <2> QED
    BY <1>1, <2>1 DEF Done
<1> QED
  BY <1>4, <1>5, <1>6, <1>7 DEF marked

LEMMA JoinedEnds ==
    ASSUME NEW rs \in Seq(PageRequest), NEW qs \in Seq(PageRequest), NEW op, NEW G
    PROVE  /\ None(rs \o qs, op) => None(rs, op) /\ None(qs, op)
           /\ Ends(qs, op, G) /\ (None(qs, op) => Ends(rs, op, G)) => Ends(rs \o qs, op, G)
           /\ Done(rs) => Done(rs \o qs)
<1> DEFINE all == rs \o qs
<1>1. /\ DOMAIN rs = 1..Len(rs) /\ DOMAIN qs = 1..Len(qs) /\ Len(rs) \in Nat /\ Len(qs) \in Nat
      /\ DOMAIN all = 1..(Len(rs) + Len(qs))
      /\ \A k \in 1..Len(rs) : all[k] = rs[k]
      /\ \A k \in 1..Len(qs) : all[Len(rs) + k] = qs[k]
      /\ \A k \in DOMAIN all :
           \/ k \in 1..Len(rs) /\ all[k] = rs[k]
           \/ \E j \in 1..Len(qs) : k = Len(rs) + j /\ all[k] = qs[j]
  BY JoinedAt
<1> HIDE DEF all
<1>2. /\ \A k \in 1..Len(rs) : k \in DOMAIN all
      /\ \A k \in 1..Len(qs) : Len(rs) + k \in DOMAIN all
  BY <1>1
<1>3. None(all, op) => None(rs, op) /\ None(qs, op)
  BY <1>1, <1>2 DEF None
<1>4. Done(rs) => Done(all)
  BY <1>1, <1>2 DEF Done
<1>5. ASSUME Ends(qs, op, G), None(qs, op) => Ends(rs, op, G),
             NEW k \in DOMAIN all, all[k].op = op, \A j \in DOMAIN all : j > k => all[j].op # op
      PROVE  all[k] \in G
  <2>1. CASE k \in 1..Len(rs)
    <3>1. ASSUME NEW j \in 1..Len(qs) PROVE qs[j].op # op
      <4>1. Len(rs) + j > k
        BY <1>1, <2>1
      <4> QED
        BY <1>1, <1>2, <1>5, <4>1
    <3>2. Ends(rs, op, G)
      BY <1>1, <1>5, <3>1 DEF None
    <3>3. \A j \in DOMAIN rs : j > k => rs[j].op # op
      BY <1>1, <1>2, <1>5
    <3> QED
      BY <1>1, <1>5, <2>1, <3>2, <3>3 DEF Ends
  <2>2. CASE \E j \in 1..Len(qs) : k = Len(rs) + j /\ all[k] = qs[j]
    <3>1. PICK j \in 1..Len(qs) : k = Len(rs) + j /\ all[k] = qs[j]
      BY <2>2
    <3>2. ASSUME NEW h \in 1..Len(qs), h > j PROVE qs[h].op # op
      <4>1. Len(rs) + h > k
        BY <1>1, <3>1, <3>2
      <4> QED
        BY <1>1, <1>2, <1>5, <4>1
    <3> QED
      BY <1>1, <1>5, <3>1, <3>2 DEF Ends
  <2> QED
    BY <1>1, <2>1, <2>2
<1>6. Ends(qs, op, G) /\ (None(qs, op) => Ends(rs, op, G)) => Ends(all, op, G)
  BY <1>5 DEF Ends
<1> QED
  BY <1>3, <1>4, <1>6 DEF all

-----------------------------------------------------------------------------
(* The table *)

InForce == Listed(Of(live, mac))

Got(r) == IF r.was = Unread THEN {} ELSE r.was
\* What was saved of a query and what is still to be saved are the rules in
\* force, and what is saved next is not there yet.
Underway(r) ==
    r.todo # Unread /\ r.was # Null =>
        /\ \A v : Times(Got(r), v) + Times(r.todo, v) = Times(Of(live, mac), v)
        /\ IF Application THEN Got(r) \cap r.todo = {} ELSE \A e \in Got(r) : e.id <= lastId
\* Queries whose answer is known to be out of date, or will be right.
Current == {r \in QueryRequest : r.old \/ (r.mac = mac /\ (r.op = "rules" => Underway(r)))}

\* Unless a change is about to be answered, the last query in flight brings the
\* rules of the selected machine, or there is none and the table shows them.
RulesCurrent ==
    \/ Done(requests)
    \/ mac = NoMachine
    \/ /\ Ends(requests, "rules", Current)
       /\ None(requests, "rules") => "rules" \in missed \/ SameValues(rows, InForce)
NamesCurrent ==
    \/ page # "gateway"
    \/ mac = NoMachine
    \/ /\ Ends(requests, "names", Current)
       /\ None(requests, "names") => "names" \in missed \/ names = ApiNames[mac]
TableCurrent == RulesCurrent /\ NamesCurrent

LEMMA OldIsCurrent == \A r \in QueryRequest : [r EXCEPT !.old = TRUE] \in Current
BY DEF Current, QueryRequest

\* Ids that are drawn meanwhile change nothing for a query.
LEMMA StillCurrent ==
    ASSUME UNCHANGED <<page, mac, live>>, lastId \in Nat, lastId' \in Nat, lastId <= lastId',
           NEW r \in Current
    PROVE  r \in Current'
<1>1. QueryRequest' = QueryRequest
  BY SameTypes DEF QueryRequest, MaybeRead
<1>2. Of(live, mac)' = Of(live, mac) /\ Application' = Application
  BY DEF Of, Application
<1>3. r \in QueryRequest /\ r.was \in MaybeRead \cup {Null}
  BY DEF Current, QueryRequest
<1>4. ASSUME r.was # Null, ~Application, \A e \in Got(r) : e.id <= lastId
      PROVE  \A e \in Got(r) : e.id <= lastId'
  <2>1. \A e \in Got(r) : e.id \in Nat
    BY <1>3, <1>4 DEF Got, MaybeRead, RuleSets, GoodRule, RuleId
  <2> QED
    BY <1>4, <2>1
<1>5. Underway(r) => Underway(r)'
  BY <1>2, <1>4 DEF Underway, Got
<1> QED
  BY <1>1, <1>5 DEF Current

LEMMA SameCurrent ==
    ASSUME UNCHANGED <<page, mac, live, lastId>>
    PROVE  Current' = Current /\ InForce' = InForce
<1>1. QueryRequest' = QueryRequest
  BY SameTypes DEF QueryRequest, MaybeRead
<1>2. Of(live, mac)' = Of(live, mac) /\ Application' = Application
  BY DEF Of, Application
<1>3. \A r : Underway(r)' = Underway(r)
  BY <1>2 DEF Underway, Got
<1> QED
  BY <1>1, <1>2, <1>3 DEF Current, InForce, Listed

LEMMA AskIsCurrent ==
    ASSUME NEW op \in {"rules", "names"}, NEW m \in Machine, mac = m
    PROVE  Ask(op, m) \in Current /\ Ask(op, m).op = op
<1>1. Ask(op, m) \in QueryRequest
  BY AskType
<1>2. Ask(op, m).op = op /\ Ask(op, m).mac = m /\ Ask(op, m).todo = Unread
  BY DEF Ask
<1> QED
  BY <1>1, <1>2 DEF Current, Underway

LEMMA AskedEnds ==
    ASSUME NEW m \in Machine, mac' = m, page' = page, NEW op \in {"rules", "names"},
           op = "names" => page = "gateway"
    PROVE  Ends(AskAll(Watched, m), op, Current') /\ ~None(AskAll(Watched, m), op)
<1>1. QueryRequest' = QueryRequest
  BY SameTypes DEF QueryRequest, MaybeRead
<1>2. ASSUME NEW o \in {"rules", "names"} PROVE Ask(o, m) \in Current' /\ Ask(o, m).op = o
  <2>1. Ask(o, m) \in QueryRequest'
    BY <1>1, AskType
  <2>2. Ask(o, m).op = o /\ Ask(o, m).mac = m /\ Ask(o, m).todo = Unread
    BY DEF Ask
  <2> QED
    BY <2>1, <2>2 DEF Current, Underway
<1>3. DOMAIN AskAll(Watched, m) = DOMAIN Watched
      /\ \A k \in DOMAIN Watched : AskAll(Watched, m)[k] = Ask(Watched[k], m)
  BY DEF AskAll
<1>4. \E k \in DOMAIN Watched : Watched[k] = op
  <2>1. CASE page = "gateway"
    <3>1. Watched = <<"rules", "names">>
      BY <2>1 DEF Watched
    <3> QED
      BY <3>1
  <2>2. CASE page # "gateway"
    <3>1. Watched = <<"rules">> /\ op = "rules"
      BY <2>2 DEF Watched
    <3> QED
      BY <3>1
  <2> QED
    BY <2>1, <2>2
<1>5. \A k \in DOMAIN Watched : Watched[k] \in {"rules", "names"}
  BY WatchedIs
<1>6. \A k \in DOMAIN Watched : AskAll(Watched, m)[k] \in Current' /\ AskAll(Watched, m)[k].op = Watched[k]
  BY <1>2, <1>3, <1>5
<1> QED
  BY <1>3, <1>4, <1>6 DEF Ends, None

\* What leaves the table and the selection alone, and sends no query.
LEMMA TableStays ==
    ASSUME TableCurrent, UNCHANGED <<page, table, live, lastId, missed>>,
           \/ UNCHANGED requests
           \/ /\ requests \in Seq(PageRequest)
              /\ \E r \in PageRequest : r.op \notin {"rules", "names"} /\ requests' = Append(requests, r)
    PROVE  TableCurrent'
<1>1. UNCHANGED <<page, mac, rows, names, live, missed>> /\ Current' = Current /\ InForce' = InForce
  BY SameCurrent DEF table
<1>2. CASE UNCHANGED requests
  BY <1>1, <1>2 DEF TableCurrent, RulesCurrent, NamesCurrent
<1>3. ASSUME requests \in Seq(PageRequest), NEW r \in PageRequest, r.op \notin {"rules", "names"},
             requests' = Append(requests, r)
      PROVE  TableCurrent'
  <2> DEFINE qs == <<r>>
  <2>1. requests' = requests \o qs /\ qs \in Seq(PageRequest) /\ DOMAIN qs = {1} /\ qs[1] = r
    BY <1>3
  <2> HIDE DEF qs
  <2>3. ASSUME NEW op \in {"rules", "names"}
        PROVE  /\ None(requests', op) => None(requests, op)
               /\ Ends(requests, op, Current) => Ends(requests', op, Current)
               /\ Done(requests) => Done(requests')
    <3>1. Ends(qs, op, Current)
      BY <1>3, <2>1 DEF Ends
    <3> QED
      BY <1>3, <2>1, <3>1, JoinedEnds
  <2> QED
    BY <1>1, <2>3 DEF TableCurrent, RulesCurrent, NamesCurrent
<1> QED
  BY <1>2, <1>3

LEMMA SelectTable == ASSUME TypeInv, TableCurrent, Select(Watched) PROVE TableCurrent'
<1>1. PICK m \in options \cup {NoMachine} : m # mac /\ Watch(Watched, m)
  BY DEF Select
<1>2. page' = page /\ mac' = m /\ open = "none"
  BY <1>1 DEF Select, Free, Watch
<1>3. CASE m = NoMachine
  BY <1>2, <1>3 DEF TableCurrent, RulesCurrent, NamesCurrent
<1>4. CASE m # NoMachine
  <2>1. m \in Machine /\ options # {}
    BY <1>4 DEF TypeInv, TableInv
  <2>2. requests \in Seq(PageRequest)
    BY DEF TypeInv, RequestsTyped
  <2>3. requests' = requests \o AskAll(Watched, m) /\ AskAll(Watched, m) \in Seq(PageRequest)
    BY <1>1, <1>4, <2>1, AskedType DEF Watch
  <2>4. ASSUME NEW op \in {"rules", "names"}, op = "names" => page = "gateway"
        PROVE  Ends(requests', op, Current') /\ ~None(requests', op)
    BY <1>2, <2>1, <2>2, <2>3, <2>4, AskedEnds, JoinedEnds
  <2> QED
    BY <1>2, <2>4 DEF TableCurrent, RulesCurrent, NamesCurrent
<1> QED
  BY <1>3, <1>4

LEMMA MachinesTable ==
    ASSUME TypeInv, TableCurrent, NEW i \in DOMAIN requests, MachinesAnswered(i, Watched)
    PROVE  TableCurrent'
<1>1. UNCHANGED <<page, rows, names, live, lastId, missed>> /\ requests[i].op = "machines"
  BY DEF MachinesAnswered, server
<1>2. requests \in Seq(PageRequest) /\ Rest(i) \in Seq(PageRequest)
  BY RequestType, RestType DEF TypeInv
<1>3. ASSUME mac' = mac, requests' = Rest(i) PROVE TableCurrent'
  <2>1. Current' = Current /\ InForce' = InForce
    BY <1>1, <1>3, SameCurrent
  <2>2. ASSUME NEW op \in {"rules", "names"}
        PROVE  /\ Ends(requests, op, Current) => Ends(requests', op, Current)
               /\ Ends(requests, op, Current) /\ None(requests', op) => None(requests, op)
    BY <1>1, <1>2, <1>3, RestEnds, OldIsCurrent
  <2>3. Done(requests) => Done(requests')
    BY <1>1, <1>2, <1>3, RestDone DEF IsChange
  <2> QED
    BY <1>1, <1>3, <2>1, <2>2, <2>3 DEF TableCurrent, RulesCurrent, NamesCurrent
<1>4. ASSUME NEW m \in Machine, mac' = m, requests' = Rest(i) \o AskAll(Watched, m)
      PROVE  TableCurrent'
  <2>1. AskAll(Watched, m) \in Seq(PageRequest)
    BY AskedType
  <2>2. ASSUME NEW op \in {"rules", "names"}, op = "names" => page = "gateway"
        PROVE  Ends(requests', op, Current') /\ ~None(requests', op)
    <3>1. Ends(AskAll(Watched, m), op, Current') /\ ~None(AskAll(Watched, m), op)
      BY <1>1, <1>4, <2>2, AskedEnds
    <3> DEFINE qs == AskAll(Watched, m)
               rs == Rest(i)
    <3> HIDE DEF qs, rs
    <3>2. /\ rs \in Seq(PageRequest) /\ qs \in Seq(PageRequest) /\ requests' = rs \o qs
          /\ Ends(qs, op, Current') /\ ~None(qs, op)
      BY <1>2, <1>4, <2>1, <3>1 DEF qs, rs
    <3> QED
      BY <3>2, JoinedEnds
  <2> QED
    BY <1>1, <2>2 DEF TableCurrent, RulesCurrent, NamesCurrent
<1> QED
  BY <1>3, <1>4 DEF MachinesAnswered

LEMMA NeverUnread ==
    ASSUME TypeInv, NEW S \in RuleSets
    PROVE  S # Unread
<1>1. GoodValue \subseteq ValueOf(page)
  <2>1. CASE page = "system"
    BY <2>1 DEF GoodValue, Value, ValueOf
  <2>2. CASE page # "system"
    BY <2>2 DEF GoodValue, Value
  <2> QED
    BY <2>1, <2>2
<1>2. page \in Page
  BY DEF TypeInv
<1>3. S \in SUBSET [id : RuleId, machine : Machine, v : ValueOf(page)]
  BY <1>1 DEF RuleSets, GoodRule
<1> QED
  BY <1>2, <1>3, UnreadAssumption

LEMMA RulesTable ==
    ASSUME TypeInv, TableCurrent, NEW i \in DOMAIN requests, RulesAnswered(i, Listed(requests[i].was))
    PROVE  TableCurrent'
<1>1. /\ UNCHANGED <<page, mac, names, live>> /\ requests' = Rest(i) /\ requests[i].op = "rules"
      /\ Current' = Current /\ InForce' = InForce
  BY SameCurrent DEF RulesAnswered, server
<1>2. requests \in Seq(PageRequest) /\ requests[i] \in PageRequest
  BY RequestType
<1>3. "names" \in missed => "names" \in missed'
  BY DEF RulesAnswered
<1>4. ASSUME NEW op \in {"rules", "names"}, Ends(requests, op, Current)
      PROVE  /\ Ends(requests', op, Current)
             /\ None(requests', op) => IF requests[i].op = op THEN requests[i] \in Current
                                       ELSE None(requests, op)
  BY <1>1, <1>2, <1>4, RestEnds, OldIsCurrent
<1>5. Done(requests) => Done(requests')
  BY <1>1, <1>2, RestDone DEF IsChange
<1>6. ASSUME requests[i] \in Current PROVE "rules" \in missed' \/ SameValues(rows', InForce)
  <2> DEFINE r == requests[i]
  <2>1. CASE r.todo = Unread \/ r.was = Null \/ r.old
    <3>1. Unread # {}
      BY RuleSetParts, NeverUnread
    <3> QED
      BY <2>1, <3>1 DEF RulesAnswered, QueryEnded
  <2>2. CASE ~(r.todo = Unread \/ r.was = Null \/ r.old)
    <3>1. r.was # Unread /\ r.todo = {} /\ rows' = Listed(r.was)
      BY <2>2 DEF RulesAnswered, QueryEnded
    <3>2. r.mac = mac /\ Underway(r) /\ r \in QueryRequest
      BY <1>1, <1>6, <2>2 DEF Current
    <3>3. r.was \in RuleSets
      BY <2>2, <3>1, <3>2 DEF QueryRequest, MaybeRead
    <3>4. \A v : Times(r.was, v) + Times({}, v) = Times(Of(live, mac), v)
      BY <2>2, <3>1, <3>2 DEF Underway, Got
    <3>5. \A v : Times(r.was, v) = Times(Of(live, mac), v)
      BY <3>3, <3>4, TimesType, TimesEmpty
    <3>6. SameValues(r.was, Of(live, mac))
      BY <3>5, SameMeans
    <3> QED
      BY <3>1, <3>6, ListedSame DEF InForce
  <2> QED
    BY <2>1, <2>2
<1>7. RulesCurrent'
  BY <1>1, <1>4, <1>5, <1>6 DEF TableCurrent, RulesCurrent
<1>8. NamesCurrent'
  BY <1>1, <1>3, <1>4 DEF TableCurrent, NamesCurrent
<1> QED
  BY <1>7, <1>8 DEF TableCurrent

LEMMA NamesTable ==
    ASSUME TypeInv, TableCurrent, NEW i \in DOMAIN requests, GatewayNames(i)
    PROVE  TableCurrent'
<1>1. /\ UNCHANGED <<page, mac, rows, live>> /\ requests' = Rest(i) /\ requests[i].op = "names"
      /\ Current' = Current /\ InForce' = InForce
  BY SameCurrent DEF GatewayNames, server
<1>2. requests \in Seq(PageRequest) /\ requests[i] \in PageRequest
  BY RequestType
<1>3. "rules" \in missed => "rules" \in missed'
  BY DEF GatewayNames
<1>4. ASSUME NEW op \in {"rules", "names"}, Ends(requests, op, Current)
      PROVE  /\ Ends(requests', op, Current)
             /\ None(requests', op) => IF requests[i].op = op THEN requests[i] \in Current
                                       ELSE None(requests, op)
  BY <1>1, <1>2, <1>4, RestEnds, OldIsCurrent
<1>5. Done(requests) => Done(requests')
  BY <1>1, <1>2, RestDone DEF IsChange
<1>6. ASSUME requests[i] \in Current PROVE "names" \in missed' \/ names' = ApiNames[mac]
  BY <1>1, <1>6 DEF Current, GatewayNames
<1>7. RulesCurrent'
  BY <1>1, <1>3, <1>4, <1>5 DEF TableCurrent, RulesCurrent
<1>8. NamesCurrent'
  BY <1>1, <1>4, <1>6 DEF TableCurrent, NamesCurrent
<1> QED
  BY <1>7, <1>8 DEF TableCurrent

\* Of the requests that stay when a change is answered the last query for
\* names is what it was.
LEMMA NamesStay ==
    ASSUME requests \in Seq(PageRequest), NEW i \in DOMAIN requests, requests[i].op # "names",
           Ends(requests, "names", Current), Rest(i) \in Seq(PageRequest)
    PROVE  /\ Ends(Rest(i), "names", Current) /\ (None(Rest(i), "names") => None(requests, "names"))
           /\ Ends(Outdated(Rest(i), {"rules"}), "names", Current)
           /\ None(Outdated(Rest(i), {"rules"}), "names") => None(requests, "names")
<1>1. Ends(Rest(i), "names", Current) /\ (None(Rest(i), "names") => None(requests, "names"))
  BY RestEnds, OldIsCurrent
<1> QED
  BY <1>1, OutdatedEnds, OldIsCurrent

LEMMA AnsweredTable ==
    ASSUME TypeInv, TableCurrent, NEW i \in DOMAIN requests, ChangeAnswered(i)
    PROVE  TableCurrent'
<1>1. /\ UNCHANGED <<page, mac, rows, names, live>>
      /\ Current' = Current /\ InForce' = InForce
  BY SameCurrent DEF ChangeAnswered, table, server
<1>2. requests[i].op \notin {"rules", "names"}
  BY DEF ChangeAnswered, IsChange
<1>3. requests \in Seq(PageRequest) /\ requests[i] \in PageRequest /\ Rest(i) \in Seq(PageRequest)
  BY RequestType, RestType DEF TypeInv
<1>4. "names" \in missed => "names" \in missed'
  BY DEF ChangeAnswered
<1>5. CASE mac = NoMachine
  BY <1>1, <1>5 DEF TableCurrent, RulesCurrent, NamesCurrent
<1>6. CASE mac # NoMachine /\ requests' = Rest(i) \o Queries("rules")
  <2> DEFINE q  == Ask("rules", mac)
             qs == <<q>>
  <2>1. q \in Current /\ q.op = "rules" /\ q \in PageRequest
    BY <1>6, AskIsCurrent, AskType DEF PageRequest, TypeInv, TableInv
  <2> HIDE DEF q
  <2>2. requests' = Rest(i) \o qs /\ qs \in Seq(PageRequest) /\ DOMAIN qs = {1} /\ qs[1] = q
    BY <1>6, <2>1 DEF Queries, q
  <2> HIDE DEF qs
  <2>3. Ends(qs, "rules", Current) /\ ~None(qs, "rules") /\ Ends(qs, "names", Current)
    BY <2>1, <2>2 DEF Ends, None
  <2>4. RulesCurrent'
    <3>1. Ends(requests', "rules", Current) /\ ~None(requests', "rules")
      BY <1>3, <2>2, <2>3, JoinedEnds
    <3> QED
      BY <1>1, <3>1 DEF RulesCurrent
  <2>5. NamesCurrent'
    <3>1. CASE Ends(requests, "names", Current)
      <4>1. Ends(Rest(i), "names", Current) /\ (None(Rest(i), "names") => None(requests, "names"))
        BY <1>2, <1>3, <3>1, NamesStay
      <4>2. Ends(requests', "names", Current) /\ (None(requests', "names") => None(requests, "names"))
        BY <1>3, <2>2, <2>3, <4>1, JoinedEnds
      <4> QED
        BY <1>1, <1>4, <4>2 DEF TableCurrent, NamesCurrent
    <3> QED
      BY <1>1, <3>1 DEF TableCurrent, NamesCurrent
  <2> QED
    BY <2>4, <2>5 DEF TableCurrent
<1>7. CASE requests' = Outdated(Rest(i), {"rules"}) /\ "rules" \in missed'
  <2>1. Ends(requests', "rules", Current)
    BY <1>3, <1>7, OutdatedEnds, OldIsCurrent
  <2>2. RulesCurrent'
    BY <1>1, <1>7, <2>1 DEF RulesCurrent
  <2>3. NamesCurrent'
    BY <1>1, <1>2, <1>3, <1>4, <1>7, NamesStay DEF TableCurrent, NamesCurrent
  <2> QED
    BY <2>2, <2>3 DEF TableCurrent
<1> QED
  BY <1>5, <1>6, <1>7 DEF ChangeAnswered

LEMMA LostTable ==
    ASSUME TypeInv, TableCurrent, NEW i \in DOMAIN requests, LoseAnswer(i)
    PROVE  TableCurrent'
<1>1. /\ UNCHANGED <<page, mac, rows, names, live>>
      /\ Current' = Current /\ InForce' = InForce
      /\ requests' = Outdated(Rest(i), {"rules"})
  BY SameCurrent DEF LoseAnswer, table, server
<1>3. requests \in Seq(PageRequest) /\ requests[i] \in PageRequest /\ Rest(i) \in Seq(PageRequest)
  BY RequestType, RestType DEF TypeInv
<1>4. missed' = missed \cup {IF requests[i].op = "names" THEN "names" ELSE "rules"}
  BY DEF LoseAnswer
<1>5. Ends(requests', "rules", Current)
  BY <1>1, <1>3, OutdatedEnds, OldIsCurrent
<1>6. CASE requests[i].op # "names"
  <2>1. RulesCurrent'
    BY <1>1, <1>4, <1>5, <1>6 DEF RulesCurrent
  <2>2. NamesCurrent'
    BY <1>1, <1>3, <1>4, <1>6, NamesStay DEF TableCurrent, NamesCurrent
  <2> QED
    BY <2>1, <2>2 DEF TableCurrent
<1>7. CASE requests[i].op = "names"
  <2>1. NamesCurrent'
    <3>1. CASE Ends(requests, "names", Current)
      <4>1. Ends(Rest(i), "names", Current)
        BY <1>3, <3>1, RestEnds, OldIsCurrent
      <4>2. Ends(requests', "names", Current)
        BY <1>1, <1>3, <4>1, OutdatedEnds, OldIsCurrent
      <4> QED
        BY <1>1, <1>4, <1>7, <4>2 DEF NamesCurrent
    <3> QED
      BY <1>1, <3>1 DEF TableCurrent, NamesCurrent
  <2>2. ASSUME Done(requests) PROVE Done(requests')
    <3>1. Done(Rest(i))
      BY <1>3, <1>7, <2>2, RestDone DEF IsChange
    <3> QED
      BY <1>1, <1>3, <3>1, OutdatedEnds, OldIsCurrent
  <2>3. ASSUME Ends(requests, "rules", Current), None(requests', "rules") PROVE None(requests, "rules")
    <3>1. None(Rest(i), "rules")
      BY <1>1, <1>3, <2>3, OutdatedEnds, OldIsCurrent
    <3> QED
      BY <1>3, <1>7, <2>3, <3>1, RestEnds, OldIsCurrent
  <2>4. RulesCurrent'
    BY <1>1, <1>4, <1>5, <2>2, <2>3 DEF TableCurrent, RulesCurrent
  <2> QED
    BY <2>1, <2>4 DEF TableCurrent
<1> QED
  BY <1>6, <1>7

\* A query is worked on: the others stay what they are.
LEMMA WorkTable ==
    ASSUME TypeInv, TableCurrent, NEW i \in DOMAIN requests, NEW q,
           requests' = [requests EXCEPT ![i] = q],
           requests[i] \in QueryRequest, q.op = requests[i].op,
           requests[i] \in Current => q \in Current',
           UNCHANGED <<page, mac, rows, names, live, missed>>, lastId' \in Nat, lastId <= lastId'
    PROVE  TableCurrent'
<1>1. lastId \in Nat /\ requests \in Seq(PageRequest)
  BY RequestType DEF TypeInv, ServerInv
<1>2. (\A r \in Current : r \in Current') /\ InForce' = InForce
  BY <1>1, StillCurrent DEF InForce, Listed, Of, Application
<1>3. /\ DOMAIN requests' = DOMAIN requests /\ requests'[i] = q
      /\ \A k \in DOMAIN requests : k # i => requests'[k] = requests[k]
  BY <1>1
<1>4. \A k \in DOMAIN requests : requests'[k].op = requests[k].op
  BY <1>3
<1>5. ASSUME NEW op \in {"rules", "names"}
      PROVE  /\ None(requests', op) => None(requests, op)
             /\ Ends(requests, op, Current) => Ends(requests', op, Current')
  <2>1. None(requests', op) => None(requests, op)
    BY <1>3, <1>4 DEF None
  <2>2. Ends(requests, op, Current) => Ends(requests', op, Current')
    BY <1>2, <1>3, <1>4 DEF Ends
  <2> QED
    BY <2>1, <2>2
<1>6. Done(requests) => Done(requests')
  <2>1. ~IsChange(requests[i])
    BY DEF IsChange, QueryRequest
  <2> QED
    BY <1>3, <2>1 DEF Done
<1> QED
  BY <1>2, <1>5, <1>6 DEF TableCurrent, RulesCurrent, NamesCurrent

LEMMA WorkedIs ==
    ASSUME NEW r \in QueryRequest, NEW todo, NEW was
    PROVE  /\ Worked(r, todo, was).op = r.op /\ Worked(r, todo, was).mac = r.mac
           /\ Worked(r, todo, was).old = r.old
           /\ Worked(r, todo, was).todo = todo /\ Worked(r, todo, was).was = was
BY DEF Worked, QueryRequest

\* A query stays right if what is read of it is the rules in force, or what is
\* still to be saved and what was are together what they were.
LEMMA WorkedIsCurrent ==
    ASSUME NEW r \in QueryRequest, NEW todo \in MaybeRead, NEW was \in MaybeRead \cup {Null},
           UNCHANGED <<page, mac, live>>, r \in Current,
           r.mac = mac /\ Underway(r) => Underway(Worked(r, todo, was))'
    PROVE  Worked(r, todo, was) \in Current'
<1> DEFINE q == Worked(r, todo, was)
<1>1. QueryRequest' = QueryRequest
  BY SameTypes DEF QueryRequest, MaybeRead
<1>2. q.op = r.op /\ q.mac = r.mac /\ q.old = r.old
  BY WorkedIs
<1>3. q \in QueryRequest
  BY DEF Worked, QueryRequest
<1>4. r.op = "rules" /\ ~r.old => Underway(q)'
  BY DEF Current
<1> HIDE DEF q
<1>5. q \in Current'
  BY <1>1, <1>2, <1>3, <1>4 DEF Current
<1> QED
  BY <1>5 DEF q

\* A query is worked on: what is asked for by a lemma that speaks of it.
LEMMA WorkedTable ==
    ASSUME TypeInv, TableCurrent, NEW i \in DOMAIN requests, NEW r, r = requests[i], r \in QueryRequest,
           NEW todo \in MaybeRead, NEW was \in MaybeRead \cup {Null},
           NEW q, q = Worked(r, todo, was),
           requests' = [requests EXCEPT ![i] = q],
           UNCHANGED <<page, mac, rows, names, live, missed>>, lastId' \in Nat, lastId <= lastId',
           r.mac = mac /\ Underway(r) => Underway(q)'
    PROVE  TableCurrent'
<1>1. r \in Current => q \in Current'
  BY WorkedIsCurrent
<1>2. q.op = r.op
  BY WorkedIs
<1> QED
  BY <1>1, <1>2, WorkTable

LEMMA ReadsTable ==
    ASSUME TypeInv, TableCurrent, NEW i \in DOMAIN requests, Read(i) \/ ReadFails(i) \/ Clear(i)
    PROVE  TableCurrent'
<1>1. PICK r : r = requests[i]
  OBVIOUS
<1>2. r \in QueryRequest
  BY <1>1, RequestType, KindsOfRequest DEF Read, ReadFails, Clear, IsRead
<1>3. UNCHANGED <<page, mac, rows, names, live, lastId, missed>>
  BY DEF Read, ReadFails, Clear, table, server
<1>4. repo \in RuleSets /\ live \in RuleSets /\ lastId \in Nat /\ lastId <= lastId /\ {} \in RuleSets
  BY RuleSetParts DEF TypeInv, ServerInv
<1>5. Of(live, r.mac) \in RuleSets /\ Of(live, mac)' = Of(live, mac) /\ Application' = Application
  BY <1>3, <1>4, OfType DEF Of, Application
<1>6. CASE Read(i)
  <2>1. PICK todo : todo = Of(live, r.mac)
    OBVIOUS
  <2>2. PICK q : q = Worked(r, todo, Unread)
    OBVIOUS
  <2>3. q.todo = todo /\ q.was = Unread
    BY <1>2, <2>2, WorkedIs
  <2>4. ASSUME r.mac = mac PROVE Underway(q)'
    <3>1. \A v : Times({}, v) + Times(todo, v) = Times(Of(live, mac), v)
      BY <1>5, <2>1, <2>4, TimesType, TimesEmpty
    <3> QED
      BY <1>5, <2>3, <3>1 DEF Underway, Got
  <2>5. requests' = [requests EXCEPT ![i] = q]
    BY <1>1, <1>6, <2>1, <2>2 DEF Read
  <2>6. todo \in MaybeRead /\ Unread \in MaybeRead \cup {Null}
    BY <1>5, <2>1 DEF MaybeRead
  <2> QED
    BY <1>1, <1>2, <1>3, <1>4, <2>2, <2>4, <2>5, <2>6, WorkedTable
<1>7. CASE ReadFails(i)
  <2>1. PICK q : q = Worked(r, {}, Null)
    OBVIOUS
  <2>2. q.was = Null
    BY <1>2, <2>1, WorkedIs
  <2>3. Underway(q)'
    BY <2>2 DEF Underway
  <2>4. requests' = [requests EXCEPT ![i] = q]
    BY <1>1, <1>7, <2>1 DEF ReadFails
  <2>5. {} \in MaybeRead /\ Null \in MaybeRead \cup {Null}
    BY <1>4 DEF MaybeRead
  <2> QED
    BY <1>1, <1>2, <1>3, <1>4, <2>1, <2>3, <2>4, <2>5, WorkedTable
<1>8. CASE Clear(i)
  <2>1. PICK q : q = Worked(r, r.todo, {})
    OBVIOUS
  <2>2. q.todo = r.todo /\ q.was = {}
    BY <1>2, <2>1, WorkedIs
  <2>3. r.todo \in MaybeRead /\ r.todo # Unread /\ r.was = Unread
    BY <1>1, <1>2, <1>8 DEF QueryRequest, Clear
  <2>4. Got(r) = {} /\ Got(q) = {}
    BY <2>2, <2>3 DEF Got
  <2>5. ASSUME Underway(r), Unread # Null PROVE Underway(q)'
    BY <1>3, <1>5, <2>2, <2>3, <2>4, <2>5 DEF Underway
  <2>6. Unread # Null
    BY UnreadAssumption
  <2>7. requests' = [requests EXCEPT ![i] = q]
    BY <1>1, <1>8, <2>1 DEF Clear
  <2>8. {} \in MaybeRead \cup {Null}
    BY <1>4 DEF MaybeRead
  <2> QED
    BY <1>1, <1>2, <1>3, <1>4, <2>1, <2>3, <2>5, <2>6, <2>7, <2>8, WorkedTable
<1> QED
  BY <1>6, <1>7, <1>8

\* Rules are saved one by one, each as often as it is in force.
LEMMA FillTable ==
    ASSUME TypeInv, TableCurrent, NEW i \in DOMAIN requests, Fill(i)
    PROVE  TableCurrent'
<1>1. PICK r : r = requests[i]
  OBVIOUS
<1>2. PICK e \in r.todo, saved \in GoodRule :
        /\ saved = IF Application THEN e ELSE [e EXCEPT !.id = lastId + 1]
        /\ lastId' = (IF Application THEN lastId ELSE lastId + 1) /\ lastId' \in Nat
        /\ requests' = [requests EXCEPT ![i] = Worked(r, r.todo \ {e}, r.was \cup {saved})]
        /\ r \in QueryRequest /\ r.todo \in RuleSets /\ r.was \in RuleSets
        /\ e \in GoodRule /\ live' = live
  BY <1>1, FillIs, Zenon
<1>3. UNCHANGED <<page, mac, rows, names, live, missed>> /\ lastId \in Nat /\ lastId <= lastId'
  BY <1>2 DEF Fill, table, TypeInv, ServerInv
<1>4. saved.v = e.v /\ (~Application => saved.id = lastId + 1 /\ lastId' = lastId + 1)
      /\ (Application => saved = e /\ lastId' = lastId)
  BY <1>2 DEF GoodRule
<1>5. r.todo # Unread /\ r.was \notin {Unread, Null}
  BY <1>1 DEF Fill
<1>6. Of(live, mac)' = Of(live, mac) /\ Application' = Application
  BY <1>3 DEF Of, Application
<1>7. PICK todo : todo = r.todo \ {e}
  OBVIOUS
<1>8. PICK was : was = r.was \cup {saved}
  OBVIOUS
<1>9. PICK q : q = Worked(r, todo, was)
  OBVIOUS
<1>10. todo \in RuleSets /\ was \in RuleSets
  <2>1. {saved} \in RuleSets
    BY FS_Singleton DEF RuleSets
  <2> QED
    BY <1>2, <1>7, <1>8, <2>1, RuleSetParts
<1>11. was # Unread
  BY <1>10, NeverUnread
<1>12. ASSUME Underway(r) PROVE Underway(q)'
  <2>1. \A v : Times(r.was, v) + Times(r.todo, v) = Times(Of(live, mac), v)
    BY <1>5, <1>12 DEF Underway, Got
  <2>2. IF Application THEN r.was \cap r.todo = {} ELSE \A d \in r.was : d.id <= lastId
    BY <1>5, <1>12 DEF Underway, Got
  <2>3. \A d \in r.was : d.id \in Nat
    BY <1>2 DEF RuleSets, GoodRule, RuleId
  <2>4. saved \notin r.was
    <3>1. CASE Application
      <4>1. saved \in r.todo
        BY <1>4, <3>1
      <4> QED
        BY <2>2, <3>1, <4>1
    <3>2. CASE ~Application
      <4>1. saved.id = lastId + 1 /\ lastId \in Nat
        BY <1>3, <1>4, <3>2
      <4>2. \A d \in r.was : d.id <= lastId
        BY <2>2, <3>2
      <4> QED
        BY <2>3, <4>1, <4>2
    <3> QED
      BY <3>1, <3>2
  <2>5. ASSUME NEW v PROVE Times(was, v) + Times(todo, v) = Times(Of(live, mac), v)
    <3>0. r.was \in RuleSets
      BY <1>2
    <3>1. Times(was, v) = Times(r.was, v) + (IF saved.v = v THEN 1 ELSE 0)
      BY <1>8, <2>4, <3>0, TimesAdd
    <3>2. Times(r.todo, v) = Times(todo, v) + (IF e.v = v THEN 1 ELSE 0)
      BY <1>2, <1>7, TimesRemove
    <3>3. Times(was, v) \in Nat /\ Times(todo, v) \in Nat /\ Times(r.was, v) \in Nat /\ Times(r.todo, v) \in Nat
      BY <1>2, <1>10, TimesType
    <3> QED
      BY <1>4, <2>1, <3>1, <3>2, <3>3
  <2>6. IF Application THEN was \cap todo = {} ELSE \A d \in was : d.id <= lastId'
    <3>1. CASE Application
      <4>1. saved = e /\ r.was \cap r.todo = {}
        BY <1>4, <2>2, <3>1
      <4> QED
        BY <1>7, <1>8, <3>1, <4>1
    <3>2. CASE ~Application
      <4>1. saved.id = lastId + 1 /\ lastId' = lastId + 1 /\ lastId \in Nat
        BY <1>3, <1>4, <3>2
      <4>2. \A d \in r.was : d.id <= lastId
        BY <2>2, <3>2
      <4>3. \A d \in was : d.id <= lastId'
        BY <1>8, <2>3, <4>1, <4>2
      <4> QED
        BY <3>2, <4>3
    <3> QED
      BY <3>1, <3>2
  <2>7. q.todo = todo /\ q.was = was
    BY <1>2, <1>9, WorkedIs
  <2> QED
    BY <1>6, <1>11, <2>5, <2>6, <2>7 DEF Underway, Got
<1>13. requests' = [requests EXCEPT ![i] = q]
  BY <1>2, <1>7, <1>8, <1>9
<1>14. todo \in MaybeRead /\ was \in MaybeRead \cup {Null}
  BY <1>10 DEF MaybeRead
<1>15. r \in QueryRequest /\ lastId' \in Nat
  BY <1>2
<1> QED
  BY <1>1, <1>3, <1>9, <1>12, <1>13, <1>14, <1>15, WorkedTable

LEMMA OtherAnsweredTable ==
    ASSUME TypeInv, TableCurrent, NEW i \in DOMAIN requests, OtherAnswered(i)
    PROVE  TableCurrent'
<1>1. /\ UNCHANGED <<page, mac, rows, names, live, lastId, missed>> /\ requests[i].op = "other"
      /\ requests' = RemoveAt(requests, i)
  BY DEF OtherAnswered, table, server
<1>2. Current' = Current /\ InForce' = InForce
  BY <1>1, SameCurrent
<1>3. requests \in Seq(PageRequest)
  BY RequestType
<1> DEFINE before == SubSeq(requests, 1, i - 1)
<1>4. Outdated(before, {}) = before
  <2>1. before \in Seq(PageRequest)
    BY <1>3, Pieces
  <2> HIDE DEF before
  <2> QED
    BY <2>1 DEF Outdated
<1>5. {requests[i].op} \cap {"rules", "names"} = {}
  BY <1>1
<1>6. requests' = Rest(i)
  BY <1>1, <1>4, <1>5, Zenon DEF Rest, RemoveAt
<1>7. ASSUME NEW op \in {"rules", "names"}
      PROVE  /\ Ends(requests, op, Current) => Ends(requests', op, Current)
             /\ Ends(requests, op, Current) /\ None(requests', op) => None(requests, op)
  BY <1>1, <1>3, <1>6, RestEnds, OldIsCurrent
<1>8. Done(requests) => Done(requests')
  BY <1>1, <1>3, <1>6, RestDone DEF IsChange
<1> QED
  BY <1>1, <1>2, <1>7, <1>8 DEF TableCurrent, RulesCurrent, NamesCurrent

\* A change that the dashboard is at work on.
LEMMA ChangeTable ==
    ASSUME TypeInv, TableCurrent, NEW i \in DOMAIN requests, NEW q,
           requests' = [requests EXCEPT ![i] = q],
           IsChange(requests[i]), q.op = requests[i].op, q.result # "none",
           UNCHANGED <<page, mac, names, missed>>
    PROVE  TableCurrent'
<1>1. requests \in Seq(PageRequest)
  BY RequestType
<1>2. /\ DOMAIN requests' = DOMAIN requests /\ requests'[i] = q
      /\ \A k \in DOMAIN requests : k # i => requests'[k] = requests[k]
  BY <1>1
<1>3. Done(requests')
  BY <1>2 DEF Done, IsChange
<1>4. RulesCurrent'
  BY <1>3 DEF RulesCurrent
<1>5. NamesCurrent'
  <2>1. QueryRequest' = QueryRequest
    BY SameTypes DEF QueryRequest, MaybeRead
  <2>2. \A r \in Current : r.op = "names" => r \in Current'
    BY <2>1 DEF Current
  <2>3. \A k \in DOMAIN requests : requests'[k].op = requests[k].op
    BY <1>2
  <2>4. \A k \in DOMAIN requests : requests[k].op = "names" => requests'[k] = requests[k]
    BY <1>2 DEF IsChange
  <2>5. Ends(requests, "names", Current) => Ends(requests', "names", Current')
    BY <1>2, <2>2, <2>3, <2>4 DEF Ends
  <2>6. None(requests', "names") => None(requests, "names")
    BY <1>2, <2>3 DEF None
  <2> QED
    BY <2>5, <2>6 DEF TableCurrent, NamesCurrent
<1> QED
  BY <1>4, <1>5 DEF TableCurrent

LEMMA ChangesTable ==
    ASSUME TypeInv, TableCurrent, NEW i \in DOMAIN requests,
           Find(i) \/ Store(i) \/ FindAll(i) \/ Publish(i)
    PROVE  TableCurrent'
<1> DEFINE r == requests[i]
<1>1. UNCHANGED <<page, mac, names, missed>> /\ IsChange(r)
  BY DashboardAlone DEF DashboardStep, table, Find, Store, FindAll, Publish
<1>2. r \in AnyChange
  BY <1>1, ChangeAt
<1>3. ASSUME NEW n \in AnyChange, n.op = r.op, NEW result, result # "none", NEW data,
             requests' = [requests EXCEPT ![i] = Turned(n, result, data)]
      PROVE  TableCurrent'
  <2> DEFINE q == Turned(n, result, data)
  <2>1. q.op = r.op /\ q.result # "none"
    BY <1>3, TurnedIs
  <2>2. requests' = [requests EXCEPT ![i] = q]
    BY <1>3
  <2> HIDE DEF q
  <2> QED
    BY <1>1, <2>1, <2>2, ChangeTable
<1>4. ASSUME NEW result \in {"ok", "failed"}, Answer(i, result) PROVE TableCurrent'
  BY <1>2, <1>3, <1>4 DEF Answer
<1>5. CASE Find(i)
  <2>1. CASE Accepted(r) /\ requests' = [requests EXCEPT ![i] = GoesOn(r)]
    <3> DEFINE n == [r EXCEPT !.machine = MachineFor(r)]
    <3>1. MachineFor(r) \in Machine
      BY <1>1, <1>2, <2>1, FoundType, ChangeAt
    <3>2. n \in AnyChange /\ n.op = r.op
      BY <1>2, <3>1, MovedType
    <3>3. requests' = [requests EXCEPT ![i] = Turned(n, "found", Found(r))]
      BY <2>1 DEF GoesOn
    <3> HIDE DEF n
    <3> QED
      BY <1>3, <3>2, <3>3
  <2> QED
    BY <1>4, <1>5, <2>1, FindIs
<1>6. CASE Store(i)
  BY <1>2, <1>3, <1>4, <1>6, StoreIs
<1>7. CASE FindAll(i)
  BY <1>2, <1>3, <1>7 DEF FindAll
<1>8. CASE Publish(i)
  BY <1>4, <1>8 DEF Publish
<1> QED
  BY <1>5, <1>6, <1>7, <1>8

LEMMA TableNext ==
    ASSUME TypeInv, TableCurrent, [Next]_vars
    PROVE  TableCurrent'
<1>1. CASE UNCHANGED vars
  BY <1>1, TableStays DEF vars, server
<1>2. CASE Next
  <2>1. PageStep
    BY <1>2, TypedDialog, NextIsPageStep DEF TypeInv
  <2>2. CASE Close
    BY <2>2, TableStays DEF Close, server
  <2>3. ASSUME NEW e \in Shown, OpenEdit(e, EditForm(e.v)) \/ OpenDelete(e) PROVE TableCurrent'
    BY <2>3, TableStays DEF OpenEdit, OpenDelete, Open, server
  <2>4. ASSUME NEW v \in Form, OpenAdd(v) PROVE TableCurrent'
    BY <2>4, TableStays DEF OpenAdd, Open, server
  <2>5. ASSUME NEW v, Entered(v) PROVE TableCurrent'
    <3>1. currentRule.ofTable = FALSE
      <4>1. open \in {"add", "edit"}
        BY <2>5 DEF Entered
      <4> QED
        BY <4>1 DEF TypeInv, DialogInv
    <3> QED
      BY <2>5, <3>1, TableStays DEF Entered, Enter, table, server
  <2>6. ASSUME NEW op \in {"add", "save", "delete"}, Sent(op) PROVE TableCurrent'
    <3>1. requests \in Seq(PageRequest) /\ Message(op) \in PageRequest
          /\ requests' = Append(requests, Message(op))
      BY <2>6, SentType
    <3>2. Message(op).op \notin {"rules", "names"}
      BY DEF Message
    <3> QED
      BY <2>6, <3>1, <3>2, TableStays DEF Sent, Change, server
  <2>7. CASE OtherQuery
    <3>1. PICK m \in Machine : requests' = Append(requests, Ask("other", m))
      BY <2>7 DEF OtherQuery
    <3>2. Ask("other", m) \in PageRequest /\ Ask("other", m).op \notin {"rules", "names"}
      BY AskType DEF PageRequest, Ask
    <3>3. requests \in Seq(PageRequest)
      BY DEF TypeInv, RequestsTyped
    <3> QED
      BY <2>7, <3>1, <3>2, <3>3, TableStays DEF OtherQuery, server
  <2>8. ASSUME NEW i \in DOMAIN requests, DashboardStep(i) PROVE TableCurrent'
    BY <2>8, ReadsTable, FillTable, OtherAnsweredTable, ChangesTable DEF DashboardStep
  <2> QED
    BY <2>1, <2>2, <2>3, <2>4, <2>5, <2>6, <2>7, <2>8, SelectTable, MachinesTable, RulesTable, NamesTable,
       AnsweredTable, LostTable DEF PageStep
<1> QED
  BY <1>1, <1>2

\* With nothing in flight the table shows the rules in force for the selected
\* machine, however selections, changes, queries, what the dashboard does for
\* each of them and their answers were mixed -- unless an answer was lost,
\* refused, or overtaken by a later one, which the history variable records.
THEOREM TheTableIsCurrent == Spec => []IdleIsCurrent
<1>1. Init => TypeInv /\ TableCurrent
  BY TypeInit DEF Init, TableCurrent, RulesCurrent, NamesCurrent
<1>2. TypeInv /\ TableCurrent /\ [Next]_vars => (TypeInv /\ TableCurrent)'
  BY TypeNext, TableNext
<1>3. TableCurrent => IdleIsCurrent
  <2>1. ASSUME requests = <<>> PROVE ~Done(requests) /\ None(requests, "rules") /\ None(requests, "names")
    BY <2>1 DEF Done, None
  <2> QED
    BY <2>1 DEF TableCurrent, RulesCurrent, NamesCurrent, InForce, IdleIsCurrent
<1> QED
  BY <1>1, <1>2, <1>3, PTL DEF Spec
=============================================================================
