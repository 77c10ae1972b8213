---------------------------- MODULE ProbesProofs -----------------------------
(***************************************************************************)
(* The two probe services keep their properties, for any destinations,     *)
(* addresses, latencies, limits, payloads, configurations and requests.    *)
(*                                                                         *)
(* Most of the argument is about the verdicts: SniVerdict follows the      *)
(* checks of one observation, and TraceVerdict the insertion sort of one   *)
(* payload, of which Ordered is the loop's invariant.  What the services   *)
(* do with the verdicts is the induction of ProbesInvariant.               *)
(***************************************************************************)
EXTENDS MCProbes, FiniteSetTheorems, WellFoundedInduction, TLAPS
-----------------------------------------------------------------------------
(* Least and greatest numbers. *)

\* A set of numbers that is not empty has a least one.
LEMMA LeastExists ==
  ASSUME NEW S \in SUBSET Nat, S # {}
  PROVE  \E m \in S : \A k \in S : m <= k
<1> DEFINE R == {ss \in Nat \X Nat : ss[1] < ss[2]}
<1>1. OpToRel(<, Nat) = R
  BY DEF OpToRel
<1>2. IsWellFoundedOn(R, Nat)
  BY <1>1, NatLessThanWellFounded
<1>3. PICK m \in S : \A k \in S : ~(<<k, m>> \in R)
  <2> HIDE DEF R
  <2> QED
    BY <1>2, WFMin
<1>4. \A k \in S : m <= k
  <2> SUFFICES ASSUME NEW k \in S PROVE m <= k
    OBVIOUS
  <2>1. k \in Nat /\ m \in Nat
    OBVIOUS
  <2>2. <<k, m>> \notin R
    BY <1>3
  <2> QED
    BY <2>1, <2>2
<1> QED
  BY <1>4

\* Min takes it.
LEMMA MinIsLeast ==
  ASSUME NEW S \in SUBSET Nat, S # {}
  PROVE  Min(S) \in S /\ \A k \in S : Min(S) <= k
BY LeastExists DEF Min

\* A set of numbers with a bound has a greatest one, and Max takes it.
LEMMA MaxIsGreatest ==
  ASSUME NEW n \in Nat, NEW S \in SUBSET (0..n), S # {}
  PROVE  Max(S) \in S /\ \A k \in S : k <= Max(S)
<1> DEFINE B == {b \in Nat : \A k \in S : k <= b}
<1>1. n \in B
  OBVIOUS
<1>2. PICK m \in B : \A b \in B : m <= b
  BY <1>1, LeastExists
<1>3. \A k \in S : k <= m
  OBVIOUS
<1>4. m \in S
  <2> SUFFICES ASSUME m \notin S  PROVE FALSE
    OBVIOUS
  <2>1. \A k \in S : k \in Nat /\ k <= m /\ k # m
    BY <1>3
  <2>0. PICK k \in S : TRUE
    OBVIOUS
  <2>2. m \in Nat /\ m # 0
    BY <2>0, <2>1, <1>2
  <2>3. m - 1 \in B
    BY <2>1, <2>2
  <2> QED
    BY <2>2, <2>3, <1>2
<1>5. \E x \in S : \A y \in S : x >= y
  BY <1>3, <1>4, <1>2
<1>6. Max(S) \in S /\ \A y \in S : Max(S) >= y
  BY <1>5 DEF Max
<1> QED
  BY <1>6

-----------------------------------------------------------------------------
(* What is observed of a destination. *)

AddressRecord ==
  [public : BOOLEAN, tcp : BOOLEAN, xray : {"ok", "refused", "error"},
   key : {"x25519", "rsa", "none"}, tls : BOOLEAN]

\* An outcome is of that type, and so is the evidence of no address.
LEMMA AddressType == AddressOutcomes \subseteq AddressRecord /\ NoEvidence \in AddressRecord
<1>1. Private \in AddressRecord
  BY DEF AddressRecord, Private
<1>2. Closed \in AddressRecord
  BY DEF AddressRecord, Closed, Private
<1>3. NoEvidence \in AddressRecord
  BY DEF AddressRecord, NoEvidence, Closed, Private
<1>5. [public : {TRUE}, tcp : {TRUE}, xray : {"ok", "refused", "error"},
       key : {"x25519", "rsa", "none"}, tls : BOOLEAN] \subseteq AddressRecord
  BY DEF AddressRecord
<1> QED
  BY <1>1, <1>2, <1>3, <1>5, Zenon DEF AddressOutcomes

\* The addresses resolved.
LEMMA FoundsType == Founds \subseteq Seq(AddressRecord)
<1> DEFINE omitted == [i \in 1..(MaxFound - AddressLimit) |-> Closed]
           A == UNION {[1..n -> AddressOutcomes] : n \in 0..AddressLimit}
           B == {f \o omitted : f \in [1..AddressLimit -> AddressOutcomes]}
<1>0. Founds = A \cup B
  BY Zenon DEF Founds
<1> HIDE DEF A, B
<1>1. Closed \in AddressRecord
  BY AddressType DEF AddressOutcomes
<1>2. omitted \in Seq(AddressRecord)
  <2>1. CASE MaxFound - AddressLimit \in Nat
    BY <1>1, <2>1
  <2>2. CASE MaxFound - AddressLimit \notin Nat
    <3>1. 1..(MaxFound - AddressLimit) = 1..0
      BY <2>2, ProbeAssumption
    <3>2. omitted = [i \in 1..0 |-> Closed]
      BY <3>1, Zenon
    <3>3. [i \in 1..0 |-> Closed] \in Seq(AddressRecord)
      BY <1>1
    <3> QED
      BY <3>2, <3>3, Zenon
  <2> QED
    BY <2>1, <2>2
<1>3. ASSUME NEW n \in Nat, NEW f \in [1..n -> AddressOutcomes]  PROVE f \in Seq(AddressRecord)
  BY AddressType
<1>4. ASSUME NEW f \in [1..AddressLimit -> AddressOutcomes]  PROVE f \o omitted \in Seq(AddressRecord)
  <2>1. f \in Seq(AddressRecord)
    BY <1>3, ProbeAssumption
  <2> HIDE DEF omitted
  <2> QED
    BY <1>2, <2>1
<1>5. ASSUME NEW n \in 0..AddressLimit, NEW f \in [1..n -> AddressOutcomes]  PROVE f \in Seq(AddressRecord)
  BY <1>3, ProbeAssumption
<1> HIDE DEF omitted
<1> SUFFICES ASSUME NEW x \in Founds  PROVE x \in Seq(AddressRecord)
  OBVIOUS
<1>7. CASE \E n \in 0..AddressLimit : x \in [1..n -> AddressOutcomes]
  BY <1>5, <1>7
<1>8. CASE \E f \in [1..AddressLimit -> AddressOutcomes] : x = f \o omitted
  BY <1>4, <1>8
<1>9. CASE x \in A
  BY <1>7, <1>9 DEF A
<1>10. CASE x \in B
  BY <1>8, <1>10 DEF B
<1> QED
  BY <1>0, <1>9, <1>10

\* An observation.
LEMMA ObservationType ==
  ASSUME NEW o \in Observations
  PROVE  /\ o.dns \in BOOLEAN /\ (~o.dns => o.found = <<>>)
         /\ o.found \in Seq(AddressRecord)
         /\ o.ms \in Seq(Nat) /\ Len(o.ms) <= Samples
<1>1. ASSUME NEW t \in UNION {[1..n -> Millis] : n \in 1..Samples}
      PROVE  t \in Seq(Nat) /\ Len(t) <= Samples
  <2>1. PICK n \in 1..Samples : t \in [1..n -> Millis]
    OBVIOUS
  <2>2. n \in Nat /\ n <= Samples
    BY DEF Samples
  <2>3. t \in [1..n -> Nat]
    BY <2>1, ProbeAssumption
  <2> QED
    BY <2>2, <2>3
<1>2. CASE o \in [dns : {FALSE}, found : {<<>>}, ms : {<<>>}]
  <2>1. o.dns = FALSE /\ o.found = <<>> /\ o.ms = <<>>
    BY <1>2
  <2>2. <<>> \in Seq(AddressRecord) /\ <<>> \in Seq(Nat) /\ Len(<<>>) <= Samples
    BY DEF Samples
  <2> QED
    BY <2>1, <2>2
<1>3. CASE o \in [dns : {TRUE}, found : Founds, ms : UNION {[1..n -> Millis] : n \in 1..Samples}]
  <2>1. /\ o.dns = TRUE /\ o.found \in Founds
        /\ o.ms \in UNION {[1..n -> Millis] : n \in 1..Samples}
    BY <1>3
  <2> QED
    BY <2>1, <1>1, FoundsType
<1> QED
  BY <1>2, <1>3 DEF Observations

\* The addresses inspected are the first of those found.
LEMMA InspectedType ==
  ASSUME NEW o \in Observations
  PROVE  LET seen == Inspected(o) IN
         /\ seen \in Seq(AddressRecord) /\ DOMAIN seen = 1..Len(seen)
         /\ DOMAIN seen \subseteq DOMAIN o.found /\ \A i \in DOMAIN seen : seen[i] = o.found[i]
         /\ Len(o.found) <= AddressLimit => seen = o.found
         /\ seen = <<>> => o.found = <<>>
<1> DEFINE f == o.found
           n == IF Len(f) > AddressLimit THEN AddressLimit ELSE Len(f)
<1>1. f \in Seq(AddressRecord) /\ AddressLimit \in Nat /\ AddressLimit # 0
  BY ObservationType, ProbeAssumption
<1>2. Inspected(o) = SubSeq(f, 1, n)
  BY DEF Inspected
<1> HIDE DEF f
<1>3. n \in Nat /\ n <= Len(f) /\ (Len(f) <= AddressLimit => n = Len(f)) /\ (n = 0 => Len(f) = 0)
  BY <1>1
<1> HIDE DEF n
<1>4. /\ SubSeq(f, 1, n) \in Seq(AddressRecord) /\ Len(SubSeq(f, 1, n)) = n
      /\ \A i \in 1..n : SubSeq(f, 1, n)[i] = f[i]
  BY <1>1, <1>3
<1>5. DOMAIN SubSeq(f, 1, n) = 1..n /\ DOMAIN f = 1..Len(f)
  BY <1>1, <1>3, <1>4
<1>6. n = Len(f) => SubSeq(f, 1, n) = f
  BY <1>1, <1>3, <1>4, <1>5
<1>7. SubSeq(f, 1, n) = <<>> => f = <<>>
  BY <1>1, <1>3, <1>4
<1> QED
  BY <1>2, <1>3, <1>4, <1>5, <1>6, <1>7, <1>1 DEF f

\* The address whose evidence is used: the first that passes, else one that was
\* reached, else none.
LEMMA ChosenAddress ==
  ASSUME NEW seen \in Seq(AddressRecord)
  PROVE  /\ Chosen(seen) \in AddressRecord
         /\ (\E i \in DOMAIN seen : AddressPasses(seen[i])) =>
              \E i \in DOMAIN seen :
                /\ Chosen(seen) = seen[i] /\ AddressPasses(seen[i])
                /\ \A j \in DOMAIN seen : AddressPasses(seen[j]) => i <= j
         /\ (\E i \in DOMAIN seen : Reached(seen[i])) =>
              \E i \in DOMAIN seen : Chosen(seen) = seen[i] /\ Reached(seen[i])
<1> DEFINE passing == {i \in DOMAIN seen : AddressPasses(seen[i])}
           reached == {i \in DOMAIN seen : Reached(seen[i])}
<1>1. passing \in SUBSET Nat /\ reached \in SUBSET Nat
  OBVIOUS
<1>2. Chosen(seen) = IF passing # {} THEN seen[Min(passing)]
                     ELSE IF reached # {} THEN seen[Min(reached)] ELSE NoEvidence
  BY DEF Chosen
<1>3. passing \subseteq reached
  BY DEF AddressPasses
<1>4. passing # {} => Min(passing) \in passing /\ \A k \in passing : Min(passing) <= k
  BY <1>1, MinIsLeast
<1>5. reached # {} => Min(reached) \in reached
  BY <1>1, MinIsLeast
<1>6. \A i \in DOMAIN seen : seen[i] \in AddressRecord
  OBVIOUS
<1> QED
  BY <1>2, <1>3, <1>4, <1>5, <1>6, AddressType
-----------------------------------------------------------------------------
(* The checks and the verdict. *)

\* Every verdict is one of the four, and says which statuses there are.
LEMMA FinishCases ==
  ASSUME NEW checks
  PROVE  LET fails == HasStatus(checks, "fail")
             unavailable == HasStatus(checks, "unavailable")
         IN
         /\ Finish(checks) \in Verdicts
         /\ Finish(checks) = "usable" <=> ~fails /\ ~unavailable /\ ~HasStatus(checks, "warning")
         /\ Finish(checks) \in {"usable", "warning"} <=> ~fails /\ ~unavailable
         /\ unavailable /\ (\A c \in checks : c.status = "fail" => c.id \in Dependent) =>
              Finish(checks) = "unverified"
<1>1. HasStatus({c \in checks : c.id \notin Dependent}, "fail") =>
        \E c \in checks : c.status = "fail" /\ c.id \notin Dependent
  BY DEF HasStatus
<1>2. HasStatus({c \in checks : c.id \notin Dependent}, "fail") => HasStatus(checks, "fail")
  BY DEF HasStatus
<1> QED
  BY <1>1, <1>2 DEF Finish, Verdicts

\* The checks of a destination with a public address, one by one.
LEMMA FullChecks ==
  ASSUME NEW o, o.dns, NEW seen, seen = Inspected(o), ~(\A a \in Range(seen) : ~a.public)
  PROVE  Checks(TRUE, o) =
           {Check("tcp-reachability", Pass(\E a \in Range(seen) : Reached(a))),
            Check("xray-handshake", XrayStatus(seen)),
            Check("tls-version", Pass(\E a \in Range(seen) : Reached(a) /\ a.tls)),
            Check("address-coverage", CoverageStatus(o)),
            Check("key-exchange", KeyStatus(Chosen(seen))),
            Check("certificate", Pass(Chosen(seen).tls)),
            Check("tls-samples", Pass(Len(Latencies(o)) = Samples)),
            Check("latency", Metric(Latencies(o), IF Latencies(o) = <<>> THEN 0 ELSE Median(Latencies(o)),
                                    LatencyWarning)),
            Check("jitter", Metric(Latencies(o), IF Latencies(o) = <<>> THEN 0 ELSE Spread(Latencies(o)),
                                   JitterWarning))}
BY DEF Checks, SecurityChecks, TimeChecks

\* A status that one of some checks has.
LEMMA UnionStatus ==
  ASSUME NEW A, NEW B, NEW s
  PROVE  HasStatus(A \cup B, s) <=> HasStatus(A, s) \/ HasStatus(B, s)
BY DEF HasStatus

\* One that has a status among two, three or four checks.
LEMMA TwoChecks ==
  ASSUME NEW i1, NEW i2, NEW s1, NEW s2, NEW s
  PROVE  HasStatus({Check(i1, s1), Check(i2, s2)}, s) <=> s1 = s \/ s2 = s
BY DEF HasStatus, Check

\* Three.
LEMMA ThreeChecks ==
  ASSUME NEW i1, NEW i2, NEW i3, NEW s1, NEW s2, NEW s3, NEW s
  PROVE  HasStatus({Check(i1, s1), Check(i2, s2), Check(i3, s3)}, s) <=> s1 = s \/ s2 = s \/ s3 = s
BY DEF HasStatus, Check

\* Four.
LEMMA FourChecks ==
  ASSUME NEW i1, NEW i2, NEW i3, NEW i4, NEW s1, NEW s2, NEW s3, NEW s4, NEW s
  PROVE  HasStatus({Check(i1, s1), Check(i2, s2), Check(i3, s3), Check(i4, s4)}, s) <=>
           s1 = s \/ s2 = s \/ s3 = s \/ s4 = s
BY DEF HasStatus, Check

\* A sequence is a function.
LEMMA SequenceIsFunction ==
  ASSUME NEW T, NEW s \in Seq(T)
  PROVE  s \in [1..Len(s) -> T]
OBVIOUS

\* Three times.
LEMMA ThreeTimes ==
  ASSUME NEW ms \in Seq(Nat), Len(ms) = 3
  PROVE  DOMAIN ms = 1..3 /\ \A i \in 1..3 : ms[i] \in Nat
<1>1. ms \in [1..Len(ms) -> Nat]
  BY SequenceIsFunction, Zenon
<1>2. ms \in [1..3 -> Nat]
  BY <1>1, Zenon
<1> QED
  BY <1>2

\* The values of three times are a least, a middle and a greatest: a sorted
\* order of them exists.
LEMMA SortedOrder ==
  ASSUME NEW ms \in Seq(Nat), Len(ms) = 3
  PROVE  \E p \in [1..3 -> 1..3] :
           /\ \A i, j \in 1..3 : p[i] = p[j] => i = j
           /\ \A i, j \in 1..3 : i < j => ms[p[i]] <= ms[p[j]]
<1>0. \A i \in 1..3 : ms[i] \in Nat
  BY ThreeTimes
<1> DEFINE P(x, y, z) == [i \in 1..3 |-> IF i = 1 THEN x ELSE IF i = 2 THEN y ELSE z]
           Order(p) == /\ \A i, j \in 1..3 : p[i] = p[j] => i = j
                       /\ \A i, j \in 1..3 : i < j => ms[p[i]] <= ms[p[j]]
<1>1. ASSUME NEW x \in 1..3, NEW y \in 1..3, NEW z \in 1..3, x # y, y # z, x # z,
             ms[x] <= ms[y], ms[y] <= ms[z]
      PROVE  \E p \in [1..3 -> 1..3] : Order(p)
  <2>1. P(x, y, z) \in [1..3 -> 1..3]
    OBVIOUS
  <2> DEFINE q == P(x, y, z)
  <2>3. q \in [1..3 -> 1..3] /\ q[1] = x /\ q[2] = y /\ q[3] = z
    BY <2>1
  <2> HIDE DEF P, q
  <2>4. ms[x] \in Nat /\ ms[y] \in Nat /\ ms[z] \in Nat
    BY <1>0
  <2>5. \A i, j \in 1..3 : q[i] = q[j] => i = j
    BY <1>1, <2>3
  <2>6. \A i, j \in 1..3 : i < j => ms[q[i]] <= ms[q[j]]
    BY <1>1, <2>3, <2>4
  <2> QED
    BY <2>3, <2>5, <2>6
<1>2. ms[1] \in Nat /\ ms[2] \in Nat /\ ms[3] \in Nat
  BY <1>0
<1> HIDE DEF P, Order
<1>3. \/ ms[1] <= ms[2] /\ ms[2] <= ms[3]
      \/ ms[1] <= ms[3] /\ ms[3] <= ms[2]
      \/ ms[2] <= ms[1] /\ ms[1] <= ms[3]
      \/ ms[2] <= ms[3] /\ ms[3] <= ms[1]
      \/ ms[3] <= ms[1] /\ ms[1] <= ms[2]
      \/ ms[3] <= ms[2] /\ ms[2] <= ms[1]
  BY <1>2
<1>4. \E p \in [1..3 -> 1..3] : Order(p)
  BY <1>1, <1>3
<1> QED
  BY <1>4 DEF Order

\* The median is a warning when two of the three times are.
LEMMA MedianOfThree ==
  ASSUME NEW ms \in Seq(Nat), Len(ms) = 3, NEW limit \in Nat
  PROVE  Median(ms) > limit <=> ~(\A i, j \in 1..3 : i # j => ms[i] <= limit \/ ms[j] <= limit)
<1> DEFINE Order(p) == \A i, j \in 1..3 : i < j => ms[p[i]] <= ms[p[j]]
           Orders == {p \in [1..3 -> 1..3] : \A i, j \in 1..3 : p[i] = p[j] => i = j}
           sorted == CHOOSE p \in Orders : Order(p)
<1>0. \A i \in 1..3 : ms[i] \in Nat
  BY ThreeTimes
<1>1. DOMAIN ms = 1..3
  BY ThreeTimes
<1>2. (Len(ms) \div 2) + 1 = 2
  OBVIOUS
<1>3. Median(ms) = ms[sorted[2]]
  BY <1>1, <1>2, Zenon DEF Median
<1>4. sorted \in Orders /\ Order(sorted)
  <2>1. \E p \in Orders : Order(p)
    BY SortedOrder
  <2> HIDE DEF Orders, Order
  <2> QED
    BY <2>1
<1>5. PICK x \in 1..3, y \in 1..3, z \in 1..3 :
        x = sorted[1] /\ y = sorted[2] /\ z = sorted[3] /\ x # y /\ y # z /\ x # z
  <2>1. sorted \in [1..3 -> 1..3] /\ \A i, j \in 1..3 : sorted[i] = sorted[j] => i = j
    BY <1>4
  <2> HIDE DEF sorted
  <2> QED
    BY <2>1
<1>6. ms[x] <= ms[y] /\ ms[y] <= ms[z]
  <2>1. \A i, j \in 1..3 : i < j => ms[sorted[i]] <= ms[sorted[j]]
    BY <1>4
  <2> HIDE DEF sorted
  <2> QED
    BY <1>5, <2>1
<1>7. ms[x] \in Nat /\ ms[y] \in Nat /\ ms[z] \in Nat
  BY <1>0
<1>8. Median(ms) = ms[y]
  BY <1>3, <1>5
<1> HIDE DEF sorted, Order, Orders
<1>9. \A i \in 1..3 : i = x \/ i = y \/ i = z
  BY <1>5
<1>10. CASE ms[y] > limit
  BY <1>10, <1>5, <1>6, <1>7, <1>8
<1>11. CASE ~(ms[y] > limit)
  <2>1. ms[x] <= limit /\ ms[y] <= limit
    BY <1>11, <1>6, <1>7
  <2>2. \A i, j \in 1..3 : i # j => ms[i] <= limit \/ ms[j] <= limit
    BY <2>1, <1>9
  <2> QED
    BY <2>2, <1>8, <1>11
<1> QED
  BY <1>10, <1>11

\* The greatest difference of three numbers is that of the greatest and the least.
LEMMA GreatestDifference ==
  ASSUME NEW f, \A i \in 1..3 : f[i] \in Nat, NEW a \in 1..3, NEW b \in 1..3, NEW limit \in Nat,
         \A i \in 1..3 : f[b] <= f[i] /\ f[i] <= f[a]
  PROVE  f[a] - f[b] > limit <=> ~(\A i, j \in 1..3 : f[i] - f[j] <= limit)
<1>1. PICK y \in Nat, z \in Nat : y = f[a] /\ z = f[b]
  OBVIOUS
<1>2. CASE y - z > limit
  BY <1>1, <1>2
<1>3. CASE y - z <= limit
  <2> SUFFICES ASSUME NEW i \in 1..3, NEW j \in 1..3  PROVE f[i] - f[j] <= limit
    BY <1>1, <1>3
  <2>1. PICK w \in Nat, x \in Nat : w = f[i] /\ x = f[j]
    OBVIOUS
  <2>2. w <= y /\ z <= x
    BY <1>1, <2>1
  <2> QED
    BY <1>3, <2>1, <2>2
<1> QED
  BY <1>2, <1>3

\* The jitter is a warning when two of the times are too far apart.
LEMMA SpreadOfThree ==
  ASSUME NEW ms \in Seq(Nat), Len(ms) = 3, NEW limit \in Nat
  PROVE  Spread(ms) > limit <=> ~(\A i, j \in 1..3 : ms[i] - ms[j] <= limit)
<1> DEFINE R == Range(ms)
<1>0. \A i \in 1..3 : ms[i] \in Nat
  BY ThreeTimes
<1>1. R = {ms[i] : i \in 1..3}
  BY DEF Range
<1>2. PICK n \in Nat : \A i \in 1..3 : ms[i] <= n
  <2>1. ms[1] \in Nat /\ ms[2] \in Nat /\ ms[3] \in Nat
    BY <1>0
  <2>2. \A i \in 1..3 : ms[i] <= ms[1] + ms[2] + ms[3]
    BY <2>1
  <2> QED
    BY <2>1, <2>2
<1> HIDE DEF R
<1>3. R \in SUBSET (0..n) /\ R \in SUBSET Nat /\ R # {}
  BY <1>0, <1>1, <1>2
<1>4. Max(R) \in R /\ \A k \in R : k <= Max(R)
  BY <1>3, MaxIsGreatest
<1>5. Min(R) \in R /\ \A k \in R : Min(R) <= k
  BY <1>3, MinIsLeast
<1>6. PICK a \in 1..3, b \in 1..3 : Max(R) = ms[a] /\ Min(R) = ms[b]
  BY <1>1, <1>4, <1>5
<1>7. \A i \in 1..3 : ms[i] \in Nat /\ ms[b] <= ms[i] /\ ms[i] <= ms[a]
  BY <1>0, <1>1, <1>4, <1>5, <1>6
<1>8. Spread(ms) = ms[a] - ms[b]
  BY <1>6 DEF Spread, R
<1>9. ms[a] - ms[b] > limit <=> ~(\A i, j \in 1..3 : ms[i] - ms[j] <= limit)
  <2>1. PICK f : f = ms
    OBVIOUS
  <2>2. /\ \A i \in 1..3 : f[i] \in Nat
        /\ \A i \in 1..3 : f[b] <= f[i] /\ f[i] <= f[a]
    BY <1>0, <1>7, <2>1
  <2>3. f[a] - f[b] > limit <=> ~(\A i, j \in 1..3 : f[i] - f[j] <= limit)
    BY <1>6, <2>2, GreatestDifference
  <2> QED
    BY <2>1, <2>3, Zenon
<1> QED
  BY <1>8, <1>9, Zenon

-----------------------------------------------------------------------------
(* The verdict on a destination with a public address. *)

\* Its statuses are those of the nine checks.
LEMMA FullStatuses ==
  ASSUME NEW o, o.dns, NEW seen, seen = Inspected(o), ~(\A a \in Range(seen) : ~a.public), NEW s,
         NEW checks, checks = Checks(TRUE, o)
  PROVE  LET ms == Latencies(o) IN
         HasStatus(checks, s) <=>
           \/ Pass(\E a \in Range(seen) : Reached(a)) = s
           \/ XrayStatus(seen) = s
           \/ Pass(\E a \in Range(seen) : Reached(a) /\ a.tls) = s
           \/ CoverageStatus(o) = s
           \/ KeyStatus(Chosen(seen)) = s
           \/ Pass(Chosen(seen).tls) = s
           \/ Pass(Len(ms) = Samples) = s
           \/ Metric(ms, IF ms = <<>> THEN 0 ELSE Median(ms), LatencyWarning) = s
           \/ Metric(ms, IF ms = <<>> THEN 0 ELSE Spread(ms), JitterWarning) = s
<1> DEFINE r == Pass(\E a \in Range(seen) : Reached(a))
           t == Pass(\E a \in Range(seen) : Reached(a) /\ a.tls)
           A == {Check("tcp-reachability", r), Check("xray-handshake", XrayStatus(seen)),
                 Check("tls-version", t), Check("address-coverage", CoverageStatus(o))}
           B == SecurityChecks(Chosen(seen))
           C == TimeChecks(Latencies(o))
<1>1. checks = (A \cup B) \cup C
  BY DEF Checks
<1>2. HasStatus(A, s) <=> r = s \/ XrayStatus(seen) = s \/ t = s \/ CoverageStatus(o) = s
  <2> HIDE DEF r, t
  <2> QED
    BY FourChecks
<1>3. HasStatus(B, s) <=> KeyStatus(Chosen(seen)) = s \/ Pass(Chosen(seen).tls) = s
  BY TwoChecks DEF SecurityChecks
<1>4. \A ms : HasStatus(TimeChecks(ms), s) <=>
        \/ Pass(Len(ms) = Samples) = s
        \/ Metric(ms, IF ms = <<>> THEN 0 ELSE Median(ms), LatencyWarning) = s
        \/ Metric(ms, IF ms = <<>> THEN 0 ELSE Spread(ms), JitterWarning) = s
  BY ThreeChecks DEF TimeChecks
<1>5. HasStatus(C, s) <=>
        LET ms == Latencies(o) IN
        \/ Pass(Len(ms) = Samples) = s
        \/ Metric(ms, IF ms = <<>> THEN 0 ELSE Median(ms), LatencyWarning) = s
        \/ Metric(ms, IF ms = <<>> THEN 0 ELSE Spread(ms), JitterWarning) = s
  BY <1>4
<1> HIDE DEF A, B, C, r, t
<1>6. HasStatus(checks, s) <=> HasStatus(A, s) \/ HasStatus(B, s) \/ HasStatus(C, s)
  BY <1>1, UnionStatus
<1> QED
  BY <1>2, <1>3, <1>5, <1>6 DEF r, t

\* A destination that serves has no failed check, and none that could not be
\* made.
LEMMA ServingPasses ==
  ASSUME NEW o \in Observations, o.dns, ~(\A a \in Range(Inspected(o)) : ~a.public), Serves(o)
  PROVE  /\ ~HasStatus(Checks(TRUE, o), "fail") /\ ~HasStatus(Checks(TRUE, o), "unavailable")
         /\ Latencies(o) = o.ms /\ Len(o.ms) = Samples
<1> DEFINE seen == Inspected(o)
           a == Chosen(seen)
           ms == Latencies(o)
<1>1. PICK i \in DOMAIN seen :
        /\ seen[i] = o.found[i] /\ Reached(seen[i]) /\ AddressPasses(seen[i]) /\ seen[i].xray = "ok"
        /\ seen[i].key = "x25519" /\ seen[i].tls
        /\ \A j \in 1..(i - 1) : ~AddressPasses(o.found[j])
        /\ Len(o.ms) = Samples
  BY InspectedType DEF Serves, Reached, AddressPasses
<1>2. seen \in Seq(AddressRecord) /\ \A j \in DOMAIN seen : seen[j] = o.found[j]
  BY InspectedType
<1>3. a = seen[i]
  <2>1. PICK k \in DOMAIN seen : /\ a = seen[k] /\ AddressPasses(seen[k])
                                 /\ \A j \in DOMAIN seen : AddressPasses(seen[j]) => k <= j
    BY <1>1, <1>2, ChosenAddress
  <2>2. k \in Nat /\ i \in Nat /\ 1 <= k /\ k <= i
    BY <1>1, <1>2, <2>1
  <2>3. k \notin 1..(i - 1)
    BY <1>1, <1>2, <2>1
  <2> QED
    BY <2>1, <2>2, <2>3
<1>4. seen[i] \in Range(seen)
  BY DEF Range
<1>5. ms = o.ms /\ Len(ms) = 3 /\ ms # <<>>
  BY <1>1, <1>4 DEF Latencies, Samples
<1>6. Pass(\E b \in Range(seen) : Reached(b)) = "pass"
  BY <1>1, <1>4 DEF Pass
<1>7. XrayStatus(seen) = "pass"
  BY <1>1, <1>4 DEF XrayStatus
<1>8. Pass(\E b \in Range(seen) : Reached(b) /\ b.tls) = "pass"
  BY <1>1, <1>4 DEF Pass
<1>9. CoverageStatus(o) \in {"pass", "warning"}
  BY DEF CoverageStatus
<1>10. KeyStatus(a) = "pass" /\ Pass(a.tls) = "pass"
  BY <1>1, <1>3 DEF KeyStatus, Pass
<1>11. Pass(Len(ms) = Samples) = "pass"
  BY <1>5 DEF Pass, Samples
<1>12. \A value, limit : Metric(ms, value, limit) \in {"pass", "warning"}
  BY <1>5 DEF Metric, Samples
<1> HIDE DEF seen, a, ms
<1>13. ASSUME NEW s \in {"fail", "unavailable"}  PROVE ~HasStatus(Checks(TRUE, o), s)
  BY <1>6, <1>7, <1>8, <1>9, <1>10, <1>11, <1>12, FullStatuses DEF seen, a, ms
<1> QED
  BY <1>1, <1>5, <1>13 DEF ms

\* Without a failed check, or one that could not be made, it serves.
LEMMA PassingServes ==
  ASSUME NEW o \in Observations, o.dns, ~(\A a \in Range(Inspected(o)) : ~a.public),
         ~HasStatus(Checks(TRUE, o), "fail"), ~HasStatus(Checks(TRUE, o), "unavailable")
  PROVE  Serves(o)
<1> DEFINE seen == Inspected(o)
           a == Chosen(seen)
           ms == Latencies(o)
<1>1. /\ KeyStatus(a) \notin {"fail", "unavailable"} /\ Pass(a.tls) # "fail"
      /\ Pass(Len(ms) = Samples) # "fail"
  <2>1. ASSUME NEW s, ~HasStatus(Checks(TRUE, o), s)
        PROVE  KeyStatus(a) # s /\ Pass(a.tls) # s /\ Pass(Len(ms) = Samples) # s
    BY <2>1, FullStatuses
  <2> QED
    BY <2>1
<1>2. a.key = "x25519" /\ a.tls /\ Len(ms) = Samples
  BY <1>1 DEF KeyStatus, Pass
<1>3. seen \in Seq(AddressRecord) /\ \A j \in DOMAIN seen : seen[j] = o.found[j]
  BY InspectedType
<1>4. (\E b \in Range(seen) : AddressPasses(b)) /\ ms = o.ms
  BY <1>2 DEF Latencies, Samples
<1>5. \E i \in DOMAIN seen : AddressPasses(seen[i])
  BY <1>4 DEF Range
<1>6. PICK i \in DOMAIN seen : /\ a = seen[i] /\ AddressPasses(seen[i])
                               /\ \A j \in DOMAIN seen : AddressPasses(seen[j]) => i <= j
  BY <1>3, <1>5, ChosenAddress
<1>7. \A j \in 1..(i - 1) : j \in DOMAIN seen /\ ~(i <= j)
  BY <1>3
<1>8. \A j \in 1..(i - 1) : ~AddressPasses(o.found[j])
  BY <1>3, <1>6, <1>7
<1> QED
  BY <1>2, <1>3, <1>4, <1>6, <1>8 DEF Serves, AddressPasses, Reached

\* A destination that serves has no warning when all of it serves in time.
LEMMA WarningsOf ==
  ASSUME NEW o \in Observations, o.dns, ~(\A a \in Range(Inspected(o)) : ~a.public), Serves(o)
  PROVE  HasStatus(Checks(TRUE, o), "warning") <=> ~ServesWell(o)
<1> DEFINE seen == Inspected(o)
           a == Chosen(seen)
           ms == Latencies(o)
           InTime == \A i, j \in 1..Samples : i # j => o.ms[i] <= LatencyWarning \/ o.ms[j] <= LatencyWarning
           Even == \A i, j \in 1..Samples : o.ms[i] - o.ms[j] <= JitterWarning
           All == Len(o.found) <= AddressLimit /\ \A i \in DOMAIN o.found : AddressPasses(o.found[i])
<1>1. ms = o.ms /\ Len(ms) = 3 /\ ms # <<>> /\ ms \in Seq(Nat)
  <2>1. ms = o.ms /\ Len(o.ms) = 3
    BY ServingPasses DEF Samples
  <2>2. o.ms \in Seq(Nat)
    BY ObservationType
  <2>3. o.ms # <<>>
    BY <2>1, ThreeTimes, <2>2
  <2> HIDE DEF ms
  <2> QED
    BY <2>1, <2>2, <2>3, Zenon
<1>2. Metric(ms, IF ms = <<>> THEN 0 ELSE Median(ms), LatencyWarning) = "warning" <=> ~InTime
  <2>1. Median(ms) > LatencyWarning <=> ~InTime
    BY <1>1, MedianOfThree, ProbeAssumption DEF Samples
  <2> QED
    BY <1>1, <2>1 DEF Metric, Samples
<1>3. Metric(ms, IF ms = <<>> THEN 0 ELSE Spread(ms), JitterWarning) = "warning" <=> ~Even
  <2>1. Spread(ms) > JitterWarning <=> ~Even
    BY <1>1, SpreadOfThree, ProbeAssumption DEF Samples
  <2> QED
    BY <1>1, <2>1 DEF Metric, Samples
<1>4. CoverageStatus(o) = "warning" <=> ~All
  <2>1. Len(o.found) \in Nat /\ AddressLimit \in Nat
    BY ObservationType, ProbeAssumption
  <2>2. CASE Len(o.found) > AddressLimit
    BY <2>1, <2>2 DEF CoverageStatus
  <2>3. CASE ~(Len(o.found) > AddressLimit)
    <3>1. seen = o.found /\ Len(o.found) <= AddressLimit
      BY <2>1, <2>3, InspectedType
    <3>2. (\E b \in Range(seen) : ~AddressPasses(b)) <=> ~\A i \in DOMAIN o.found : AddressPasses(o.found[i])
      BY <3>1 DEF Range
    <3> QED
      BY <2>3, <3>1, <3>2 DEF CoverageStatus
  <2> QED
    BY <2>2, <2>3
<1>5. /\ \A b : Pass(b) # "warning"
      /\ XrayStatus(seen) # "warning" /\ KeyStatus(a) # "warning"
  BY DEF Pass, XrayStatus, KeyStatus
<1>6. HasStatus(Checks(TRUE, o), "warning") <=>
        \/ CoverageStatus(o) = "warning"
        \/ Metric(ms, IF ms = <<>> THEN 0 ELSE Median(ms), LatencyWarning) = "warning"
        \/ Metric(ms, IF ms = <<>> THEN 0 ELSE Spread(ms), JitterWarning) = "warning"
  BY <1>5, FullStatuses
<1>7. o.found # <<>>
  BY InspectedType DEF Serves
<1>8. ServesWell(o) <=> All /\ InTime /\ Even
  BY <1>7, Zenon DEF ServesWell
<1> HIDE DEF seen, a, ms, InTime, Even, All
<1> QED
  BY <1>2, <1>3, <1>4, <1>6, <1>8

\* When only the command of the node failed, what failed is what depends on it.
LEMMA NodeFaultFails ==
  ASSUME NEW o \in Observations, o.dns, ~(\A a \in Range(Inspected(o)) : ~a.public), NodeFault(o)
  PROVE  /\ HasStatus(Checks(TRUE, o), "unavailable")
         /\ \A c \in Checks(TRUE, o) : c.status = "fail" => c.id \in Dependent
<1> DEFINE seen == Inspected(o)
           a == Chosen(seen)
<1>1. \A i \in DOMAIN seen : /\ Reached(seen[i]) /\ seen[i].tls /\ seen[i].xray = "error"
                             /\ seen[i].key # "rsa"
  BY InspectedType DEF NodeFault, Reached
<1>2. seen \in Seq(AddressRecord)
  BY InspectedType
<1>3. PICK k \in DOMAIN seen : TRUE
  BY DEF Range
<1>4. PICK i \in DOMAIN seen : a = seen[i]
  BY <1>1, <1>2, <1>3, ChosenAddress
<1>5. seen[k] \in Range(seen) /\ \A b \in Range(seen) : \E j \in DOMAIN seen : b = seen[j]
  BY DEF Range
<1>6. Pass(\E b \in Range(seen) : Reached(b)) = "pass"
  BY <1>1, <1>5 DEF Pass
<1>7. XrayStatus(seen) = "unavailable"
  BY <1>1, <1>5 DEF XrayStatus
<1>8. Pass(\E b \in Range(seen) : Reached(b) /\ b.tls) = "pass"
  BY <1>1, <1>5 DEF Pass
<1>9. CoverageStatus(o) # "fail"
  BY DEF CoverageStatus
<1>10. KeyStatus(a) # "fail" /\ Pass(a.tls) = "pass"
  BY <1>1, <1>4 DEF KeyStatus, Pass
<1> HIDE DEF seen, a
<1>11. HasStatus(Checks(TRUE, o), "unavailable")
  BY <1>7, FullStatuses DEF seen
<1>12. ASSUME NEW c \in Checks(TRUE, o), c.status = "fail"  PROVE c.id \in Dependent
  <2> DEFINE ms == Latencies(o)
  <2>1. \/ c = Check("tcp-reachability", Pass(\E b \in Range(seen) : Reached(b)))
        \/ c = Check("xray-handshake", XrayStatus(seen))
        \/ c = Check("tls-version", Pass(\E b \in Range(seen) : Reached(b) /\ b.tls))
        \/ c = Check("address-coverage", CoverageStatus(o))
        \/ c = Check("key-exchange", KeyStatus(a)) \/ c = Check("certificate", Pass(a.tls))
        \/ \E s : c = Check("tls-samples", s) \/ c = Check("latency", s) \/ c = Check("jitter", s)
    <3> DEFINE s1 == Pass(\E b \in Range(seen) : Reached(b))
               s2 == XrayStatus(seen)
               s3 == Pass(\E b \in Range(seen) : Reached(b) /\ b.tls)
               s4 == CoverageStatus(o)
               s5 == KeyStatus(a)
               s6 == Pass(a.tls)
               s7 == Pass(Len(ms) = Samples)
               s8 == Metric(ms, IF ms = <<>> THEN 0 ELSE Median(ms), LatencyWarning)
               s9 == Metric(ms, IF ms = <<>> THEN 0 ELSE Spread(ms), JitterWarning)
    <3>1. Checks(TRUE, o) =
            {Check("tcp-reachability", s1), Check("xray-handshake", s2), Check("tls-version", s3),
             Check("address-coverage", s4), Check("key-exchange", s5), Check("certificate", s6),
             Check("tls-samples", s7), Check("latency", s8), Check("jitter", s9)}
      BY FullChecks DEF seen, a
    <3> HIDE DEF s1, s2, s3, s4, s5, s6, s7, s8, s9
    <3>2. \/ c = Check("tcp-reachability", s1) \/ c = Check("xray-handshake", s2)
          \/ c = Check("tls-version", s3) \/ c = Check("address-coverage", s4)
          \/ c = Check("key-exchange", s5) \/ c = Check("certificate", s6)
          \/ c = Check("tls-samples", s7) \/ c = Check("latency", s8) \/ c = Check("jitter", s9)
      BY <1>12, <3>1
    <3> QED
      BY <3>2, Zenon DEF s1, s2, s3, s4, s5, s6
  <2>2. \A id, s : c = Check(id, s) => c.id = id /\ c.status = s
    BY DEF Check
  <2> QED
    BY <1>6, <1>7, <1>8, <1>9, <1>10, <1>12, <2>1, <2>2 DEF Dependent
<1> QED
  BY <1>11, <1>12

\* The verdict of any observation is the one it earned.
LEMMA SniVerdict ==
  ASSUME NEW o \in Observations, NEW matches \in BOOLEAN, NEW v, v = Finish(Checks(matches, o))
  PROVE  /\ v \in Verdicts
         /\ (v = "usable") <=> matches /\ ServesWell(o)
         /\ (v \in {"usable", "warning"}) <=> matches /\ Serves(o)
         /\ matches /\ NodeFault(o) => v = "unverified"
<1> DEFINE seen == Inspected(o)
           c == Checks(matches, o)
<1>0. /\ ServesWell(o) => Serves(o)
      /\ v \in Verdicts
      /\ (v = "usable") <=> ~HasStatus(c, "fail") /\ ~HasStatus(c, "unavailable") /\ ~HasStatus(c, "warning")
      /\ (v \in {"usable", "warning"}) <=> ~HasStatus(c, "fail") /\ ~HasStatus(c, "unavailable")
      /\ HasStatus(c, "unavailable") /\ (\A x \in c : x.status = "fail" => x.id \in Dependent) =>
           v = "unverified"
  BY FinishCases DEF ServesWell
<1>1. ASSUME HasStatus(c, "fail"), ~(matches /\ Serves(o)), ~(matches /\ NodeFault(o))
      PROVE  /\ v \in Verdicts
             /\ (v = "usable") <=> matches /\ ServesWell(o)
             /\ (v \in {"usable", "warning"}) <=> matches /\ Serves(o)
             /\ matches /\ NodeFault(o) => v = "unverified"
  <2> HIDE DEF c
  <2> QED
    BY <1>0, <1>1
<1>2. CASE ~matches
  <2>1. HasStatus(c, "fail")
    BY <1>2 DEF Checks, HasStatus, Check
  <2> QED
    BY <1>1, <1>2, <2>1
<1>3. CASE matches /\ ~o.dns
  <2>1. HasStatus(c, "fail")
    BY <1>3 DEF Checks, HasStatus, Check
  <2>2. ~Serves(o) /\ ~NodeFault(o)
    BY <1>3, ObservationType, InspectedType DEF Serves, NodeFault
  <2> QED
    BY <1>1, <2>1, <2>2
<1>4. CASE matches /\ o.dns /\ \A a \in Range(seen) : ~a.public
  <2>1. HasStatus(c, "fail")
    <3>1. c = {Check("dns-resolution", Pass(o.found # <<>>)), Check("public-address", "fail")}
      BY <1>4 DEF Checks
    <3> QED
      BY <3>1 DEF HasStatus, Check
  <2>2. \A i \in DOMAIN seen : ~seen[i].public
    BY <1>4 DEF Range
  <2>3. ~Serves(o)
    BY <2>2, InspectedType DEF Serves
  <2>4. ~NodeFault(o)
    <3>1. CASE o.found = <<>>
      BY <3>1 DEF NodeFault
    <3>2. CASE o.found # <<>>
      <4>1. seen # <<>> /\ seen \in Seq(AddressRecord)
        BY <3>2, InspectedType
      <4>2. 1 \in DOMAIN seen
        BY <4>1
      <4>3. 1 \in DOMAIN o.found /\ ~o.found[1].public
        BY <2>2, <4>2, InspectedType
      <4> QED
        BY <4>3 DEF NodeFault
    <3> QED
      BY <3>1, <3>2
  <2> QED
    BY <1>1, <2>1, <2>3, <2>4
<1>5. CASE matches /\ o.dns /\ ~\A a \in Range(seen) : ~a.public
  <2>1. c = Checks(TRUE, o) /\ matches = TRUE
    BY <1>5
  <2>2. Serves(o) => ~HasStatus(c, "fail") /\ ~HasStatus(c, "unavailable")
    BY <1>5, <2>1, ServingPasses
  <2>3. ~HasStatus(c, "fail") /\ ~HasStatus(c, "unavailable") => Serves(o)
    BY <1>5, <2>1, PassingServes
  <2>4. Serves(o) => (HasStatus(c, "warning") <=> ~ServesWell(o))
    BY <1>5, <2>1, WarningsOf
  <2>5. NodeFault(o) => HasStatus(c, "unavailable") /\ \A x \in c : x.status = "fail" => x.id \in Dependent
    BY <1>5, <2>1, NodeFaultFails
  <2> HIDE DEF c, seen
  <2> QED
    BY <1>0, <2>1, <2>2, <2>3, <2>4, <2>5
<1> QED
  BY <1>2, <1>3, <1>4, <1>5


-----------------------------------------------------------------------------
(* The hops of a payload. *)

\* An attempt, with the hop count any number.
AttemptRecord == [ttl : Int, ip : {Nobody, Checkpoint, Router}, success : BOOLEAN]

\* The attempts of a group, none, one or two, have one hop count.
LEMMA GroupType ==
  ASSUME NEW g \in Groups
  PROVE  /\ g \in Seq(AttemptRecord) /\ Len(g) \in {0, 1, 2}
         /\ \A k \in DOMAIN g : g[k].ttl = g[1].ttl
<1>1. Attempts \subseteq AttemptRecord
  <2> DEFINE TTLs == {-1} \cup 1..MaxTTL
  <2>1. TTLs \subseteq Int
    BY TraceAssumption
  <2>2. Attempts = [ttl : TTLs, ip : {Nobody, Checkpoint, Router}, success : BOOLEAN]
    BY DEF Attempts
  <2> HIDE DEF TTLs
  <2> QED
    BY <2>1, <2>2 DEF AttemptRecord
<1>2. CASE g = <<>>
  BY <1>2
<1>3. CASE g \in {<<a>> : a \in Attempts}
  <2>1. PICK a \in Attempts : g = <<a>>
    BY <1>3
  <2> QED
    BY <1>1, <2>1
<1>4. CASE g \in {pair \in Attempts \X Attempts : pair[1].ttl = pair[2].ttl}
  <2>1. PICK a \in Attempts, b \in Attempts : g = <<a, b>> /\ a.ttl = b.ttl
    BY <1>4
  <2> QED
    BY <1>1, <2>1
<1> QED
  BY <1>2, <1>3, <1>4 DEF Groups

\* A payload is a sequence of them.
LEMMA PayloadType == Payloads \subseteq Seq(Groups)
BY TraceAssumption DEF Payloads

\* An attempt of the group was answered.
GroupAnswered(g) == \E k \in DOMAIN g : Answered(g[k])

\* Whether one was is said by the attempt chosen, which has the hop count of all.
LEMMA ChosenType ==
  ASSUME NEW g \in Groups, g # <<>>
  PROVE  /\ ChosenAttempt(g) \in AttemptRecord
         /\ ChosenAttempt(g).ttl = g[1].ttl
         /\ Answered(ChosenAttempt(g)) <=> GroupAnswered(g)
         /\ GroupAnswered(g) => ChosenAttempt(g).ip = g[FirstAnswer(g)].ip
<1> DEFINE A == {k \in DOMAIN g : Answered(g[k])}
<1>1. g \in Seq(AttemptRecord) /\ \A k \in DOMAIN g : g[k].ttl = g[1].ttl
  BY GroupType
<1>2. 1 \in DOMAIN g
  BY <1>1
<1>3. CASE GroupAnswered(g)
  <2>1. A \in SUBSET Nat /\ A # {}
    BY <1>1, <1>3 DEF GroupAnswered
  <2>2. Min(A) \in A
    <3> HIDE DEF A
    <3> QED
      BY <2>1, MinIsLeast
  <2>3. FirstAnswer(g) = Min(A)
    BY DEF FirstAnswer
  <2>4. FirstAnswer(g) \in DOMAIN g /\ Answered(g[FirstAnswer(g)])
    BY <2>2, <2>3
  <2>5. ChosenAttempt(g) = g[FirstAnswer(g)]
    BY <1>3, Zenon DEF ChosenAttempt, GroupAnswered
  <2> HIDE DEF A
  <2> QED
    BY <1>1, <1>3, <2>4, <2>5
<1>4. CASE ~GroupAnswered(g)
  <2>1. ChosenAttempt(g) = g[1]
    BY <1>4, Zenon DEF ChosenAttempt, GroupAnswered
  <2> QED
    BY <1>1, <1>2, <1>4, <2>1 DEF GroupAnswered
<1> QED
  BY <1>3, <1>4

\* The hop that stands for a group has its place, and its answer.
LEMMA HopFacts ==
  ASSUME NEW p \in Seq(Groups), NEW i \in DOMAIN p, p[i] # <<>>
  PROVE  LET h == Hop(p[i], i) IN
         /\ h \in AttemptRecord /\ h.ttl = Place(p, i) /\ h.ttl \in Nat
         /\ Answered(h) <=> GroupAnswered(p[i])
         /\ GroupAnswered(p[i]) => h.ip = p[i][FirstAnswer(p[i])].ip
<1> DEFINE a == ChosenAttempt(p[i])
<1>1. i \in Nat /\ p[i] \in Groups
  OBVIOUS
<1>2. /\ a \in AttemptRecord /\ a.ttl = p[i][1].ttl
      /\ Answered(a) <=> GroupAnswered(p[i])
      /\ GroupAnswered(p[i]) => a.ip = p[i][FirstAnswer(p[i])].ip
  BY <1>1, ChosenType
<1>3. Hop(p[i], i) = IF a.ttl >= 0 THEN a ELSE [a EXCEPT !.ttl = i]
  BY DEF Hop
<1>4. Place(p, i) = IF a.ttl >= 0 THEN a.ttl ELSE i
  BY <1>2 DEF Place
<1> HIDE DEF a
<1>5. a.ttl \in Int
  BY <1>2 DEF AttemptRecord
<1>6. CASE a.ttl >= 0
  BY <1>2, <1>3, <1>4, <1>5, <1>6
<1>7. CASE ~(a.ttl >= 0)
  <2>1. /\ [a EXCEPT !.ttl = i] \in AttemptRecord /\ [a EXCEPT !.ttl = i].ttl = i
        /\ [a EXCEPT !.ttl = i].ip = a.ip /\ [a EXCEPT !.ttl = i].success = a.success
    BY <1>1, <1>2 DEF AttemptRecord
  <2>2. Answered([a EXCEPT !.ttl = i]) <=> Answered(a)
    BY <2>1 DEF Answered
  <2> QED
    BY <1>1, <1>2, <1>3, <1>4, <1>7, <2>1, <2>2
<1> QED
  BY <1>6, <1>7

\* An element put into a sequence.
LEMMA InsertAtFacts ==
  ASSUME NEW T, NEW s \in Seq(T), NEW e \in T, NEW i \in 1..(Len(s) + 1)
  PROVE  LET t == InsertAt(s, i, e) IN
         /\ t \in Seq(T) /\ Len(t) = Len(s) + 1
         /\ \A k \in 1..Len(t) : t[k] = IF k < i THEN s[k] ELSE IF k = i THEN e ELSE s[k - 1]
<1> DEFINE a == SubSeq(s, 1, i - 1)
           b == SubSeq(s, i, Len(s))
<1>1. Len(s) \in Nat /\ i \in Nat
  OBVIOUS
<1>2. a \in Seq(T) /\ Len(a) = i - 1 /\ \A k \in 1..(i - 1) : a[k] = s[k]
  BY <1>1
<1>3. b \in Seq(T) /\ Len(b) = Len(s) - i + 1 /\ \A k \in 1..(Len(s) - i + 1) : b[k] = s[k + i - 1]
  BY <1>1
<1>4. InsertAt(s, i, e) = (a \o <<e>>) \o b
  BY DEF InsertAt
<1> HIDE DEF a, b
<1>5. /\ a \o <<e>> \in Seq(T) /\ Len(a \o <<e>>) = i
      /\ \A k \in 1..i : (a \o <<e>>)[k] = IF k < i THEN s[k] ELSE e
  BY <1>1, <1>2
<1> DEFINE c == a \o <<e>>
<1> HIDE DEF c
<1>6. c \in Seq(T) /\ Len(c) = i /\ \A k \in 1..i : c[k] = IF k < i THEN s[k] ELSE e
  BY <1>5 DEF c
<1>7. InsertAt(s, i, e) = c \o b
  BY <1>4 DEF c
<1>8. c \o b \in Seq(T) /\ Len(c \o b) = Len(s) + 1
  <2>1. c \in Seq(T) /\ b \in Seq(T) /\ Len(c) = i /\ Len(b) = Len(s) - i + 1
    BY <1>3, <1>6
  <2>2. c \o b \in Seq(T) /\ Len(c \o b) = Len(c) + Len(b)
    BY <2>1
  <2> QED
    BY <1>1, <2>1, <2>2
<1>9. ASSUME NEW k \in 1..(Len(s) + 1)
      PROVE  (c \o b)[k] = IF k < i THEN s[k] ELSE IF k = i THEN e ELSE s[k - 1]
  <2>1. CASE k <= i
    BY <1>1, <1>3, <1>6, <2>1
  <2>2. CASE k > i
    <3>1. (c \o b)[k] = b[k - i]
      BY <1>1, <1>3, <1>6, <2>2
    <3>2. k - i \in 1..(Len(s) - i + 1) /\ (k - i) + i - 1 = k - 1
      BY <1>1, <2>2
    <3>3. b[k - i] = s[k - 1]
      BY <1>3, <3>2
    <3> QED
      BY <1>1, <2>2, <3>1, <3>3
  <2>3. k <= i \/ k > i
    BY <1>1
  <2> QED
    BY <2>1, <2>2, <2>3
<1> QED
  BY <1>7, <1>8, <1>9

-----------------------------------------------------------------------------
(* The insertion sort of the hops. *)

\* A group comes before another when its hop count is less, or is the same and
\* it stands first in the payload.
Before(p, i, j) == Place(p, i) < Place(p, j) \/ (Place(p, i) = Place(p, j) /\ i < j)

\* The invariant of the sort: the hops of the first n groups that are not empty,
\* each once, in that order.  o: where each comes from.
Ordered(p, n, hops, o) ==
  /\ hops \in Seq(AttemptRecord) /\ o \in Seq(1..n) /\ Len(o) = Len(hops)
  /\ \A k \in 1..Len(o) : p[o[k]] # <<>> /\ hops[k] = Hop(p[o[k]], o[k])
  /\ \A i \in 1..n : p[i] # <<>> => \E k \in 1..Len(o) : o[k] = i
  /\ \A k, l \in 1..Len(o) : k < l => Before(p, o[k], o[l])

\* A step of the sort keeps it: the hop goes behind those that are not after it.
LEMMA SortStep ==
  ASSUME NEW p \in Seq(Groups), NEW n \in Nat, n + 1 \in DOMAIN p, p[n + 1] # <<>>,
         NEW hops, NEW o, Ordered(p, n, hops, o)
  PROVE  \E o2 : Ordered(p, n + 1, Insert(hops, Hop(p[n + 1], n + 1)), o2)
<1> DEFINE h == Hop(p[n + 1], n + 1)
           B == {i \in DOMAIN hops : hops[i].ttl <= h.ttl}
           m == Max({0} \cup B)
           hops2 == InsertAt(hops, m + 1, h)
           o2 == InsertAt(o, m + 1, n + 1)
<1>0. /\ hops \in Seq(AttemptRecord) /\ o \in Seq(1..n) /\ Len(o) = Len(hops)
      /\ Len(o) \in Nat /\ DOMAIN hops = 1..Len(o)
      /\ \A k \in 1..Len(o) : p[o[k]] # <<>> /\ hops[k] = Hop(p[o[k]], o[k])
      /\ \A i \in 1..n : p[i] # <<>> => \E k \in 1..Len(o) : o[k] = i
      /\ \A k, l \in 1..Len(o) : k < l => Before(p, o[k], o[l])
  BY DEF Ordered
<1>1. Insert(hops, h) = hops2
  BY DEF Insert
<1>2. h \in AttemptRecord /\ h.ttl \in Nat /\ h.ttl = Place(p, n + 1)
  BY HopFacts
<1>3. ASSUME NEW k \in 1..Len(o)
      PROVE  o[k] \in 1..n /\ o[k] \in DOMAIN p /\ hops[k].ttl = Place(p, o[k]) /\ hops[k].ttl \in Nat
  <2>1. o[k] \in 1..n
    BY <1>0
  <2>2. o[k] \in DOMAIN p
    BY <2>1
  <2> QED
    BY <1>0, <2>1, <2>2, HopFacts
<1>4. m \in {0} \cup B /\ \A k \in B : k <= m
  <2>1. {0} \cup B \in SUBSET (0..Len(o)) /\ {0} \cup B # {}
    BY <1>0
  <2> HIDE DEF B
  <2> QED
    BY <1>0, <2>1, MaxIsGreatest
<1>5. m \in 0..Len(o) /\ m + 1 \in 1..(Len(hops) + 1)
  BY <1>0, <1>4
<1>6. \A k \in 1..Len(o) : k > m => h.ttl < hops[k].ttl
  <2> SUFFICES ASSUME NEW k \in 1..Len(o), k > m  PROVE h.ttl < hops[k].ttl
    OBVIOUS
  <2>1. k \notin B
    <3> HIDE DEF B, m
    <3> QED
      BY <1>4, <1>5
  <2>2. ~(hops[k].ttl <= h.ttl)
    BY <1>0, <2>1
  <2> HIDE DEF B, m, h
  <2> QED
    BY <1>2, <1>3, <2>2
<1>7. \A k \in 1..Len(o) : k <= m => hops[k].ttl <= h.ttl
  <2> SUFFICES ASSUME NEW k \in 1..Len(o), k <= m  PROVE hops[k].ttl <= h.ttl
    OBVIOUS
  <2>1. m \in 1..Len(o) /\ hops[m].ttl <= h.ttl
    <3>1. m # 0
      <4> HIDE DEF m
      <4> QED
        BY <1>5
    <3>2. m \in B
      <4> HIDE DEF m, B
      <4> QED
        BY <3>1, <1>4
    <3> QED
      BY <3>2, <1>0
  <2> HIDE DEF B, m, h
  <2>2. CASE k = m
    BY <2>1, <2>2
  <2>3. CASE k < m
    <3>0. Before(p, o[k], o[m])
      BY <1>0, <2>1, <2>3
    <3>1. Place(p, o[k]) <= Place(p, o[m])
      <4>1. Place(p, o[k]) \in Nat /\ Place(p, o[m]) \in Nat
        BY <1>3, <2>1
      <4> QED
        BY <3>0, <4>1 DEF Before
    <3>2. hops[k].ttl <= hops[m].ttl
      BY <1>3, <2>1, <3>1
    <3> QED
      BY <1>2, <1>3, <2>1, <3>2
  <2> QED
    BY <1>5, <2>2, <2>3
<1> HIDE DEF h, B, m
<1>8. /\ hops2 \in Seq(AttemptRecord) /\ Len(hops2) = Len(hops) + 1
      /\ \A k \in 1..Len(hops2) : hops2[k] = IF k < m + 1 THEN hops[k] ELSE IF k = m + 1 THEN h ELSE hops[k - 1]
  <2>1. hops \in Seq(AttemptRecord) /\ h \in AttemptRecord /\ m + 1 \in 1..(Len(hops) + 1)
    BY <1>0, <1>2, <1>5
  <2> HIDE DEF hops2
  <2>2. hops2 = InsertAt(hops, m + 1, h)
    BY DEF hops2
  <2> QED
    BY <2>1, <2>2, InsertAtFacts
<1>9. /\ o2 \in Seq(1..(n + 1)) /\ Len(o2) = Len(o) + 1
      /\ \A k \in 1..Len(o2) : o2[k] = IF k < m + 1 THEN o[k] ELSE IF k = m + 1 THEN n + 1 ELSE o[k - 1]
  <2> DEFINE T == 1..(n + 1)
  <2>1. n + 1 \in T /\ 1..n \subseteq T
    OBVIOUS
  <2> HIDE DEF T
  <2>2. o \in Seq(T)
    BY <1>0, <2>1
  <2>3. m + 1 \in 1..(Len(o) + 1)
    BY <1>0, <1>5
  <2>4. PICK e \in T, i \in 1..(Len(o) + 1) : e = n + 1 /\ i = m + 1
    BY <2>1, <2>3
  <2>5. LET t == InsertAt(o, i, e) IN
        /\ t \in Seq(T) /\ Len(t) = Len(o) + 1
        /\ \A k \in 1..Len(t) : t[k] = IF k < i THEN o[k] ELSE IF k = i THEN e ELSE o[k - 1]
    BY <2>2, InsertAtFacts
  <2> QED
    BY <2>4, <2>5, Zenon DEF T
<1> HIDE DEF hops2, o2
<1>10. ASSUME NEW k \in 1..Len(o2)
       PROVE  \/ k <= m /\ k \in 1..Len(o) /\ o2[k] = o[k] /\ hops2[k] = hops[k]
              \/ k = m + 1 /\ o2[k] = n + 1 /\ hops2[k] = h
              \/ k > m + 1 /\ k - 1 \in 1..Len(o) /\ k - 1 > m /\ o2[k] = o[k - 1] /\ hops2[k] = hops[k - 1]
  <2>1. m \in Nat /\ m <= Len(o) /\ Len(o) \in Nat /\ Len(o2) = Len(o) + 1 /\ Len(hops2) = Len(o) + 1
    BY <1>0, <1>5, <1>8, <1>9
  <2>2. /\ o2[k] = IF k < m + 1 THEN o[k] ELSE IF k = m + 1 THEN n + 1 ELSE o[k - 1]
        /\ hops2[k] = IF k < m + 1 THEN hops[k] ELSE IF k = m + 1 THEN h ELSE hops[k - 1]
    BY <1>8, <1>9, <2>1
  <2>3. CASE k < m + 1
    <3>1. k <= m /\ k \in 1..Len(o)
      BY <2>1, <2>3
    <3> QED
      BY <2>2, <2>3, <3>1
  <2>4. CASE k = m + 1
    BY <2>1, <2>2, <2>4
  <2>5. CASE k > m + 1
    <3>1. ~(k < m + 1) /\ k # m + 1 /\ k - 1 \in 1..Len(o) /\ k - 1 > m
      BY <2>1, <2>5
    <3> QED
      BY <2>2, <2>5, <3>1
  <2>6. k < m + 1 \/ k = m + 1 \/ k > m + 1
    BY <2>1
  <2> QED
    BY <2>3, <2>4, <2>5, <2>6
<1>11. ASSUME NEW k \in 1..Len(o2)  PROVE p[o2[k]] # <<>> /\ hops2[k] = Hop(p[o2[k]], o2[k])
  <2>1. CASE k \in 1..Len(o) /\ o2[k] = o[k] /\ hops2[k] = hops[k]
    BY <1>0, <2>1
  <2>2. CASE o2[k] = n + 1 /\ hops2[k] = h
    BY <2>2 DEF h
  <2>3. CASE k - 1 \in 1..Len(o) /\ o2[k] = o[k - 1] /\ hops2[k] = hops[k - 1]
    BY <1>0, <2>3
  <2> QED
    BY <1>10, <2>1, <2>2, <2>3
<1>12. ASSUME NEW i \in 1..(n + 1), p[i] # <<>>  PROVE \E k \in 1..Len(o2) : o2[k] = i
  <2>1. m \in Nat /\ m <= Len(o) /\ Len(o) \in Nat /\ Len(o2) = Len(o) + 1
    BY <1>0, <1>5, <1>9
  <2>2. CASE i = n + 1
    <3>1. m + 1 \in 1..Len(o2) /\ o2[m + 1] = n + 1
      BY <1>9, <2>1
    <3> QED
      BY <2>2, <3>1
  <2>3. CASE i # n + 1
    <3>1. i \in 1..n
      BY <2>3
    <3>2. PICK k \in 1..Len(o) : o[k] = i
      BY <1>0, <1>12, <3>1
    <3>3. CASE k <= m
      <4>1. k \in 1..Len(o2) /\ k < m + 1
        BY <2>1, <3>3
      <4> QED
        BY <1>9, <3>2, <4>1
    <3>4. CASE k > m
      <4>1. k + 1 \in 1..Len(o2) /\ ~(k + 1 < m + 1) /\ k + 1 # m + 1 /\ (k + 1) - 1 = k
        BY <2>1, <3>4
      <4>2. o2[k + 1] = o[k]
        BY <1>9, <4>1
      <4> QED
        BY <3>2, <4>1, <4>2
    <3> QED
      BY <2>1, <3>3, <3>4
  <2> QED
    BY <2>2, <2>3
<1>13. \A k \in 1..Len(o) : k <= m => Before(p, o[k], n + 1)
  <2> SUFFICES ASSUME NEW k \in 1..Len(o), k <= m  PROVE Before(p, o[k], n + 1)
    OBVIOUS
  <2>1. Place(p, o[k]) \in Nat /\ Place(p, n + 1) \in Nat /\ Place(p, o[k]) <= Place(p, n + 1)
    BY <1>2, <1>3, <1>7
  <2>2. o[k] \in Nat /\ o[k] < n + 1
    BY <1>3
  <2> QED
    BY <2>1, <2>2 DEF Before
<1>14. \A k \in 1..Len(o) : k > m => Before(p, n + 1, o[k])
  BY <1>2, <1>3, <1>6 DEF Before
<1>15. ASSUME NEW k \in 1..Len(o2), NEW l \in 1..Len(o2), k < l  PROVE Before(p, o2[k], o2[l])
  <2>0. k \in Nat /\ l \in Nat /\ m \in Nat
    BY <1>5
  <2>1. CASE k <= m
    <3>1. k \in 1..Len(o) /\ o2[k] = o[k]
      BY <1>10, <2>0, <2>1
    <3>2. CASE l <= m
      <4>1. l \in 1..Len(o) /\ o2[l] = o[l]
        BY <1>10, <2>0, <3>2
      <4> QED
        BY <1>0, <1>15, <3>1, <4>1
    <3>3. CASE l = m + 1
      <4>1. o2[l] = n + 1
        BY <1>10, <2>0, <3>3
      <4> QED
        BY <1>13, <2>1, <3>1, <4>1
    <3>4. CASE l > m + 1
      <4>1. l - 1 \in 1..Len(o) /\ o2[l] = o[l - 1]
        BY <1>10, <2>0, <3>4
      <4>2. k < l - 1
        BY <2>0, <2>1, <3>4
      <4> QED
        BY <1>0, <3>1, <4>1, <4>2
    <3> QED
      BY <2>0, <3>2, <3>3, <3>4
  <2>2. CASE k = m + 1
    <3>1. o2[k] = n + 1
      BY <1>10, <2>0, <2>2
    <3>2. l > m + 1
      BY <1>15, <2>0, <2>2
    <3>3. l - 1 \in 1..Len(o) /\ l - 1 > m /\ o2[l] = o[l - 1]
      BY <1>10, <2>0, <3>2
    <3> QED
      BY <1>14, <3>1, <3>3
  <2>3. CASE k > m + 1
    <3>1. k - 1 \in 1..Len(o) /\ o2[k] = o[k - 1]
      BY <1>10, <2>0, <2>3
    <3>2. l > m + 1 /\ k - 1 < l - 1
      BY <1>15, <2>0, <2>3
    <3>3. l - 1 \in 1..Len(o) /\ o2[l] = o[l - 1]
      BY <1>10, <2>0, <3>2
    <3> QED
      BY <1>0, <3>1, <3>2, <3>3
  <2> QED
    BY <2>0, <2>1, <2>2, <2>3
<1>16. Ordered(p, n + 1, hops2, o2)
  BY <1>0, <1>8, <1>9, <1>11, <1>12, <1>15 DEF Ordered
<1> QED
  BY <1>1, <1>16 DEF h

\* The hops of a payload are ordered: the recursion of Hops has a solution, and
\* the invariant holds of each of its steps.
LEMMA HopsAreOrdered ==
  ASSUME NEW p \in Seq(Groups)
  PROVE  \E o : Ordered(p, Len(p), Hops(p), o)
<1> DEFINE Value(f, n) == IF n = 0 THEN <<>>
                          ELSE IF p[n] = <<>> THEN f[n - 1]
                          ELSE Insert(f[n - 1], Hop(p[n], n))
           Solves(f, m) == f = [n \in 0..m |-> Value(f, n)]
           Unsolved == {m \in Nat : \A f : ~Solves(f, m)}
<1>1. Unsolved = {}
  <2> SUFFICES ASSUME Unsolved # {}  PROVE FALSE
    OBVIOUS
  <2>1. PICK m \in Unsolved : \A k \in Unsolved : m <= k
    <3> HIDE DEF Solves
    <3>1. Unsolved \in SUBSET Nat
      OBVIOUS
    <3> HIDE DEF Unsolved
    <3> QED
      BY <3>1, LeastExists
  <2>2. m \in Nat /\ \A f : ~Solves(f, m)
    <3> HIDE DEF Solves
    <3> QED
      BY <2>1
  <2>3. CASE m = 0
    <3> DEFINE f == [n \in 0..0 |-> <<>>]
    <3>1. f = [n \in 0..0 |-> Value(f, n)]
      OBVIOUS
    <3> QED
      BY <2>2, <2>3, <3>1
  <2>4. CASE m # 0
    <3>1. m - 1 \in Nat /\ m - 1 \notin Unsolved
      <4> HIDE DEF Unsolved
      <4> QED
        BY <2>1, <2>2, <2>4
    <3>2. PICK f : Solves(f, m - 1)
      <4> HIDE DEF Solves
      <4> QED
        BY <3>1
    <3> DEFINE g == [n \in 0..m |-> IF n = m THEN Value(f, m) ELSE f[n]]
    <3>3. ASSUME NEW n \in 0..m  PROVE g[n] = Value(g, n)
      <4>0. n \in Nat /\ m \in Nat /\ n <= m
        BY <2>2
      <4>1. n # 0 => n - 1 \in 0..m /\ n - 1 # m /\ g[n - 1] = f[n - 1]
        BY <4>0
      <4>2. CASE n = m
        BY <4>0, <4>1, <4>2
      <4>3. CASE n # m
        <5>1. n \in 0..(m - 1)
          BY <4>0, <4>3
        <5>2. f[n] = Value(f, n)
          BY <3>2, <5>1
        <5>3. g[n] = f[n]
          BY <4>3
        <5> QED
          BY <4>1, <5>2, <5>3
      <4> QED
        BY <4>2, <4>3
    <3>4. g = [n \in 0..m |-> g[n]]
      OBVIOUS
    <3>5. Solves(g, m)
      <4> HIDE DEF g, Value
      <4> QED
        BY <3>3, <3>4
    <3> QED
      BY <2>2, <3>5
  <2> QED
    BY <2>3, <2>4
<1> DEFINE P(f) == Solves(f, Len(p))
<1>2. \E f : P(f)
  <2>1. Len(p) \in Nat /\ Len(p) \notin Unsolved
    BY <1>1
  <2> HIDE DEF Solves
  <2> QED
    BY <2>1
<1>3. Hops(p) = (CHOOSE f : P(f))[Len(p)]
  BY Zenon DEF Hops
<1>4. P(CHOOSE f : P(f))
  <2> HIDE DEF P
  <2> QED
    BY <1>2, Zenon
<1>5. PICK f : P(f) /\ Hops(p) = f[Len(p)]
  BY <1>3, <1>4, Zenon
<1>6. \A n \in 0..Len(p) : f[n] = Value(f, n)
  BY <1>5
<1> HIDE DEF P, Solves, Unsolved
<1> DEFINE Bad == {n \in 0..Len(p) : \A o : ~Ordered(p, n, f[n], o)}
<1>7. Bad = {}
  <2> SUFFICES ASSUME Bad # {}  PROVE FALSE
    OBVIOUS
  <2>1. PICK n \in Bad : \A k \in Bad : n <= k
    <3>1. Bad \in SUBSET Nat
      OBVIOUS
    <3> HIDE DEF Bad
    <3> QED
      BY <3>1, LeastExists
  <2>2. n \in 0..Len(p) /\ \A o : ~Ordered(p, n, f[n], o)
    BY <2>1
  <2>3. f[n] = Value(f, n)
    BY <1>6, <2>2
  <2>4. CASE n = 0
    <3>1. f[n] = <<>>
      BY <2>3, <2>4
    <3>2. Ordered(p, 0, <<>>, <<>>)
      BY DEF Ordered
    <3> QED
      BY <2>2, <2>4, <3>1, <3>2
  <2>5. CASE n # 0
    <3>1. n - 1 \in Nat /\ n - 1 \in 0..Len(p) /\ n \in DOMAIN p /\ (n - 1) + 1 = n
      BY <2>2, <2>5
    <3>2. n - 1 \notin Bad
      <4> HIDE DEF Bad
      <4> QED
        BY <2>1, <2>2, <3>1
    <3>3. PICK o : Ordered(p, n - 1, f[n - 1], o)
      BY <3>1, <3>2
    <3>4. CASE p[n] = <<>>
      <4>1. f[n] = f[n - 1]
        BY <2>3, <2>5, <3>4
      <4>2. /\ f[n - 1] \in Seq(AttemptRecord) /\ o \in Seq(1..(n - 1)) /\ Len(o) = Len(f[n - 1])
            /\ \A k \in 1..Len(o) : p[o[k]] # <<>> /\ f[n - 1][k] = Hop(p[o[k]], o[k])
            /\ \A i \in 1..(n - 1) : p[i] # <<>> => \E k \in 1..Len(o) : o[k] = i
            /\ \A k, l \in 1..Len(o) : k < l => Before(p, o[k], o[l])
        BY <3>3, Zenon DEF Ordered
      <4>3. 1..(n - 1) \subseteq 1..n
        BY <2>2
      <4>4. o \in Seq(1..n)
        BY <4>2, <4>3
      <4>5. \A i \in 1..n : p[i] # <<>> => i \in 1..(n - 1)
        BY <2>2, <3>4
      <4>6. \A i \in 1..n : p[i] # <<>> => \E k \in 1..Len(o) : o[k] = i
        BY <4>2, <4>5
      <4>7. Ordered(p, n, f[n - 1], o)
        BY <4>2, <4>4, <4>6, Zenon DEF Ordered
      <4> QED
        BY <2>2, <4>1, <4>7
    <3>5. CASE p[n] # <<>>
      <4>1. f[n] = Insert(f[n - 1], Hop(p[n], n))
        BY <2>3, <2>5, <3>5
      <4>2. PICK i \in Nat : i = n - 1 /\ i + 1 = n
        BY <3>1
      <4>3. i + 1 \in DOMAIN p /\ p[i + 1] # <<>> /\ Ordered(p, i, f[n - 1], o)
        BY <3>1, <3>3, <3>5, <4>2
      <4>4. \E o2 : Ordered(p, i + 1, Insert(f[n - 1], Hop(p[i + 1], i + 1)), o2)
        <5> HIDE DEF Bad
        <5> QED
          BY <4>3, SortStep
      <4> QED
        BY <2>2, <4>1, <4>2, <4>4
    <3> QED
      BY <3>4, <3>5
  <2> QED
    BY <2>4, <2>5
<1>8. Len(p) \in 0..Len(p)
  OBVIOUS
<1> QED
  BY <1>5, <1>7, <1>8

\* A group with an answer is not empty.
LEMMA AnsweredGroup ==
  ASSUME NEW g, GroupAnswered(g)
  PROVE  g # <<>>
<1> SUFFICES ASSUME g = <<>>  PROVE FALSE
  OBVIOUS
<1>1. PICK k \in DOMAIN g : TRUE
  BY DEF GroupAnswered
<1>2. DOMAIN g = {}
  OBVIOUS
<1> QED
  BY <1>1, <1>2

\* An answer at the end of the route: the destination's, and before it every other.
Final(p, i) ==
  /\ p[i][FirstAnswer(p[i])].ip = Checkpoint
  /\ \A j \in Answering(p) \ {i} :
       Place(p, j) < Place(p, i) \/ (Place(p, j) = Place(p, i) /\ j < i)

\* The last answer of the sorted hops is the one at the end of the route.
LEMMA RouteEnd ==
  ASSUME NEW p \in Seq(Groups)
  PROVE  /\ (\E k \in DOMAIN Hops(p) : Answered(Hops(p)[k])) <=> Answering(p) # {}
         /\ Answering(p) # {} =>
              (LastAnswer(Hops(p)) = Checkpoint <=> \E i \in Answering(p) : Final(p, i))
<1> DEFINE n == Len(p)
           hops == Hops(p)
           answered == {k \in DOMAIN hops : Answered(hops[k])}
           m == Max(answered)
<1>0. DOMAIN p = 1..n /\ n \in Nat
  OBVIOUS
<1>1. PICK o : Ordered(p, n, hops, o)
  BY <1>0, HopsAreOrdered
<1>2. /\ hops \in Seq(AttemptRecord) /\ o \in Seq(1..n) /\ Len(o) = Len(hops)
      /\ \A k \in 1..Len(o) : p[o[k]] # <<>> /\ hops[k] = Hop(p[o[k]], o[k])
      /\ \A i \in 1..n : p[i] # <<>> => \E k \in 1..Len(o) : o[k] = i
      /\ \A k, l \in 1..Len(o) : k < l => Before(p, o[k], o[l])
  BY <1>1 DEF Ordered
<1> HIDE DEF hops
<1>3. DOMAIN hops = 1..Len(o) /\ Len(o) \in Nat
  <2>1. DOMAIN hops = 1..Len(hops) /\ Len(hops) \in Nat
    BY <1>2
  <2> QED
    BY <1>2, <2>1
<1>4. ASSUME NEW k \in 1..Len(o)
      PROVE  /\ o[k] \in DOMAIN p
             /\ Answered(hops[k]) <=> GroupAnswered(p[o[k]])
             /\ GroupAnswered(p[o[k]]) => hops[k].ip = p[o[k]][FirstAnswer(p[o[k]])].ip
  <2>1. o[k] \in DOMAIN p /\ p[o[k]] # <<>>
    <3>1. o[k] \in 1..n
      <4> DEFINE D == 1..n
      <4>1. o \in Seq(D)
        BY <1>2
      <4> HIDE DEF D
      <4>2. o[k] \in D
        BY <4>1
      <4> QED
        BY <4>2 DEF D
    <3> QED
      BY <1>0, <1>2, <3>1
  <2>2. PICK i \in DOMAIN p : i = o[k]
    BY <2>1
  <2>3. LET h == Hop(p[i], i) IN
        /\ h \in AttemptRecord /\ h.ttl = Place(p, i) /\ h.ttl \in Nat
        /\ Answered(h) <=> GroupAnswered(p[i])
        /\ GroupAnswered(p[i]) => h.ip = p[i][FirstAnswer(p[i])].ip
    BY <1>0, <2>1, <2>2, HopFacts
  <2>4. hops[k] = Hop(p[i], i)
    BY <1>2, <2>2
  <2> QED
    BY <2>1, <2>2, <2>3, <2>4
<1>5. Answering(p) = {i \in DOMAIN p : GroupAnswered(p[i])}
  BY DEF Answering, GroupAnswered
<1>6. ASSUME NEW i \in Answering(p)  PROVE \E k \in answered : o[k] = i
  <2>1. i \in 1..n /\ GroupAnswered(p[i])
    BY <1>0, <1>5
  <2>2. p[i] # <<>>
    BY <2>1, AnsweredGroup
  <2>3. PICK k \in 1..Len(o) : o[k] = i
    BY <1>2, <2>1, <2>2
  <2> QED
    BY <1>3, <1>4, <2>1, <2>3
<1>7. ASSUME NEW k \in answered
      PROVE  /\ k \in 1..Len(o) /\ o[k] \in Answering(p)
             /\ hops[k].ip = p[o[k]][FirstAnswer(p[o[k]])].ip
  BY <1>3, <1>4, <1>5
<1>8. answered # {} <=> Answering(p) # {}
  <2> HIDE DEF answered
  <2> QED
    BY <1>6, <1>7
<1>9. (\E k \in DOMAIN hops : Answered(hops[k])) <=> Answering(p) # {}
  <2>1. (\E k \in DOMAIN hops : Answered(hops[k])) <=> answered # {}
    OBVIOUS
  <2> QED
    BY <1>8, <2>1, Zenon
<1>10. ASSUME Answering(p) # {}
       PROVE  LastAnswer(hops) = Checkpoint <=> \E i \in Answering(p) : Final(p, i)
  <2>1. m \in answered /\ \A k \in answered : k <= m
    <3>1. answered \in SUBSET (0..Len(o)) /\ answered # {}
      <4>1. answered # {}
        BY <1>8, <1>10
      <4>2. 1..Len(o) \subseteq 0..Len(o)
        BY <1>3
      <4> QED
        BY <1>3, <4>1, <4>2
    <3> HIDE DEF answered
    <3> QED
      BY <1>3, <3>1, MaxIsGreatest
  <2>2. LastAnswer(hops) = hops[m].ip
    BY <1>8, <1>10 DEF LastAnswer
  <2> HIDE DEF answered, m
  <2>3. /\ m \in 1..Len(o) /\ o[m] \in Answering(p)
        /\ LastAnswer(hops) = p[o[m]][FirstAnswer(p[o[m]])].ip
    BY <1>7, <2>1, <2>2
  <2>4. ASSUME NEW j \in Answering(p) \ {o[m]}  PROVE Before(p, j, o[m])
    <3>1. PICK k \in answered : o[k] = j
      BY <1>6
    <3>2. k \in 1..Len(o) /\ k <= m /\ k # m
      BY <1>7, <2>1, <3>1
    <3>3. k < m
      <4>1. k \in Int /\ m \in Int
        BY <2>3, <3>2
      <4> QED
        BY <3>2, <4>1
    <3> QED
      BY <1>2, <2>3, <3>1, <3>2, <3>3
  <2>5. LastAnswer(hops) = Checkpoint => Final(p, o[m])
    BY <2>3, <2>4 DEF Before, Final
  <2>6. ASSUME NEW i \in Answering(p), Final(p, i)  PROVE i = o[m]
    <3> SUFFICES ASSUME i # o[m]  PROVE FALSE
      OBVIOUS
    <3>1. Before(p, i, o[m])
      BY <2>4
    <3>2. Before(p, o[m], i)
      BY <2>3, <2>6 DEF Before, Final
    <3>3. \A j \in Answering(p) : j \in Nat /\ Place(p, j) \in Nat
      <4> SUFFICES ASSUME NEW j \in Answering(p)  PROVE j \in Nat /\ Place(p, j) \in Nat
        OBVIOUS
      <4>1. j \in DOMAIN p /\ GroupAnswered(p[j])
        BY <1>5
      <4>2. p[j] # <<>>
        BY <4>1, AnsweredGroup
      <4>3. LET h == Hop(p[j], j) IN h.ttl = Place(p, j) /\ h.ttl \in Nat
        BY <1>0, <4>1, <4>2, HopFacts
      <4> QED
        BY <1>0, <4>1, <4>3
    <3>4. PICK a \in Nat, b \in Nat, x \in Nat, y \in Nat :
            a = i /\ b = o[m] /\ x = Place(p, i) /\ y = Place(p, o[m])
      BY <2>3, <3>3
    <3>5. x < y \/ (x = y /\ a < b)
      BY <3>1, <3>4 DEF Before, Final
    <3>6. y < x \/ (y = x /\ b < a)
      BY <3>2, <3>4 DEF Before, Final
    <3> QED
      BY <3>5, <3>6
  <2>7. ASSUME NEW i \in Answering(p), Final(p, i)  PROVE LastAnswer(hops) = Checkpoint
    <3>1. i = o[m]
      BY <2>6, <2>7
    <3>2. p[i][FirstAnswer(p[i])].ip = Checkpoint
      BY <2>7 DEF Final
    <3> QED
      BY <2>3, <3>1, <3>2
  <2> QED
    BY <2>3, <2>5, <2>7
<1> QED
  BY <1>9, <1>10 DEF hops

\* A route is a success when it reaches the checkpoint.
LEMMA TraceVerdict ==
  ASSUME NEW ending \in Endings \ {"not installed"}, NEW p \in Payloads, NEW stopped
  PROVE  Successful(ending, Hops(p), stopped) <=> Reaches(ending, p, stopped)
<1>1. p \in Seq(Groups)
  BY PayloadType, Zenon
<1>2. /\ (\E k \in DOMAIN Hops(p) : Answered(Hops(p)[k])) <=> Answering(p) # {}
      /\ Answering(p) # {} =>
           (LastAnswer(Hops(p)) = Checkpoint <=> \E i \in Answering(p) : Final(p, i))
  BY <1>1, RouteEnd
<1>3. ending \notin {"not installed", "timed out"} <=> ending \in {"ok", "failed"}
  BY DEF Endings
<1>4. Successful(ending, Hops(p), stopped) <=>
        /\ ending \notin {"not installed", "timed out"}
        /\ \E k \in DOMAIN Hops(p) : Answered(Hops(p)[k])
        /\ stopped \/ LastAnswer(Hops(p)) = Checkpoint
  BY Zenon DEF Successful
<1>5. Reaches(ending, p, stopped) <=>
        /\ ending \in {"ok", "failed"} /\ Answering(p) # {}
        /\ stopped \/ \E i \in Answering(p) : Final(p, i)
  BY Zenon DEF Reaches, Final
<1> QED
  BY <1>2, <1>3, <1>4, <1>5, Zenon

\* Two truths that follow from each other are the same value.
LEMMA SameTruth ==
  ASSUME NEW x, NEW y, x \in BOOLEAN, y \in BOOLEAN, x <=> y,
         NEW t, t = [success |-> x, reaches |-> y]
  PROVE  t.success \in BOOLEAN /\ t.success = t.reaches
<1>1. x = y
  <2>1. (x = TRUE \/ x = FALSE) /\ (y = TRUE \/ y = FALSE)
    BY Zenon
  <2> QED
    BY <2>1, Zenon
<1>2. t.success = x /\ t.reaches = y
  BY Zenon
<1> QED
  BY <1>1, <1>2, Zenon

\* What the traces of a route may be.
LEMMA TracesAreEarned == \A t \in Traces : t.success \in BOOLEAN /\ t.success = t.reaches
<1> DEFINE Earned(t) == t.success \in BOOLEAN /\ t.success = t.reaches
<1>1. ASSUME NEW e, NEW p, NEW b, Successful(e, Hops(p), b) <=> Reaches(e, p, b)
      PROVE  Earned(Traced(e, p, b))
  <2> DEFINE x == Successful(e, Hops(p), b)
             y == Reaches(e, p, b)
             t == Traced(e, p, b)
  <2>1. x \in BOOLEAN /\ y \in BOOLEAN
    BY Zenon DEF Successful, Reaches
  <2>2. t = [success |-> x, reaches |-> y]
    BY Zenon DEF Traced
  <2>3. x <=> y
    BY <1>1
  <2> HIDE DEF x, y, t
  <2>4. Earned(t)
    BY <2>1, <2>2, <2>3, SameTruth
  <2> QED
    BY <2>4 DEF t
<1> HIDE DEF Earned
<1>2. Earned(Traced("not installed", <<>>, FALSE))
  <2>1. Successful("not installed", Hops(<<>>), FALSE) <=> Reaches("not installed", <<>>, FALSE)
    BY DEF Successful, Reaches
  <2> QED
    BY <1>1, <2>1, Zenon
<1>3. ASSUME NEW e \in Endings \ {"not installed"}, NEW p \in Payloads, NEW b
      PROVE  Earned(Traced(e, p, b))
  BY <1>1, TraceVerdict
<1>4. ASSUME NEW e \in Endings \ {"not installed"}, NEW t \in TracesOf(e)  PROVE Earned(t)
  BY <1>3, <1>4 DEF TracesOf
<1>5. ASSUME NEW t \in Traces  PROVE Earned(t)
  BY <1>2, <1>4 DEF Traces
<1> QED
  BY <1>5 DEF Earned

-----------------------------------------------------------------------------
(* The results of the SNI probes, as the service keeps and shows them. *)

\* What a result says is what the destination earned.
Earned(r) ==
  /\ r.verdict \in Verdicts
  /\ (r.verdict = "usable") = r.well
  /\ (r.verdict \in {"usable", "warning"}) = r.serves
  /\ r.node => r.verdict = "unverified"

Found == UNION {ProbeOutcomes[b] : b \in BOOLEAN}

\* A result of these parts is earned when they agree with the verdict.
LEMMA EarnedParts ==
  ASSUME NEW v, NEW s, NEW w, NEW n, v \in Verdicts, s \in BOOLEAN, w \in BOOLEAN, n \in BOOLEAN,
         (v = "usable") <=> w, (v \in {"usable", "warning"}) <=> s, n => v = "unverified",
         NEW r, r = [verdict |-> v, serves |-> s, well |-> w, node |-> n]
  PROVE  Earned(r)
<1>1. r.verdict = v /\ r.serves = s /\ r.well = w /\ r.node = n
  BY Zenon
<1>2. (v = "usable") = w
  <2>1. (v = "usable") \in BOOLEAN /\ (w = TRUE \/ w = FALSE)
    BY Zenon
  <2> QED
    BY <2>1, Zenon
<1>3. (v \in {"usable", "warning"}) = s
  <2>1. (v \in {"usable", "warning"}) \in BOOLEAN /\ (s = TRUE \/ s = FALSE)
    BY Zenon
  <2> QED
    BY <2>1, Zenon
<1> QED
  BY <1>1, <1>2, <1>3, Zenon DEF Earned

\* What a probe that ran its course found is earned.
LEMMA OutcomeEarned ==
  ASSUME NEW matches \in BOOLEAN, NEW r \in Outcomes(matches)
  PROVE  Earned(r)
<1>1. PICK o \in Observations :
        r = [verdict |-> Finish(Checks(matches, o)),
             serves |-> matches /\ Serves(o), well |-> matches /\ ServesWell(o),
             node |-> matches /\ NodeFault(o)]
  BY Zenon DEF Outcomes
<1> DEFINE v == Finish(Checks(matches, o))
           s == matches /\ Serves(o)
           w == matches /\ ServesWell(o)
           n == matches /\ NodeFault(o)
<1>2. /\ v \in Verdicts /\ ((v = "usable") <=> w) /\ ((v \in {"usable", "warning"}) <=> s)
      /\ n => v = "unverified"
  BY SniVerdict, Zenon
<1>3. s \in BOOLEAN /\ w \in BOOLEAN /\ n \in BOOLEAN
  BY Zenon
<1>4. r = [verdict |-> v, serves |-> s, well |-> w, node |-> n]
  BY <1>1
<1> HIDE DEF v, s, w, n
<1> QED
  BY <1>2, <1>3, <1>4, EarnedParts, Zenon

\* What one that was cut short reports is.
LEMMA TimeoutEarned == Earned(Timeout)
<1>1. Finish(TimeoutChecks) = "unverified"
  BY DEF Finish, TimeoutChecks, HasStatus, Check
<1>2. Timeout = [verdict |-> "unverified", serves |-> FALSE, well |-> FALSE, node |-> FALSE]
  BY <1>1 DEF Timeout
<1>3. /\ "unverified" \in Verdicts /\ FALSE \in BOOLEAN
      /\ (("unverified" = "usable") <=> FALSE) /\ (("unverified" \in {"usable", "warning"}) <=> FALSE)
  BY DEF Verdicts
<1> QED
  BY <1>2, <1>3, EarnedParts, Zenon

\* And so is every result a probe may have.
LEMMA FoundEarned == \A r \in Found : Earned(r)
<1>1. ASSUME NEW b \in BOOLEAN, NEW r \in ProbeOutcomes[b]  PROVE Earned(r)
  <2>1. r \in Outcomes(b) \cup {Timeout}
    BY <1>1, Zenon DEF ProbeOutcomes
  <2> QED
    BY <2>1, OutcomeEarned, TimeoutEarned, Zenon
<1> QED
  BY <1>1, Zenon DEF Found

\* An answer holds nothing but such results.
IsAnswer(rs) == rs = [i \in DOMAIN rs |-> rs[i]] /\ \A i \in DOMAIN rs : rs[i] \in Found

\* The answer before any probe.
LEMMA EmptyAnswer == IsAnswer(<<>>)
BY DEF IsAnswer

\* The answer as a whole is "usable" when each of its results is, and there is
\* one.
LEMMA AggregateOfAnswer ==
  ASSUME NEW rs, IsAnswer(rs)
  PROVE  Aggregate(rs) = "usable" <=> rs # <<>> /\ Unhealthy(rs) = {}
<1> DEFINE found == {rs[i].verdict : i \in DOMAIN rs}
<1>1. Aggregate(rs) = IF "unusable" \in found THEN "unusable"
                      ELSE IF "unverified" \in found THEN "unverified"
                      ELSE IF "warning" \in found THEN "warning"
                      ELSE IF "usable" \in found THEN "usable" ELSE "unverified"
  BY Zenon DEF Aggregate
<1>2. \A i \in DOMAIN rs : rs[i].verdict \in Verdicts
  BY FoundEarned, Zenon DEF IsAnswer, Earned
<1>3. found \subseteq Verdicts
  BY <1>2
<1>4. Unhealthy(rs) = {} <=> found \subseteq {"usable"}
  BY DEF Unhealthy
<1>5. rs # <<>> <=> DOMAIN rs # {}
  <2>1. DOMAIN rs = {} => rs = <<>>
    <3> SUFFICES ASSUME DOMAIN rs = {}  PROVE rs = <<>>
      OBVIOUS
    <3>1. rs = [i \in {} |-> rs[i]]
      BY DEF IsAnswer
    <3>2. [i \in {} |-> rs[i]] = <<>>
      OBVIOUS
    <3> QED
      BY <3>1, <3>2
  <2>2. rs = <<>> => DOMAIN rs = {}
    OBVIOUS
  <2> QED
    BY <2>1, <2>2
<1>6. DOMAIN rs # {} <=> found # {}
  OBVIOUS
<1> HIDE DEF found
<1> QED
  BY <1>1, <1>3, <1>4, <1>5, <1>6 DEF Verdicts

\* The invariant of the SNI service.
IsAsk(a) ==
  /\ a = [mode |-> a.mode, targets |-> a.targets, config |-> a.config, answer |-> a.answer]
  /\ IsAnswer(a.answer)

Labels == {"idle", "config", "tags", "probing", "answer"}

SniInv ==
  /\ config \in Configs /\ tags \subseteq Tags /\ probes \in 0..MaxProbes
  /\ served \in [Callers -> Labels]
  /\ ask = [c \in Callers |-> ask[c]] /\ \A c \in Callers : IsAsk(ask[c])
  /\ \A c \in Callers : served[c] = "idle" => ask[c] = NoAsk
  /\ IsAnswer(results)

\* Nothing asked is a request in order.
LEMMA NoAskIsAsk == IsAsk(NoAsk)
BY EmptyAnswer DEF IsAsk, NoAsk

\* It says that what is shown was earned.
LEMMA SniInvImplies == SniInv => SniTypeOK /\ VerdictIsEarned
<1> SUFFICES ASSUME SniInv  PROVE SniTypeOK /\ VerdictIsEarned
  OBVIOUS
<1>1. ASSUME NEW r \in Shown  PROVE r \in Found
  <2>1. ASSUME NEW rs, IsAnswer(rs), r \in RangeOf(rs)  PROVE r \in Found
    BY <2>1, Zenon DEF RangeOf, IsAnswer
  <2>2. IsAnswer(results) /\ \A c \in Callers : IsAnswer(ask[c].answer)
    BY DEF SniInv, IsAsk
  <2>3. r \in RangeOf(results) \/ \E c \in Callers : r \in RangeOf(ask[c].answer)
    BY <1>1, Zenon DEF Shown
  <2> QED
    BY <2>1, <2>2, <2>3, Zenon
<1>2. \A r \in Shown : Earned(r)
  BY <1>1, FoundEarned, Zenon
<1>3. ASSUME NEW rs \in {results} \cup {ask[c].answer : c \in Callers}  PROVE IsAnswer(rs)
  BY <1>3 DEF SniInv, IsAsk
<1>4. \A rs \in {results} \cup {ask[c].answer : c \in Callers} :
        Aggregate(rs) = "usable" <=> rs # <<>> /\ Unhealthy(rs) = {}
  BY <1>3, AggregateOfAnswer
<1>5. VerdictIsEarned
  BY <1>2, <1>4, Zenon DEF VerdictIsEarned, Earned
<1>6. SniTypeOK
  BY <1>2, Zenon DEF SniTypeOK, SniInv, Labels, Earned
<1> QED
  BY <1>5, <1>6

\* It holds at first.
LEMMA SniInitInv == SniInit => SniInv
<1> SUFFICES ASSUME SniInit  PROVE SniInv
  OBVIOUS
<1>1. config \in Configs /\ tags \subseteq Tags /\ probes \in 0..MaxProbes
  BY HealthAssumption DEF SniInit
<1>2. served \in [Callers -> Labels] /\ \A c \in Callers : served[c] = "idle"
  BY DEF SniInit, Labels
<1>3. ask = [c \in Callers |-> NoAsk] /\ results = <<>>
  BY DEF SniInit
<1>4. \A c \in Callers : ask[c] = NoAsk
  BY <1>3
<1>5. ask = [c \in Callers |-> ask[c]]
  BY <1>3
<1> QED
  BY <1>1, <1>2, <1>3, <1>4, <1>5, NoAskIsAsk, EmptyAnswer, Zenon DEF SniInv

\* A request that goes on keeps the invariant: a caller's label and its request
\* are replaced, and what was asked goes back to nothing when it is answered.
LEMMA AskStep ==
  ASSUME SniInv, NEW c \in Callers, NEW label \in Labels, NEW a, IsAsk(a), label = "idle" => a = NoAsk,
         GotoC(c, label), Remember(c, a)
  PROVE  /\ served' \in [Callers -> Labels]
         /\ ask' = [d \in Callers |-> ask'[d]] /\ \A d \in Callers : IsAsk(ask'[d])
         /\ \A d \in Callers : served'[d] = "idle" => ask'[d] = NoAsk
<1>1. /\ served \in [Callers -> Labels] /\ ask = [d \in Callers |-> ask[d]]
      /\ \A d \in Callers : IsAsk(ask[d]) /\ (served[d] = "idle" => ask[d] = NoAsk)
  BY DEF SniInv
<1>2. served' = [served EXCEPT ![c] = label]
  BY DEF GotoC
<1>3. ask' = [ask EXCEPT ![c] = a]
  BY DEF Remember
<1>4. \A d \in Callers : served'[d] = IF d = c THEN label ELSE served[d]
  BY <1>1, <1>2
<1>5. DOMAIN ask = Callers
  BY <1>1
<1>6. ask' = [d \in Callers |-> ask'[d]] /\ \A d \in Callers : ask'[d] = IF d = c THEN a ELSE ask[d]
  <2>1. ask' = [d \in Callers |-> IF d = c THEN a ELSE ask[d]]
    BY <1>3, <1>5, Zenon
  <2>2. \A d \in Callers : ask'[d] = IF d = c THEN a ELSE ask[d]
    BY <2>1, Zenon
  <2> QED
    BY <2>1, <2>2, Zenon
<1>7. served' \in [Callers -> Labels]
  BY <1>1, <1>2
<1>8. \A d \in Callers : IsAsk(ask'[d])
  BY <1>1, <1>6, Zenon
<1>9. \A d \in Callers : served'[d] = "idle" => ask'[d] = NoAsk
  BY <1>1, <1>4, <1>6, Zenon
<1> QED
  BY <1>6, <1>7, <1>8, <1>9

\* A field of a request that is not its answer is replaced.
LEMMA AskFields ==
  ASSUME NEW a, IsAsk(a), NEW x
  PROVE  /\ IsAsk([a EXCEPT !.mode = x]) /\ IsAsk([a EXCEPT !.targets = x])
         /\ IsAsk([a EXCEPT !.config = x])
<1> DEFINE m == a.mode
           t == a.targets
           g == a.config
           w == a.answer
<1>1. a = [mode |-> m, targets |-> t, config |-> g, answer |-> w] /\ IsAnswer(w)
  BY Zenon DEF IsAsk
<1> HIDE DEF m, t, g, w
<1>2. [a EXCEPT !.mode = x] = [mode |-> x, targets |-> t, config |-> g, answer |-> w]
  BY <1>1
<1>3. [a EXCEPT !.targets = x] = [mode |-> m, targets |-> x, config |-> g, answer |-> w]
  BY <1>1
<1>4. [a EXCEPT !.config = x] = [mode |-> m, targets |-> t, config |-> x, answer |-> w]
  BY <1>1
<1>5. ASSUME NEW m1, NEW t1, NEW g1, NEW b, b = [mode |-> m1, targets |-> t1, config |-> g1, answer |-> w]
      PROVE  IsAsk(b)
  BY <1>1, <1>5 DEF IsAsk
<1>6. IsAsk([a EXCEPT !.mode = x])
  BY <1>2, <1>5
<1>7. IsAsk([a EXCEPT !.targets = x])
  BY <1>3, <1>5
<1>8. IsAsk([a EXCEPT !.config = x])
  BY <1>4, <1>5
<1> QED
  BY <1>6, <1>7, <1>8

\* The answer is written.
LEMMA AskAnswer ==
  ASSUME NEW a, IsAsk(a), NEW rs, IsAnswer(rs), NEW x
  PROVE  IsAsk([a EXCEPT !.targets = x, !.answer = rs])
<1>1. IsAsk([a EXCEPT !.targets = x])
  BY AskFields
<1>2. ASSUME NEW b, IsAsk(b)  PROVE IsAsk([b EXCEPT !.answer = rs])
  <2> DEFINE m == b.mode
             t == b.targets
             g == b.config
             w == b.answer
  <2>1. b = [mode |-> m, targets |-> t, config |-> g, answer |-> w]
    BY <1>2, Zenon DEF IsAsk
  <2> HIDE DEF m, t, g, w
  <2>2. [b EXCEPT !.answer = rs] = [mode |-> m, targets |-> t, config |-> g, answer |-> rs]
    BY <2>1
  <2> QED
    BY <2>2 DEF IsAsk
<1>3. IsAsk([[a EXCEPT !.targets = x] EXCEPT !.answer = rs])
  BY <1>1, <1>2
<1> QED
  BY <1>3

\* Every step of the SNI service keeps its invariant.
LEMMA SniNextInv == SniInv /\ [SniNext]_sniVars => SniInv'
<1> SUFFICES ASSUME SniInv, [SniNext]_sniVars  PROVE SniInv'
  OBVIOUS
<1>0. /\ config \in Configs /\ tags \subseteq Tags /\ probes \in 0..MaxProbes
      /\ served \in [Callers -> Labels]
      /\ ask = [c \in Callers |-> ask[c]] /\ \A c \in Callers : IsAsk(ask[c])
      /\ \A c \in Callers : served[c] = "idle" => ask[c] = NoAsk
      /\ IsAnswer(results)
  BY DEF SniInv
<1> DEFINE Asks == /\ served' \in [Callers -> Labels]
                   /\ ask' = [c \in Callers |-> ask'[c]] /\ \A c \in Callers : IsAsk(ask'[c])
                   /\ \A c \in Callers : served'[c] = "idle" => ask'[c] = NoAsk
<1>1. ASSUME config' \in Configs, tags' \subseteq Tags, probes' \in 0..MaxProbes, Asks, IsAnswer(results')
      PROVE  SniInv'
  BY <1>1, Zenon DEF SniInv, IsAsk, IsAnswer
<1>2. UNCHANGED <<served, ask>> => Asks
  BY <1>0, Zenon
<1> HIDE DEF Asks
<1>3. CASE UNCHANGED sniVars
  BY <1>0, <1>1, <1>2, <1>3, Zenon DEF sniVars
<1>4. CASE Reconfigure
  <2>1. config' \in Configs /\ tags' \subseteq Tags
    BY <1>0, <1>4 DEF Reconfigure
  <2>2. UNCHANGED <<results, served, ask, probes>>
    BY <1>4 DEF Reconfigure
  <2> QED
    BY <1>0, <1>1, <1>2, <2>1, <2>2, Zenon
<1>5. ASSUME NEW c \in Callers, Ask(c)  PROVE SniInv'
  <2>1. UNCHANGED <<config, tags, results>> /\ probes' = probes + 1 /\ probes < MaxProbes
    BY <1>5 DEF Ask
  <2>2. probes' \in 0..MaxProbes
    BY <1>0, <2>1, HealthAssumption
  <2>3. ASSUME NEW label \in Labels, label # "idle", NEW a, IsAsk(a), GotoC(c, label), Remember(c, a)
        PROVE  Asks
    BY <2>3, AskStep DEF Asks
  <2>4. ASSUME AskStatus(c)  PROVE Asks
    <3>1. IsAsk([NoAsk EXCEPT !.mode = "status"]) /\ "config" \in Labels
      BY NoAskIsAsk, AskFields DEF Labels
    <3>2. \/ UNCHANGED <<served, ask>>
          \/ Remember(c, [NoAsk EXCEPT !.mode = "status"]) /\ GotoC(c, "config")
      BY <2>4, Zenon DEF AskStatus
    <3> QED
      BY <1>2, <2>3, <3>1, <3>2, Zenon
  <2>5. ASSUME AskActive(c)  PROVE Asks
    <3>1. IsAsk([NoAsk EXCEPT !.mode = "active"]) /\ "config" \in Labels
      BY NoAskIsAsk, AskFields DEF Labels
    <3>2. Remember(c, [NoAsk EXCEPT !.mode = "active"]) /\ GotoC(c, "config")
      BY <2>5, Zenon DEF AskActive
    <3> QED
      BY <2>3, <3>1, <3>2, Zenon
  <2>6. ASSUME AskCandidates(c)  PROVE Asks
    <3>1. PICK list \in CandidateLists :
            IF ValidCandidates(list)
            THEN /\ Remember(c, [NoAsk EXCEPT !.mode = "candidates", !.targets = CandidateTargets(list)])
                 /\ GotoC(c, "probing")
            ELSE UNCHANGED <<served, ask>>
      BY <2>6, Zenon DEF AskCandidates
    <3>2. IsAsk([NoAsk EXCEPT !.mode = "candidates", !.targets = CandidateTargets(list)])
      <4>1. IsAsk([NoAsk EXCEPT !.mode = "candidates"])
        BY NoAskIsAsk, AskFields
      <4>2. IsAsk([[NoAsk EXCEPT !.mode = "candidates"] EXCEPT !.targets = CandidateTargets(list)])
        BY <4>1, AskFields
      <4> QED
        BY <4>2
    <3>3. "probing" \in Labels
      BY DEF Labels
    <3> QED
      BY <1>2, <2>3, <3>1, <3>2, <3>3, Zenon
  <2>7. Asks
    BY <1>5, <2>4, <2>5, <2>6, Zenon DEF Ask
  <2> QED
    BY <1>0, <1>1, <2>1, <2>2, <2>7, Zenon
<1>6. ASSUME NEW c \in Callers, ReadConfig(c)  PROVE SniInv'
  <2>1. IsAsk([ask[c] EXCEPT !.config = config])
    BY <1>0, AskFields
  <2>2. "tags" \in Labels
    BY DEF Labels
  <2>3. GotoC(c, "tags") /\ Remember(c, [ask[c] EXCEPT !.config = config])
        /\ UNCHANGED <<config, tags, results, probes>>
    BY <1>6 DEF ReadConfig
  <2>4. Asks
    BY <2>1, <2>2, <2>3, AskStep DEF Asks
  <2> QED
    BY <1>0, <1>1, <2>3, <2>4, Zenon
<1>7. ASSUME NEW c \in Callers, ReadTags(c)  PROVE SniInv'
  <2> DEFINE x == ExtractRealityTargets(ask[c].config, tags)
             b == [ask[c] EXCEPT !.config = <<>>, !.targets = x]
  <2>3. GotoC(c, "probing") /\ Remember(c, b) /\ UNCHANGED <<config, tags, results, probes>>
    BY <1>7, Zenon DEF ReadTags
  <2> HIDE DEF x
  <2>1. IsAsk(b)
    <3>1. IsAsk([ask[c] EXCEPT !.config = <<>>])
      BY <1>0, AskFields
    <3>2. IsAsk([[ask[c] EXCEPT !.config = <<>>] EXCEPT !.targets = x])
      BY <3>1, AskFields
    <3> QED
      BY <3>2
  <2> HIDE DEF b
  <2>2. "probing" \in Labels
    BY DEF Labels
  <2>4. Asks
    BY <2>1, <2>2, <2>3, AskStep DEF Asks
  <2> QED
    BY <1>0, <1>1, <2>3, <2>4, Zenon
<1>8. ASSUME NEW c \in Callers, Probed(c)  PROVE SniInv'
  <2>1. PICK rs \in [DOMAIN ask[c].targets -> Found] : Remember(c, [ask[c] EXCEPT !.targets = <<>>, !.answer = rs])
    BY <1>8, Zenon DEF Probed, Found
  <2>2. GotoC(c, "answer") /\ UNCHANGED <<config, tags, results, probes>>
    BY <1>8, Zenon DEF Probed
  <2>3. IsAnswer(rs)
    BY <2>1 DEF IsAnswer
  <2>4. IsAsk([ask[c] EXCEPT !.targets = <<>>, !.answer = rs])
    BY <1>0, <2>3, AskAnswer
  <2>5. "answer" \in Labels
    BY DEF Labels
  <2>6. Asks
    BY <2>1, <2>2, <2>4, <2>5, AskStep DEF Asks
  <2> QED
    BY <1>0, <1>1, <2>2, <2>6, Zenon
<1>9. ASSUME NEW c \in Callers, Answer(c)  PROVE SniInv'
  <2>1. /\ GotoC(c, "idle") /\ Remember(c, NoAsk) /\ UNCHANGED <<config, tags, probes>>
        /\ results' = IF ask[c].mode = "candidates" THEN results ELSE ask[c].answer
    BY <1>9, Zenon DEF Answer
  <2>2. "idle" \in Labels
    BY DEF Labels
  <2>3. IsAnswer(results')
    <3>1. IsAnswer(ask[c].answer)
      BY <1>0, Zenon DEF IsAsk
    <3>2. results' = results \/ results' = ask[c].answer
      BY <2>1
    <3>3. PICK rs : rs = results'
      OBVIOUS
    <3>4. IsAnswer(rs)
      BY <1>0, <3>1, <3>2, <3>3, Zenon
    <3> QED
      BY <3>3, <3>4, Zenon
  <2>4. Asks
    BY <2>1, <2>2, NoAskIsAsk, AskStep DEF Asks
  <2> QED
    BY <1>0, <1>1, <2>1, <2>3, <2>4, Zenon
<1> QED
  BY <1>3, <1>4, <1>5, <1>6, <1>7, <1>8, <1>9, Zenon DEF SniNext, CallerStep

-----------------------------------------------------------------------------
(* The backtraces. *)

\* A probe of a route: while it runs its address is known to be public; when it
\* is done, its result is what it earned.
ProbeRecord == [at : {"resolving", "running", "done"}, public : BOOLEAN, result : Traces \cup {Nothing}]

GoodProbe(q) ==
  /\ q \in ProbeRecord
  /\ q.at = "running" => q.public
  /\ q.at = "done" => q.result.success = (q.public /\ q.result.reaches)

\* A queue in which nobody stands twice.
Queue == {q \in Seq(Requesters) : \A i, j \in 1..Len(q) : q[i] = q[j] => i = j}

\* The invariant of the backtrace service.
Stages == {"idle", "waiting", "tracing"}

BacktraceInv ==
  /\ stage \in [Requesters -> Stages] /\ gone \subseteq Requesters /\ runs \in 0..MaxRuns
  /\ slot \in Requesters \cup {Nil} /\ \A r \in Requesters : slot = r <=> stage[r] = "tracing"
  /\ line \in Queue /\ \A r \in Requesters : (\E i \in 1..Len(line) : line[i] = r) <=> stage[r] = "waiting"
  /\ DOMAIN probe = Requesters
  /\ \A r \in Requesters : \A i \in DOMAIN probe[r] : GoodProbe(probe[r][i])

\* Such a queue has as many places as it has members.
LEMMA QueueLength ==
  ASSUME NEW q \in Queue
  PROVE  Len(q) = Cardinality(Range(q))
<1>1. q \in Seq(Requesters) /\ Len(q) \in Nat /\ DOMAIN q = 1..Len(q)
  BY DEF Queue
<1>2. \A i, j \in 1..Len(q) : q[i] = q[j] => i = j
  BY DEF Queue
<1>3. q \in Bijection(1..Len(q), Range(q))
  <2>1. q \in [1..Len(q) -> Range(q)]
    BY <1>1 DEF Range
  <2>2. \A x \in Range(q) : \E i \in 1..Len(q) : q[i] = x
    BY <1>1 DEF Range
  <2> QED
    BY <1>2, <2>1, <2>2 DEF Bijection, Injection, Surjection, IsInjective
<1>4. IsFiniteSet(1..Len(q)) /\ Cardinality(1..Len(q)) = Len(q)
  BY <1>1, FS_Interval
<1> QED
  BY <1>3, <1>4, FS_Bijection DEF ExistsBijection

\* The invariant says what the runs check.
LEMMA BacktraceInvImplies == BacktraceInv => BacktraceTypeOK /\ SuccessIsEarned
<1> SUFFICES ASSUME BacktraceInv  PROVE BacktraceTypeOK /\ SuccessIsEarned
  OBVIOUS
<1>1. SuccessIsEarned
  BY Zenon DEF SuccessIsEarned, BacktraceInv, GoodProbe
<1>2. Range(line) = {r \in Requesters : stage[r] = "waiting"}
  <2>1. line \in Seq(Requesters) /\ DOMAIN line = 1..Len(line)
    BY DEF BacktraceInv, Queue
  <2>2. \A i \in 1..Len(line) : line[i] \in Requesters
    BY <2>1
  <2>3. \A x : x \in Range(line) <=> \E i \in 1..Len(line) : line[i] = x
    BY <2>1 DEF Range
  <2> QED
    BY <2>2, <2>3 DEF BacktraceInv
<1>3. Len(line) = Cardinality(Range(line))
  BY QueueLength DEF BacktraceInv
<1>4. \A r \in Requesters : (slot = r) = (stage[r] = "tracing")
  <2> SUFFICES ASSUME NEW r \in Requesters  PROVE (slot = r) = (stage[r] = "tracing")
    OBVIOUS
  <2>1. slot = r <=> stage[r] = "tracing"
    BY DEF BacktraceInv
  <2> QED
    BY <2>1
<1> QED
  BY <1>1, <1>2, <1>3, <1>4, Zenon DEF BacktraceTypeOK, BacktraceInv, Stages

\* It holds at first.
LEMMA BacktraceInitInv == BacktraceInit => BacktraceInv
<1> SUFFICES ASSUME BacktraceInit  PROVE BacktraceInv
  OBVIOUS
<1>1. stage \in [Requesters -> Stages] /\ \A r \in Requesters : stage[r] = "idle"
  BY DEF BacktraceInit, Stages
<1>2. slot = Nil /\ gone = {} /\ runs \in 0..MaxRuns /\ \A r \in Requesters : slot # r
  BY BacktraceAssumption DEF BacktraceInit
<1>3. line = <<>> /\ line \in Queue /\ \A r \in Requesters : ~\E i \in 1..Len(line) : line[i] = r
  BY DEF BacktraceInit, Queue
<1>4. probe = [r \in Requesters |-> <<>>]
  BY DEF BacktraceInit
<1>5. DOMAIN probe = Requesters /\ \A r \in Requesters : \A i \in DOMAIN probe[r] : GoodProbe(probe[r][i])
  BY <1>4
<1> QED
  BY <1>1, <1>2, <1>3, <1>5 DEF BacktraceInv

\* A requester that is not in a queue joins it.
LEMMA JoinQueue ==
  ASSUME NEW q \in Queue, NEW r \in Requesters, \A i \in 1..Len(q) : q[i] # r
  PROVE  /\ Append(q, r) \in Queue
         /\ \A x : (\E i \in 1..Len(Append(q, r)) : Append(q, r)[i] = x) <=>
                     (\E i \in 1..Len(q) : q[i] = x) \/ x = r
<1>1. q \in Seq(Requesters) /\ Len(q) \in Nat /\ \A i, j \in 1..Len(q) : q[i] = q[j] => i = j
  BY DEF Queue
<1> DEFINE t == Append(q, r)
<1>2. t \in Seq(Requesters) /\ Len(t) = Len(q) + 1 /\ t[Len(q) + 1] = r
      /\ \A i \in 1..Len(q) : t[i] = q[i]
  BY <1>1
<1> HIDE DEF t
<1>3. \A i \in 1..Len(t) : i \in 1..Len(q) \/ i = Len(q) + 1
  BY <1>1, <1>2
<1>4. \A i \in 1..Len(q) : i \in 1..Len(t)
  BY <1>1, <1>2
<1>5. Len(q) + 1 \in 1..Len(t)
  BY <1>1, <1>2
<1>6. t \in Queue
  BY <1>1, <1>2, <1>3 DEF Queue
<1>7. \A x : (\E i \in 1..Len(t) : t[i] = x) <=> (\E i \in 1..Len(q) : q[i] = x) \/ x = r
  BY <1>2, <1>3, <1>4, <1>5, Zenon
<1> QED
  BY <1>6, <1>7 DEF t

\* One that is in it leaves it.
LEMMA LeaveQueue ==
  ASSUME NEW q \in Queue, NEW k \in 1..Len(q)
  PROVE  /\ RemoveAt(q, k) \in Queue
         /\ \A x : (\E i \in 1..Len(RemoveAt(q, k)) : RemoveAt(q, k)[i] = x) <=>
                     (\E i \in 1..Len(q) : q[i] = x) /\ x # q[k]
<1>1. q \in Seq(Requesters) /\ Len(q) \in Nat /\ \A i, j \in 1..Len(q) : q[i] = q[j] => i = j
  BY DEF Queue
<1> DEFINE a == SubSeq(q, 1, k - 1)
           b == SubSeq(q, k + 1, Len(q))
           t == a \o b
<1>2. a \in Seq(Requesters) /\ Len(a) = k - 1 /\ \A i \in 1..(k - 1) : a[i] = q[i]
  BY <1>1
<1>3. b \in Seq(Requesters) /\ Len(b) = Len(q) - k /\ \A i \in 1..(Len(q) - k) : b[i] = q[i + k]
  BY <1>1
<1>4. RemoveAt(q, k) = t
  BY DEF RemoveAt
<1> HIDE DEF a, b
<1>5. t \in Seq(Requesters) /\ Len(t) = Len(q) - 1
  <2>1. a \in Seq(Requesters) /\ b \in Seq(Requesters) /\ Len(a) = k - 1 /\ Len(b) = Len(q) - k
    BY <1>2, <1>3
  <2>2. t \in Seq(Requesters) /\ Len(t) = Len(a) + Len(b)
    BY <2>1
  <2> QED
    BY <1>1, <2>1, <2>2
<1>6. ASSUME NEW i \in 1..(Len(q) - 1)  PROVE t[i] = IF i < k THEN q[i] ELSE q[i + 1]
  <2>1. CASE i < k
    BY <1>1, <1>2, <1>3, <2>1
  <2>2. CASE ~(i < k)
    <3>1. t[i] = b[i - (k - 1)]
      BY <1>1, <1>2, <1>3, <2>2
    <3>2. i - (k - 1) \in 1..(Len(q) - k) /\ (i - (k - 1)) + k = i + 1
      BY <1>1, <2>2
    <3>3. b[i - (k - 1)] = q[i + 1]
      BY <1>3, <3>2
    <3> QED
      BY <2>2, <3>1, <3>3
  <2> QED
    BY <2>1, <2>2
<1> HIDE DEF t
<1> DEFINE Old(i) == IF i < k THEN i ELSE i + 1
<1>7. \A i \in 1..Len(t) : Old(i) \in 1..Len(q) /\ Old(i) # k /\ t[i] = q[Old(i)]
  BY <1>1, <1>5, <1>6
<1>8. \A i, j \in 1..Len(t) : Old(i) = Old(j) => i = j
  BY <1>1, <1>5
<1>9. \A j \in 1..Len(q) : j # k => \E i \in 1..Len(t) : Old(i) = j
  <2> SUFFICES ASSUME NEW j \in 1..Len(q), j # k  PROVE \E i \in 1..Len(t) : Old(i) = j
    OBVIOUS
  <2>1. CASE j < k
    <3>1. j \in 1..Len(t)
      BY <1>1, <1>5, <2>1
    <3> QED
      BY <2>1, <3>1
  <2>2. CASE j > k
    <3>1. j - 1 \in 1..Len(t) /\ ~(j - 1 < k) /\ (j - 1) + 1 = j
      BY <1>1, <1>5, <2>2
    <3> QED
      BY <3>1
  <2> QED
    BY <1>1, <2>1, <2>2
<1> HIDE DEF Old
<1>10. t \in Queue
  BY <1>1, <1>5, <1>7, <1>8 DEF Queue
<1>11. \A x : (\E i \in 1..Len(t) : t[i] = x) <=> (\E i \in 1..Len(q) : q[i] = x) /\ x # q[k]
  <2> SUFFICES ASSUME NEW x
               PROVE  (\E i \in 1..Len(t) : t[i] = x) <=> (\E i \in 1..Len(q) : q[i] = x) /\ x # q[k]
    OBVIOUS
  <2>1. ASSUME NEW i \in 1..Len(t), t[i] = x  PROVE (\E j \in 1..Len(q) : q[j] = x) /\ x # q[k]
    BY <1>1, <1>7, <2>1
  <2>2. ASSUME NEW j \in 1..Len(q), q[j] = x, x # q[k]  PROVE \E i \in 1..Len(t) : t[i] = x
    <3>1. PICK i \in 1..Len(t) : Old(i) = j
      BY <1>9, <2>2
    <3> QED
      BY <1>7, <2>2, <3>1
  <2> QED
    BY <2>1, <2>2, Zenon
<1> QED
  BY <1>4, <1>10, <1>11

\* The first goes.
LEMMA TailQueue ==
  ASSUME NEW q \in Queue, q # <<>>
  PROVE  Tail(q) = RemoveAt(q, 1) /\ 1 \in 1..Len(q)
<1>1. q \in Seq(Requesters) /\ Len(q) \in Nat /\ Len(q) >= 1
  BY DEF Queue
<1>2. SubSeq(q, 1, 0) = <<>> /\ SubSeq(q, 2, Len(q)) = Tail(q) /\ <<>> \o Tail(q) = Tail(q)
  BY <1>1
<1> QED
  BY <1>1, <1>2 DEF RemoveAt

\* The probes of one requester are replaced by good ones.
LEMMA ProbeStep ==
  ASSUME DOMAIN probe = Requesters,
         \A r \in Requesters : \A i \in DOMAIN probe[r] : GoodProbe(probe[r][i]),
         NEW r \in Requesters, NEW ps, \A i \in DOMAIN ps : GoodProbe(ps[i]),
         probe' = [probe EXCEPT ![r] = ps]
  PROVE  /\ DOMAIN probe' = Requesters
         /\ \A s \in Requesters : \A i \in DOMAIN probe'[s] : GoodProbe(probe'[s][i])
<1>1. DOMAIN probe' = Requesters
  BY Zenon
<1>2. \A s \in Requesters : probe'[s] = IF s = r THEN ps ELSE probe[s]
  BY Zenon
<1> QED
  BY <1>1, <1>2, Zenon

\* One of them is.
LEMMA TargetStepGood ==
  ASSUME BacktraceInv, NEW r \in Requesters, NEW i \in DOMAIN probe[r], NEW q, GoodProbe(q), SetProbe(r, i, q)
  PROVE  /\ DOMAIN probe' = Requesters
         /\ \A s \in Requesters : \A j \in DOMAIN probe'[s] : GoodProbe(probe'[s][j])
<1> DEFINE ps == [probe[r] EXCEPT ![i] = q]
<1>1. probe' = [probe EXCEPT ![r] = ps]
  BY Zenon DEF SetProbe
<1>2. \A j \in DOMAIN ps : GoodProbe(ps[j])
  <2>1. \A j \in DOMAIN probe[r] : GoodProbe(probe[r][j])
    BY DEF BacktraceInv
  <2>2. DOMAIN ps = DOMAIN probe[r] /\ \A j \in DOMAIN probe[r] : ps[j] = IF j = i THEN q ELSE probe[r][j]
    BY Zenon
  <2> QED
    BY <2>1, <2>2, Zenon
<1> HIDE DEF ps
<1> QED
  BY <1>1, <1>2, ProbeStep DEF BacktraceInv

\* A probe that has begun is good.
LEMMA BegunGood == Begun \in ProbeRecord /\ Begun.result = Nothing /\ GoodProbe(Begun)
<1>1. Begun \in ProbeRecord
  BY DEF Begun, ProbeRecord
<1> QED
  BY <1>1 DEF GoodProbe, Begun

\* One that was resolved is: it runs only when all its addresses are public.
LEMMA ResolvedGood ==
  ASSUME NEW addresses \in Lookups
  PROVE  GoodProbe([Begun EXCEPT !.at = IF Resolves(addresses) THEN "running" ELSE "done",
                                 !.public = addresses # <<>> /\ "private" \notin Range(addresses)])
<1> DEFINE public == addresses # <<>> /\ "private" \notin Range(addresses)
           at == IF Resolves(addresses) THEN "running" ELSE "done"
<1>1. public \in BOOLEAN /\ at \in {"running", "done"}
  BY Zenon
<1>2. at = "running" => public
  <2> SUFFICES ASSUME Resolves(addresses)  PROVE public
    OBVIOUS
  <2>1. PICK i \in DOMAIN addresses : addresses[i] = "v4"
    BY DEF Resolves
  <2>2. addresses # <<>>
    <3>1. addresses = <<>> => DOMAIN addresses = {}
      OBVIOUS
    <3> QED
      BY <2>1, <3>1
  <2>3. "private" \notin Range(addresses)
    BY DEF Resolves, Range
  <2> QED
    BY <2>2, <2>3
<1> HIDE DEF public, at
<1>3. PICK p \in ProbeRecord : p = Begun /\ p.result = Nothing
  BY BegunGood
<1>4. PICK x \in BOOLEAN, y \in {"running", "done"} : x = public /\ y = at
  BY <1>1
<1> DEFINE q == [p EXCEPT !.at = y, !.public = x]
<1>5. q \in ProbeRecord /\ q.at = y /\ q.public = x /\ q.result = Nothing
  BY <1>3 DEF ProbeRecord
<1> HIDE DEF q
<1>6. Nothing.success = (x /\ Nothing.reaches)
  <2>1. Nothing.success = FALSE /\ Nothing.reaches = FALSE
    BY DEF Nothing
  <2> QED
    BY <2>1, Zenon
<1>7. y = "running" => x
  BY <1>2, <1>4, Zenon
<1>8. GoodProbe(q)
  BY <1>5, <1>6, <1>7, Zenon DEF GoodProbe
<1>9. q = [Begun EXCEPT !.at = at, !.public = public]
  BY <1>3, <1>4, Zenon DEF q
<1> QED
  BY <1>8, <1>9 DEF public, at

\* One that was judged is: its result is a trace of the route to them.
LEMMA JudgedGood ==
  ASSUME NEW p, GoodProbe(p), p.at = "running", NEW t \in Traces
  PROVE  GoodProbe([p EXCEPT !.at = "done", !.result = t])
<1> DEFINE q == [p EXCEPT !.at = "done", !.result = t]
<1>1. p \in ProbeRecord /\ p.public = TRUE
  BY DEF GoodProbe, ProbeRecord
<1>2. q.at = "done" /\ q.result = t /\ q.public = TRUE
  BY <1>1 DEF ProbeRecord
<1>3. q \in ProbeRecord
  BY <1>1 DEF ProbeRecord
<1>4. t.success = (TRUE /\ t.reaches)
  <2>1. t.success \in BOOLEAN /\ t.success = t.reaches
    BY TracesAreEarned
  <2>2. t.reaches = TRUE \/ t.reaches = FALSE
    BY <2>1, Zenon
  <2> QED
    BY <2>1, <2>2, Zenon
<1> HIDE DEF q
<1>5. GoodProbe(q)
  BY <1>2, <1>3, <1>4, Zenon DEF GoodProbe
<1> QED
  BY <1>5 DEF q

\* Every step of the backtrace service keeps its invariant.
LEMMA BacktraceNextInv == BacktraceInv /\ [BacktraceNext]_backtraceVars => BacktraceInv'
<1> SUFFICES ASSUME BacktraceInv, [BacktraceNext]_backtraceVars  PROVE BacktraceInv'
  OBVIOUS
<1> DEFINE In(r) == \E i \in 1..Len(line) : line[i] = r
<1>0. /\ stage \in [Requesters -> Stages] /\ gone \subseteq Requesters /\ runs \in 0..MaxRuns
      /\ slot \in Requesters \cup {Nil} /\ \A r \in Requesters : slot = r <=> stage[r] = "tracing"
      /\ line \in Queue /\ \A r \in Requesters : In(r) <=> stage[r] = "waiting"
      /\ DOMAIN probe = Requesters
      /\ \A r \in Requesters : \A i \in DOMAIN probe[r] : GoodProbe(probe[r][i])
  BY DEF BacktraceInv
<1> DEFINE Probes == /\ DOMAIN probe' = Requesters
                     /\ \A r \in Requesters : \A i \in DOMAIN probe'[r] : GoodProbe(probe'[r][i])
           Turns == /\ stage' \in [Requesters -> Stages]
                    /\ slot' \in Requesters \cup {Nil}
                    /\ \A r \in Requesters : slot' = r <=> stage'[r] = "tracing"
                    /\ line' \in Queue
                    /\ \A r \in Requesters : (\E i \in 1..Len(line') : line'[i] = r) <=> stage'[r] = "waiting"
<1>1. ASSUME gone' \subseteq Requesters, runs' \in 0..MaxRuns, Turns, Probes  PROVE BacktraceInv'
  BY <1>1, Zenon DEF BacktraceInv
<1>2. UNCHANGED probe => Probes
  BY <1>0, Zenon
<1>3. UNCHANGED <<slot, line, stage>> => Turns
  BY <1>0, Zenon
<1>4. ASSUME NEW r \in Requesters, NEW label, StageOf(r, label)
      PROVE  \A s \in Requesters : stage'[s] = IF s = r THEN label ELSE stage[s]
  BY <1>0, <1>4 DEF StageOf
<1>5. ASSUME NEW r \in Requesters, NEW label \in Stages, StageOf(r, label)
      PROVE  stage' \in [Requesters -> Stages]
  BY <1>0, <1>5 DEF StageOf
<1>6. ASSUME NEW r \in Requesters, probe' = [probe EXCEPT ![r] = <<>>]  PROVE Probes
  <2>1. \A i \in DOMAIN <<>> : GoodProbe(<<>>[i])
    OBVIOUS
  <2> QED
    BY <1>0, <1>6, <2>1, ProbeStep, Zenon
<1> HIDE DEF Probes, Turns
<1>7. CASE UNCHANGED backtraceVars
  BY <1>0, <1>1, <1>2, <1>3, <1>7, Zenon DEF backtraceVars
<1>8. ASSUME NEW r \in Requesters, Run(r)  PROVE BacktraceInv'
  <2>1. /\ stage[r] = "idle" /\ runs' = runs + 1 /\ runs < MaxRuns /\ UNCHANGED <<slot, gone>>
        /\ \E targets \in Requests :
             IF ValidateTargets(targets)
             THEN /\ StageOf(r, "waiting") /\ line' = Append(line, r)
                  /\ probe' = [probe EXCEPT ![r] = [i \in DOMAIN targets |-> Begun]]
             ELSE UNCHANGED <<stage, line, probe>>
    BY <1>8, Zenon DEF Run
  <2>2. runs' \in 0..MaxRuns
    BY <1>0, <2>1, BacktraceAssumption
  <2>3. ASSUME NEW targets, StageOf(r, "waiting"), line' = Append(line, r),
               probe' = [probe EXCEPT ![r] = [i \in DOMAIN targets |-> Begun]]
        PROVE  Turns /\ Probes
    <3>1. \A i \in 1..Len(line) : line[i] # r
      BY <1>0, <2>1
    <3>2. /\ line' \in Queue
          /\ \A x : (\E i \in 1..Len(line') : line'[i] = x) <=> In(x) \/ x = r
      BY <1>0, <2>3, <3>1, JoinQueue
    <3>3. "waiting" \in Stages
      BY DEF Stages
    <3>4. stage' \in [Requesters -> Stages]
      BY <1>5, <2>3, <3>3
    <3>5. \A s \in Requesters : stage'[s] = IF s = r THEN "waiting" ELSE stage[s]
      BY <1>4, <2>3
    <3> HIDE DEF In
    <3>6. \A s \in Requesters : slot' = s <=> stage'[s] = "tracing"
      BY <1>0, <2>1, <3>5
    <3>7. \A s \in Requesters : (\E i \in 1..Len(line') : line'[i] = s) <=> stage'[s] = "waiting"
      BY <1>0, <3>2, <3>5
    <3>8. Turns
      BY <1>0, <2>1, <3>2, <3>4, <3>6, <3>7, Zenon DEF Turns
    <3>9. \A j \in DOMAIN [i \in DOMAIN targets |-> Begun] : GoodProbe([i \in DOMAIN targets |-> Begun][j])
      BY BegunGood
    <3>10. Probes
      BY <1>0, <2>3, <3>9, ProbeStep, Zenon DEF Probes
    <3> QED
      BY <3>8, <3>10
  <2>4. Turns /\ Probes
    BY <1>2, <1>3, <2>1, <2>3, Zenon
  <2> QED
    BY <1>0, <1>1, <2>1, <2>2, <2>4, Zenon
<1>9. ASSUME NEW r \in Requesters, Enter(r)  PROVE BacktraceInv'
  <2>1. /\ stage[r] = "waiting" /\ slot = Nil /\ line[1] = r /\ slot' = r /\ line' = Tail(line)
        /\ StageOf(r, "tracing") /\ UNCHANGED <<gone, probe, runs>>
    BY <1>9, Zenon DEF Enter
  <2>2. line # <<>>
    <3>1. PICK i \in 1..Len(line) : line[i] = r
      BY <1>0, <2>1
    <3>2. line = <<>> => Len(line) = 0
      OBVIOUS
    <3> QED
      BY <3>1, <3>2
  <2>3. line' = RemoveAt(line, 1) /\ 1 \in 1..Len(line)
    BY <1>0, <2>1, <2>2, TailQueue
  <2>4. /\ line' \in Queue
        /\ \A x : (\E i \in 1..Len(line') : line'[i] = x) <=> In(x) /\ x # r
    <3>1. /\ RemoveAt(line, 1) \in Queue
          /\ \A x : (\E i \in 1..Len(RemoveAt(line, 1)) : RemoveAt(line, 1)[i] = x) <=>
                      In(x) /\ x # line[1]
      <4>1. PICK q \in Queue : q = line
        BY <1>0
      <4>2. 1 \in 1..Len(q)
        BY <2>3, <4>1
      <4>3. /\ RemoveAt(q, 1) \in Queue
            /\ \A x : (\E i \in 1..Len(RemoveAt(q, 1)) : RemoveAt(q, 1)[i] = x) <=>
                        (\E i \in 1..Len(q) : q[i] = x) /\ x # q[1]
        BY <4>2, LeaveQueue
      <4> QED
        BY <4>1, <4>3, Zenon
    <3> HIDE DEF In
    <3> QED
      BY <2>1, <2>3, <3>1, Zenon
  <2>5. "tracing" \in Stages
    BY DEF Stages
  <2>6. stage' \in [Requesters -> Stages]
    BY <1>5, <2>1, <2>5
  <2>7. \A s \in Requesters : stage'[s] = IF s = r THEN "tracing" ELSE stage[s]
    BY <1>4, <2>1
  <2> HIDE DEF In
  <2>8. \A s \in Requesters : slot' = s <=> stage'[s] = "tracing"
    BY <1>0, <2>1, <2>7, BacktraceAssumption
  <2>9. \A s \in Requesters : (\E i \in 1..Len(line') : line'[i] = s) <=> stage'[s] = "waiting"
    BY <1>0, <2>4, <2>7
  <2>10. Turns
    BY <1>0, <2>1, <2>4, <2>6, <2>8, <2>9, Zenon DEF Turns
  <2> QED
    BY <1>0, <1>1, <1>2, <2>1, <2>10, Zenon
<1>10. ASSUME NEW r \in Requesters, Leave(r)  PROVE BacktraceInv'
  <2>1. /\ stage[r] = "waiting" /\ StageOf(r, "idle") /\ gone' = gone \ {r}
        /\ probe' = [probe EXCEPT ![r] = <<>>] /\ UNCHANGED <<slot, runs>>
    BY <1>10, Zenon DEF Leave
  <2>2. PICK k \in DOMAIN line : line[k] = r /\ line' = RemoveAt(line, k)
    BY <1>10, Zenon DEF Leave
  <2>3. k \in 1..Len(line)
    BY <1>0, <2>2 DEF Queue
  <2>4. /\ line' \in Queue
        /\ \A x : (\E i \in 1..Len(line') : line'[i] = x) <=> In(x) /\ x # r
    <3>1. /\ RemoveAt(line, k) \in Queue
          /\ \A x : (\E i \in 1..Len(RemoveAt(line, k)) : RemoveAt(line, k)[i] = x) <=>
                      In(x) /\ x # line[k]
      <4>1. PICK q \in Queue : q = line
        BY <1>0
      <4>2. k \in 1..Len(q)
        BY <2>3, <4>1
      <4>3. /\ RemoveAt(q, k) \in Queue
            /\ \A x : (\E i \in 1..Len(RemoveAt(q, k)) : RemoveAt(q, k)[i] = x) <=>
                        (\E i \in 1..Len(q) : q[i] = x) /\ x # q[k]
        BY <4>2, LeaveQueue
      <4> QED
        BY <4>1, <4>3, Zenon
    <3> HIDE DEF In
    <3> QED
      BY <2>2, <2>3, <3>1, Zenon
  <2>5. "idle" \in Stages
    BY DEF Stages
  <2>6. stage' \in [Requesters -> Stages]
    BY <1>5, <2>1, <2>5
  <2>7. \A s \in Requesters : stage'[s] = IF s = r THEN "idle" ELSE stage[s]
    BY <1>4, <2>1
  <2> HIDE DEF In
  <2>8. \A s \in Requesters : slot' = s <=> stage'[s] = "tracing"
    BY <1>0, <2>1, <2>7
  <2>9. \A s \in Requesters : (\E i \in 1..Len(line') : line'[i] = s) <=> stage'[s] = "waiting"
    BY <1>0, <2>4, <2>7
  <2>10. Turns
    BY <1>0, <2>1, <2>4, <2>6, <2>8, <2>9, Zenon DEF Turns
  <2>11. Probes
    BY <1>6, <2>1
  <2>12. gone' \subseteq Requesters
    BY <1>0, <2>1
  <2> QED
    BY <1>0, <1>1, <2>1, <2>10, <2>11, <2>12, Zenon
<1>11. ASSUME NEW r \in Requesters, NEW i \in DOMAIN probe[r], Resolve(r, i)  PROVE BacktraceInv'
  <2>1. UNCHANGED <<slot, line, stage, gone, runs>>
    BY <1>11, Zenon DEF Resolve
  <2>2. PICK addresses \in Lookups :
          SetProbe(r, i, [Begun EXCEPT !.at = IF Resolves(addresses) THEN "running" ELSE "done",
                                       !.public = addresses # <<>> /\ "private" \notin Range(addresses)])
    BY <1>11, Zenon DEF Resolve
  <2>3. PICK q : q = [Begun EXCEPT !.at = IF Resolves(addresses) THEN "running" ELSE "done",
                                   !.public = addresses # <<>> /\ "private" \notin Range(addresses)]
    OBVIOUS
  <2>4. GoodProbe(q) /\ SetProbe(r, i, q)
    BY <2>2, <2>3, ResolvedGood, Zenon
  <2>5. Probes
    BY <2>4, TargetStepGood DEF Probes
  <2> QED
    BY <1>0, <1>1, <1>3, <2>1, <2>5, Zenon
<1>12. ASSUME NEW r \in Requesters, NEW i \in DOMAIN probe[r], Judge(r, i)  PROVE BacktraceInv'
  <2>1. UNCHANGED <<slot, line, stage, gone, runs>> /\ probe[r][i].at = "running"
    BY <1>12, Zenon DEF Judge
  <2>2. PICK t \in Traces : SetProbe(r, i, [probe[r][i] EXCEPT !.at = "done", !.result = t])
    BY <1>12, Zenon DEF Judge
  <2>3. GoodProbe(probe[r][i])
    BY <1>0
  <2>4. PICK p : p = probe[r][i]
    OBVIOUS
  <2>5. GoodProbe([p EXCEPT !.at = "done", !.result = t])
    BY <2>1, <2>3, <2>4, JudgedGood, Zenon
  <2>6. PICK q : q = [p EXCEPT !.at = "done", !.result = t]
    OBVIOUS
  <2>7. GoodProbe(q) /\ SetProbe(r, i, q)
    BY <2>2, <2>4, <2>5, <2>6, Zenon
  <2>8. Probes
    BY <2>7, TargetStepGood DEF Probes
  <2> QED
    BY <1>0, <1>1, <1>3, <2>1, <2>8, Zenon
<1>13. ASSUME NEW r \in Requesters, Reply(r)  PROVE BacktraceInv'
  <2>1. /\ stage[r] = "tracing" /\ slot' = Nil /\ StageOf(r, "idle") /\ gone' = gone \ {r}
        /\ probe' = [probe EXCEPT ![r] = <<>>] /\ UNCHANGED <<line, runs>>
    BY <1>13, Zenon DEF Reply
  <2>2. "idle" \in Stages
    BY DEF Stages
  <2>3. stage' \in [Requesters -> Stages]
    BY <1>5, <2>1, <2>2
  <2>4. \A s \in Requesters : stage'[s] = IF s = r THEN "idle" ELSE stage[s]
    BY <1>4, <2>1
  <2>5. \A s \in Requesters : slot' = s <=> stage'[s] = "tracing"
    BY <1>0, <2>1, <2>4, BacktraceAssumption
  <2>6. \A s \in Requesters : (\E i \in 1..Len(line') : line'[i] = s) <=> stage'[s] = "waiting"
    BY <1>0, <2>1, <2>4
  <2>7. Turns
    BY <1>0, <2>1, <2>3, <2>5, <2>6, Zenon DEF Turns
  <2>8. Probes
    BY <1>6, <2>1
  <2>9. gone' \subseteq Requesters
    BY <1>0, <2>1
  <2> QED
    BY <1>0, <1>1, <2>1, <2>7, <2>8, <2>9, Zenon
<1>14. ASSUME NEW r \in Requesters, GoAway(r)  PROVE BacktraceInv'
  <2>1. gone' = gone \cup {r} /\ UNCHANGED <<slot, line, stage, probe, runs>>
    BY <1>14 DEF GoAway
  <2>2. gone' \subseteq Requesters
    BY <1>0, <2>1
  <2> QED
    BY <1>0, <1>1, <1>2, <1>3, <2>1, <2>2, Zenon
<1> QED
  BY <1>7, <1>8, <1>9, <1>10, <1>11, <1>12, <1>13, <1>14, Zenon
     DEF BacktraceNext, RequesterStep, TargetStep

-----------------------------------------------------------------------------
(* The theorems. *)

\* What the two services keep, whichever is explored.
ProbesInv == SniInv /\ BacktraceInv /\ service \in {"sni", "backtrace"}

\* It holds in every state of the specification: results are earned, the slot
\* is held by the one that traces, and the line holds who waits.
THEOREM ProbesInvariant == Spec => []ProbesInv
<1>1. Init => ProbesInv
  BY SniInitInv, BacktraceInitInv DEF Init, ProbesInv
<1>2. ProbesInv /\ [Next]_vars => ProbesInv'
  <2> SUFFICES ASSUME ProbesInv, [Next]_vars  PROVE ProbesInv'
    OBVIOUS
  <2>1. [SniNext]_sniVars /\ [BacktraceNext]_backtraceVars /\ UNCHANGED service
    BY Zenon DEF Next, vars
  <2>2. SniInv'
    BY <2>1, SniNextInv DEF ProbesInv
  <2>3. BacktraceInv'
    BY <2>1, BacktraceNextInv DEF ProbesInv
  <2> QED
    BY <2>1, <2>2, <2>3, Zenon DEF ProbesInv
<1> QED
  BY <1>1, <1>2, PTL DEF Spec

\* The types of both services: the slot is held by the requester that traces and
\* nobody else, and the line holds those that wait, each once.
THEOREM ProbesTypes == Spec => []TypeOK
<1>1. ProbesInv => TypeOK
  BY SniInvImplies, BacktraceInvImplies, Zenon DEF ProbesInv, TypeOK
<1> QED
  BY <1>1, ProbesInvariant, PTL

\* Every verdict on a Reality destination, given or stored, is what was observed
\* of it, and the answer as a whole is no better than its parts.
THEOREM VerdictsAreEarned == Spec => []VerdictIsEarned
<1>1. ProbesInv => VerdictIsEarned
  BY SniInvImplies DEF ProbesInv
<1> QED
  BY <1>1, ProbesInvariant, PTL

\* A route reported as a success reaches the checkpoint, through a public
\* address, whatever the order of the hops in the payload.
THEOREM SuccessesAreEarned == Spec => []SuccessIsEarned
<1>1. ProbesInv => SuccessIsEarned
  BY BacktraceInvImplies DEF ProbesInv
<1> QED
  BY <1>1, ProbesInvariant, PTL
=============================================================================
