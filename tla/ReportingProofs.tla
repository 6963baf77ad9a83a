--------------------------- MODULE ReportingProofs ---------------------------
(***************************************************************************)
(* Proofs about Reporting.                                                 *)
(*                                                                         *)
(* For every set of methods, every interval and any number of requests:    *)
(* the validators accept every report, the intervals partition the         *)
(* completed requests, and a lost heartbeat is told on stderr.  What the   *)
(* intervals count is a sum over the rows, so that the first part is about *)
(* sums.                                                                   *)
(***************************************************************************)
EXTENDS Reporting, FiniteSetTheorems, TLAPS

-----------------------------------------------------------------------------
(* Sums.                                                                   *)

\* Equations of a sum over the sets in D, which are those the sum reaches.
Sums(g, f, D) ==
    \A s \in D :
        g[s] = IF s = {} THEN 0
               ELSE f[CHOOSE x \in s : TRUE] + g[s \ {CHOOSE x \in s : TRUE}]

Small(S, n) == {s \in SUBSET S : Cardinality(s) <= n}

\* A non-empty set of naturals has a least element.
LEMMA LeastNat ==
    ASSUME NEW S, S \subseteq Nat, S # {}
    PROVE  \E x \in S : \A y \in S : x <= y
<1>1. PICK x \in S : \A y \in S : ~(<<y, x>> \in OpToRel(<, Nat))
  BY NatLessThanWellFounded, WFMin, Zenon
<1>2. \A y \in S : x <= y
  <2> SUFFICES ASSUME NEW y \in S PROVE x <= y
    OBVIOUS
  <2>1. ~(y < x)
    BY <1>1 DEF OpToRel
  <2> QED
    BY <2>1
<1> QED
  BY <1>2

\* A part of a finite set, without one of its elements.
LEMMA Parts ==
    ASSUME NEW S, IsFiniteSet(S), NEW s \in SUBSET S
    PROVE  /\ IsFiniteSet(s) /\ Cardinality(s) \in Nat
           /\ Cardinality(s) <= Cardinality(S)
           /\ Cardinality(s) = 0 <=> s = {}
           /\ \A x \in s : /\ s \ {x} \in SUBSET S
                           /\ Cardinality(s \ {x}) = Cardinality(s) - 1
<1>1. IsFiniteSet(s) /\ Cardinality(s) <= Cardinality(S)
  BY FS_Subset
<1>2. Cardinality(s) \in Nat /\ (Cardinality(s) = 0 <=> s = {})
  BY <1>1, FS_CardinalityType, FS_EmptySet
<1>3. ASSUME NEW x \in s
      PROVE  s \ {x} \in SUBSET S /\ Cardinality(s \ {x}) = Cardinality(s) - 1
  BY <1>1, <1>3, FS_RemoveElement
<1> QED
  BY <1>1, <1>2, <1>3

\* The element a sum takes next.
LEMMA Chosen ==
    ASSUME NEW s, s # {}
    PROVE  (CHOOSE x \in s : TRUE) \in s
  OBVIOUS

\* The equations have a solution on the parts of up to n elements.
LEMMA SmallSums ==
    ASSUME NEW S, IsFiniteSet(S), NEW f, NEW n \in Nat
    PROVE  \E g : Sums(g, f, Small(S, n))
<1> DEFINE bad == {m \in Nat : ~ \E g : Sums(g, f, Small(S, m))}
<1> SUFFICES ASSUME bad # {} PROVE FALSE
  OBVIOUS
<1>1. PICK m \in bad : \A y \in bad : m <= y
  BY LeastNat
<1>2. m # 0
  <2> SUFFICES \E g : Sums(g, f, Small(S, 0))
    BY <1>1
  <2>1. \A s \in Small(S, 0) : s = {}
    BY Parts DEF Small
  <2>2. Sums([s \in Small(S, 0) |-> 0], f, Small(S, 0))
    BY <2>1 DEF Sums
  <2> QED
    BY <2>2
<1>3. m - 1 \in Nat /\ m - 1 \notin bad
  BY <1>1, <1>2
<1>4. PICK g : Sums(g, f, Small(S, m - 1))
  BY <1>3
<1> DEFINE h == [s \in Small(S, m) |->
                    IF s = {} THEN 0
                    ELSE f[CHOOSE x \in s : TRUE] + g[s \ {CHOOSE x \in s : TRUE}]]
<1>5. Sums(h, f, Small(S, m))
  <2> SUFFICES ASSUME NEW s \in Small(S, m), s # {}
               PROVE  h[s] = f[CHOOSE x \in s : TRUE] + h[s \ {CHOOSE x \in s : TRUE}]
    BY DEF Sums
  <2>1. PICK x : x = CHOOSE y \in s : TRUE
    OBVIOUS
  <2>2. x \in s
    BY <2>1, Chosen
  <2>3. s \ {x} \in Small(S, m - 1) /\ s \ {x} \in Small(S, m)
    BY <2>2, <1>1, Parts DEF Small
  <2>4. PICK u : u = s \ {x}
    OBVIOUS
  <2>5. h[u] = g[u]
    BY <1>4, <2>3, <2>4 DEF Sums
  <2> QED
    BY <2>1, <2>4, <2>5
<1> QED
  BY <1>1, <1>5

\* What a sum is: a solution of its equations on all parts.
LEMMA SumIs ==
    ASSUME NEW S, IsFiniteSet(S), NEW f
    PROVE  \E g : Sums(g, f, SUBSET S) /\ SumFunctionOnSet(f, S) = g[S]
<1>1. Small(S, Cardinality(S)) = SUBSET S /\ Cardinality(S) \in Nat
  BY Parts, FS_CardinalityType DEF Small
<1>2. PICK g : Sums(g, f, SUBSET S)
  <2>1. \E g : Sums(g, f, Small(S, Cardinality(S)))
    BY <1>1, SmallSums
  <2> QED
    BY <1>1, <2>1
<1> DEFINE step(i) == [s \in SUBSET S |->
                        IF s = {} THEN 0
                        ELSE f[CHOOSE x \in s : TRUE] + i[s \ {CHOOSE x \in s : TRUE}]]
           h == CHOOSE i : i = step(i)
           k == [s \in SUBSET S |-> g[s]]
<1>3. k = step(k)
  <2> SUFFICES ASSUME NEW s \in SUBSET S PROVE k[s] = step(k)[s]
    OBVIOUS
  <2>1. CASE s = {}
    BY <1>2, <2>1 DEF Sums
  <2>2. CASE s # {}
    <3>1. s \ {CHOOSE x \in s : TRUE} \in SUBSET S
      OBVIOUS
    <3> QED
      BY <1>2, <2>2, <3>1 DEF Sums
  <2> QED
    BY <2>1, <2>2
<1> HIDE DEF k
<1>4. h = step(h)
  BY <1>3
<1>5. SumFunctionOnSet(f, S) = h[S]
  BY DEF SumFunctionOnSet, FoldFunctionOnSet, MapThenFoldSet
<1> HIDE DEF h
<1>6. Sums(h, f, SUBSET S)
  BY <1>4 DEF Sums
<1> QED
  BY <1>5, <1>6

\* The solution is the only one.
LEMMA SumsAgree ==
    ASSUME NEW S, IsFiniteSet(S), NEW f, NEW g, NEW h, NEW T \in SUBSET S,
           Sums(g, f, SUBSET S), Sums(h, f, SUBSET T)
    PROVE  g[T] = h[T]
<1> DEFINE bad == {n \in Nat : \E s \in SUBSET T : Cardinality(s) = n /\ g[s] # h[s]}
<1>1. bad = {}
  <2> SUFFICES ASSUME bad # {} PROVE FALSE
    OBVIOUS
  <2>1. PICK n \in bad : \A y \in bad : n <= y
    BY LeastNat
  <2>2. PICK s \in SUBSET T : Cardinality(s) = n /\ g[s] # h[s]
    BY <2>1
  <2>3. s # {}
    BY <2>2 DEF Sums
  <2>4. PICK x : x = CHOOSE y \in s : TRUE
    OBVIOUS
  <2>5. x \in s
    BY <2>3, <2>4, Chosen
  <2>6. PICK u : u = s \ {x}
    OBVIOUS
  <2>7. u \in SUBSET T /\ Cardinality(u) \in Nat /\ Cardinality(u) < n
    BY <2>1, <2>2, <2>5, <2>6, Parts
  <2>8. g[u] = h[u]
    BY <2>1, <2>7
  <2>9. g[s] = f[x] + g[u] /\ h[s] = f[x] + h[u]
    BY <2>3, <2>4, <2>6 DEF Sums
  <2> QED
    BY <2>2, <2>8, <2>9
<1>2. Cardinality(T) \in Nat
  BY Parts
<1> QED
  BY <1>1, <1>2

\* A sum without elements, and the element a sum takes first.
LEMMA SumEmpty == \A f : SumFunctionOnSet(f, {}) = 0
  BY SumIs, FS_EmptySet DEF Sums

LEMMA SumTakes ==
    ASSUME NEW S, IsFiniteSet(S), S # {}, NEW f
    PROVE  \E x \in S :
             SumFunctionOnSet(f, S) = f[x] + SumFunctionOnSet(f, S \ {x})
<1>1. PICK x : x = CHOOSE y \in S : TRUE
  OBVIOUS
<1>2. x \in S
  BY <1>1, Chosen
<1>3. PICK T : T = S \ {x}
  OBVIOUS
<1>4. IsFiniteSet(T) /\ T \in SUBSET S
  BY <1>3, FS_Subset
<1>5. PICK g : Sums(g, f, SUBSET S) /\ SumFunctionOnSet(f, S) = g[S]
  BY SumIs
<1>6. PICK h : Sums(h, f, SUBSET T) /\ SumFunctionOnSet(f, T) = h[T]
  BY <1>4, SumIs
<1>7. g[T] = h[T]
  BY <1>4, <1>5, <1>6, SumsAgree
<1>8. g[S] = f[x] + g[T]
  BY <1>1, <1>3, <1>5 DEF Sums
<1> QED
  BY <1>2, <1>3, <1>5, <1>6, <1>7, <1>8

\* A sum of integers is one, and any element may be taken first.
LEMMA SumAny ==
    ASSUME NEW S, IsFiniteSet(S), NEW f, \A x \in S : f[x] \in Int
    PROVE  /\ SumFunctionOnSet(f, S) \in Int
           /\ \A x \in S :
                SumFunctionOnSet(f, S) = f[x] + SumFunctionOnSet(f, S \ {x})
<1> DEFINE sum(s)  == SumFunctionOnSet(f, s)
           fine(s) == /\ sum(s) \in Int
                      /\ \A x \in s : sum(s) = f[x] + sum(s \ {x})
           bad     == {n \in Nat : \E s \in SUBSET S : Cardinality(s) = n /\ ~fine(s)}
<1>1. bad = {}
  <2> SUFFICES ASSUME bad # {} PROVE FALSE
    OBVIOUS
  <2>1. PICK n \in bad : \A y \in bad : n <= y
    BY LeastNat
  <2>2. PICK s \in SUBSET S : Cardinality(s) = n /\ ~fine(s)
    BY <2>1
  <2>3. IsFiniteSet(s)
    BY Parts
  <2>4. s # {}
    BY <2>2, SumEmpty
  <2>5. PICK x \in s : sum(s) = f[x] + sum(s \ {x})
    BY <2>3, <2>4, SumTakes
  <2>6. ASSUME NEW u \in SUBSET s, u # s
        PROVE  fine(u)
    <3>1. u \in SUBSET S /\ Cardinality(u) \in Nat /\ Cardinality(u) < n
      <4>1. Cardinality(u) <= Cardinality(s) /\ Cardinality(s) # Cardinality(u)
        BY <2>3, <2>6, FS_Subset
      <4> QED
        BY <4>1, <2>1, <2>2, Parts
    <3> QED
      BY <2>1, <3>1
  <2>7. sum(s) \in Int
    BY <2>5, <2>6
  <2>8. ASSUME NEW y \in s, y # x
        PROVE  sum(s) = f[y] + sum(s \ {y})
    <3>1. sum(s \ {x}) = f[y] + sum((s \ {x}) \ {y})
      BY <2>6, <2>8
    <3>2. sum(s \ {y}) = f[x] + sum((s \ {y}) \ {x})
      BY <2>6, <2>8
    <3>3. (s \ {x}) \ {y} = (s \ {y}) \ {x}
      OBVIOUS
    <3>4. sum((s \ {y}) \ {x}) \in Int
      BY <2>6, <2>8
    <3>5. f[x] \in Int /\ f[y] \in Int
      OBVIOUS
    <3>6. PICK a, b, c : /\ a = sum(s \ {x}) /\ b = sum(s \ {y})
                         /\ c = sum((s \ {y}) \ {x})
      OBVIOUS
    <3>7. a = f[y] + c /\ b = f[x] + c /\ c \in Int
      BY <3>1, <3>2, <3>3, <3>4, <3>6
    <3>8. f[x] + a = f[y] + b
      BY <3>5, <3>7
    <3> QED
      BY <2>5, <3>6, <3>8
  <2> QED
    BY <2>2, <2>5, <2>7, <2>8
<1>2. Cardinality(S) \in Nat
  BY FS_CardinalityType
<1>3. fine(S)
  BY <1>1, <1>2
<1> QED
  BY <1>3

\* A sum of naturals is one, and no element exceeds it.
LEMMA SumNat ==
    ASSUME NEW S, IsFiniteSet(S), NEW f, \A x \in S : f[x] \in Nat
    PROVE  /\ SumFunctionOnSet(f, S) \in Nat
           /\ \A x \in S : f[x] <= SumFunctionOnSet(f, S)
<1> DEFINE bad == {n \in Nat : \E s \in SUBSET S :
                      Cardinality(s) = n /\ SumFunctionOnSet(f, s) \notin Nat}
<1>1. bad = {}
  <2> SUFFICES ASSUME bad # {} PROVE FALSE
    OBVIOUS
  <2>1. PICK n \in bad : \A y \in bad : n <= y
    BY LeastNat
  <2>2. PICK s \in SUBSET S : Cardinality(s) = n /\ SumFunctionOnSet(f, s) \notin Nat
    BY <2>1
  <2>3. IsFiniteSet(s) /\ s # {}
    <3>1. IsFiniteSet(s)
      BY Parts
    <3>2. ASSUME s = {} PROVE FALSE
      <4>1. SumFunctionOnSet(f, s) = 0
        BY <3>2, SumEmpty
      <4> QED
        BY <2>2, <4>1
    <3> QED
      BY <3>1, <3>2
  <2>4. PICK x \in s : SumFunctionOnSet(f, s) = f[x] + SumFunctionOnSet(f, s \ {x})
    BY <2>3, SumTakes
  <2>5. PICK u : u = s \ {x}
    OBVIOUS
  <2>6. u \in SUBSET S /\ Cardinality(u) \in Nat /\ Cardinality(u) < n
    BY <2>1, <2>2, <2>4, <2>5, Parts
  <2>7. SumFunctionOnSet(f, u) \in Nat /\ f[x] \in Nat
    BY <2>1, <2>4, <2>6
  <2> QED
    BY <2>2, <2>4, <2>5, <2>7
<1>2. \A s \in SUBSET S : SumFunctionOnSet(f, s) \in Nat
  BY <1>1, Parts
<1>3. ASSUME NEW x \in S
      PROVE  f[x] <= SumFunctionOnSet(f, S)
  <2>1. PICK a, b : a = SumFunctionOnSet(f, S) /\ b = SumFunctionOnSet(f, S \ {x})
    OBVIOUS
  <2>2. a = f[x] + b
    BY <2>1, SumAny
  <2>3. b \in Nat /\ f[x] \in Nat
    BY <1>2, <2>1
  <2> QED
    BY <2>1, <2>2, <2>3
<1> QED
  BY <1>2, <1>3

\* The sum of differences is the difference of the sums.
LEMMA SumDifference ==
    ASSUME NEW S, IsFiniteSet(S), NEW f, NEW g, NEW h,
           \A x \in S : f[x] \in Int /\ g[x] \in Int /\ h[x] = g[x] - f[x]
    PROVE  SumFunctionOnSet(h, S) = SumFunctionOnSet(g, S) - SumFunctionOnSet(f, S)
<1> DEFINE same(s) == SumFunctionOnSet(h, s)
                         = SumFunctionOnSet(g, s) - SumFunctionOnSet(f, s)
           bad == {n \in Nat : \E s \in SUBSET S : Cardinality(s) = n /\ ~same(s)}
<1>1. bad = {}
  <2> SUFFICES ASSUME bad # {} PROVE FALSE
    OBVIOUS
  <2>1. PICK n \in bad : \A y \in bad : n <= y
    BY LeastNat
  <2>2. PICK s \in SUBSET S : Cardinality(s) = n /\ ~same(s)
    BY <2>1
  <2>3. IsFiniteSet(s) /\ s # {}
    <3>1. IsFiniteSet(s)
      BY Parts
    <3>2. ASSUME s = {} PROVE FALSE
      <4>1. /\ SumFunctionOnSet(f, s) = 0 /\ SumFunctionOnSet(g, s) = 0
            /\ SumFunctionOnSet(h, s) = 0
        BY <3>2, SumEmpty
      <4> QED
        BY <2>2, <4>1
    <3> QED
      BY <3>1, <3>2
  <2>4. PICK x : x \in s
    BY <2>3
  <2>5. PICK u : u = s \ {x}
    OBVIOUS
  <2>6. IsFiniteSet(u) /\ u \in SUBSET S /\ Cardinality(u) \in Nat /\ Cardinality(u) < n
    BY <2>1, <2>2, <2>4, <2>5, Parts
  <2>7. same(u)
    BY <2>1, <2>6
  <2>8. /\ SumFunctionOnSet(h, s) = h[x] + SumFunctionOnSet(h, u)
        /\ SumFunctionOnSet(g, s) = g[x] + SumFunctionOnSet(g, u)
        /\ SumFunctionOnSet(f, s) = f[x] + SumFunctionOnSet(f, u)
    BY <2>3, <2>4, <2>5, SumAny
  <2>9. PICK a, b, c : /\ a = SumFunctionOnSet(f, u)
                       /\ b = SumFunctionOnSet(g, u)
                       /\ c = SumFunctionOnSet(h, u)
    OBVIOUS
  <2>10. a \in Int /\ b \in Int
    BY <2>6, <2>9, SumAny
  <2>11. c = b - a /\ h[x] = g[x] - f[x] /\ f[x] \in Int /\ g[x] \in Int
    BY <2>4, <2>7, <2>9
  <2>12. h[x] + c = (g[x] + b) - (f[x] + a)
    BY <2>10, <2>11
  <2> QED
    BY <2>2, <2>8, <2>9, <2>12
<1>2. Cardinality(S) \in Nat
  BY FS_CardinalityType
<1> QED
  BY <1>1, <1>2

\* Functions that agree have the same sum.
LEMMA SumSame ==
    ASSUME NEW S, IsFiniteSet(S), NEW f, NEW g,
           \A x \in S : f[x] \in Int /\ g[x] = f[x]
    PROVE  SumFunctionOnSet(g, S) = SumFunctionOnSet(f, S)
<1>1. PICK z : z = [x \in S |-> 0]
  OBVIOUS
<1>2. \A x \in S : z[x] = 0
  BY <1>1
<1>3. SumFunctionOnSet(z, S) = SumFunctionOnSet(f, S) - SumFunctionOnSet(f, S)
  BY <1>2, SumDifference
<1>4. SumFunctionOnSet(g, S) = SumFunctionOnSet(f, S) - SumFunctionOnSet(z, S)
  BY <1>2, SumDifference
<1>5. SumFunctionOnSet(f, S) \in Int
  BY SumAny
<1> QED
  BY <1>3, <1>4, <1>5

\* A change of one element changes the sum by as much.
LEMMA SumChange ==
    ASSUME NEW S, IsFiniteSet(S), NEW y \in S, NEW f, NEW g,
           \A x \in S : f[x] \in Int /\ g[x] \in Int,
           \A x \in S \ {y} : g[x] = f[x]
    PROVE  SumFunctionOnSet(g, S) = SumFunctionOnSet(f, S) + (g[y] - f[y])
<1>1. PICK T : T = S \ {y}
  OBVIOUS
<1>2. IsFiniteSet(T) /\ T \in SUBSET S
  BY <1>1, FS_Subset
<1>3. PICK a, b : a = SumFunctionOnSet(f, T) /\ b = SumFunctionOnSet(g, T)
  OBVIOUS
<1>4. b = a
  BY <1>1, <1>2, <1>3, SumSame
<1>5. a \in Int
  BY <1>2, <1>3, SumAny
<1>6. SumFunctionOnSet(f, S) = f[y] + a /\ SumFunctionOnSet(g, S) = g[y] + b
  BY <1>1, <1>3, SumAny
<1> QED
  BY <1>4, <1>5, <1>6

\* A sum grows with its elements.
LEMMA SumGrows ==
    ASSUME NEW S, IsFiniteSet(S), NEW f, NEW g,
           \A x \in S : f[x] \in Int /\ g[x] \in Int /\ f[x] <= g[x]
    PROVE  SumFunctionOnSet(f, S) <= SumFunctionOnSet(g, S)
<1>1. PICK h : h = [x \in S |-> g[x] - f[x]]
  OBVIOUS
<1>2. \A x \in S : h[x] \in Nat /\ h[x] = g[x] - f[x]
  BY <1>1
<1>3. SumFunctionOnSet(h, S) \in Nat
  BY <1>2, SumNat
<1>4. SumFunctionOnSet(h, S) = SumFunctionOnSet(g, S) - SumFunctionOnSet(f, S)
  BY <1>2, SumDifference
<1>5. SumFunctionOnSet(f, S) \in Int /\ SumFunctionOnSet(g, S) \in Int
  BY SumAny
<1> QED
  BY <1>3, <1>4, <1>5

-----------------------------------------------------------------------------
(* The inductive invariant.                                                *)

\* A row counts what began and ended in it; a logical row classifies nothing, an
\* HTTP row every response.
Consistent(row) ==
    /\ row.inFlight = row.started - Completed(row)
    /\ row.duration = Completed(row)
    /\ row.classified \in {0, row.succeeded}

\* The requests of a client whose attempt is under way.
Sent(c) == [m \in Methods |-> flight[<<<<c, m>>, "sent">>]]

\* The rows agree with the requests in flight.
FlightsAgree ==
    /\ \A k \in Kind :
         rows[k].inFlight = flight[<<k, "started">>] + flight[<<k, "sent">>]
                            + flight[<<k, "answered">>] + flight[<<k, "refused">>]
    /\ \A c \in Clients : rows[Http(c)].inFlight = SumFunctionOnSet(Sent(c), Methods)

RowsAgree ==
    /\ \A c \in Clients : rows[Http(c)].classified = rows[Http(c)].succeeded
    /\ \A k \in Kind : rows[k].classified = 0
    /\ \A k \in RowKeys : Consistent(rows[k])

\* The session's observation is an earlier state of the counters.
PrevIsEarlier ==
    prev # None =>
        /\ \A c \in Clients : prev.rows[Http(c)].classified = prev.rows[Http(c)].succeeded
        /\ \A k \in Kind : prev.rows[k].classified = 0
        /\ \A k \in RowKeys : /\ Consistent(prev.rows[k])
                              /\ prev.rows[k].succeeded <= rows[k].succeeded
                              /\ prev.rows[k].failed <= rows[k].failed

\* Nothing is counted before the first observation.
CountsFromFirst == prev = None => counted = 0

\* A status in the making or in the file is not from the future.
StatusIsPast ==
    \A s \in {draft, file} : s # None => s.observedAt = s.since /\ s.since <= now

\* The last heartbeat was written, or stderr was told about then.
HeartbeatIsHeard ==
    \/ heard = beat
    \/ told # None /\ beat - told < Quiet

RInv ==
    /\ TypeOK /\ FlightsAgree /\ RowsAgree /\ PrevIsEarlier /\ CountsFromFirst
    /\ StatusIsPast /\ HeartbeatIsHeard
    /\ ReportsAreReadable /\ IntervalsPartition /\ OnlyCyclesEndTheDaemon

-----------------------------------------------------------------------------
(* Requests.                                                               *)

\* Rows: those of the kinds of requests, and one of HTTP attempts per client.
LEMMA Keys ==
    /\ \A k \in Kind : /\ k \in RowKeys /\ k[1] \in Clients /\ k[2] \in Methods
                       /\ k = <<k[1], k[2]>>
                       /\ \A c \in Clients : k # Http(c)
    /\ \A c \in Clients : Http(c) \in RowKeys /\ Http(c)[1] = c
    /\ \A k \in RowKeys : k \in Kind \/ \E c \in Clients : k = Http(c)
    /\ IsFiniteSet(RowKeys) /\ IsFiniteSet(Methods)
<1>1. IsFiniteSet(Clients) /\ IsFiniteSet(Methods) /\ "http" \notin Methods
  BY ReportingAssumption
<1>2. IsFiniteSet(RowKeys)
  <2>1. IsFiniteSet(Methods \cup {"http"})
    BY <1>1, FS_AddElement
  <2> QED
    BY <1>1, <2>1, FS_Product DEF RowKeys
<1> QED
  BY <1>1, <1>2 DEF Kind, RowKeys, Http

\* What measure does to the row of the request, and to the others.
LEMMA BegunRows ==
    ASSUME NEW k \in RowKeys, rows \in [RowKeys -> Row]
    PROVE  /\ Begun(k) \in [RowKeys -> Row]
           /\ Begun(k)[k].started = rows[k].started + 1
           /\ Begun(k)[k].inFlight = rows[k].inFlight + 1
           /\ Begun(k)[k].succeeded = rows[k].succeeded
           /\ Begun(k)[k].failed = rows[k].failed
           /\ Begun(k)[k].duration = rows[k].duration
           /\ Begun(k)[k].classified = rows[k].classified
           /\ \A j \in RowKeys \ {k} : Begun(k)[j] = rows[j]
<1>1. PICK r : r = rows[k]
  OBVIOUS
<1>2. r \in Row
  BY <1>1
<1>3. PICK q : q = [started |-> r.started + 1, succeeded |-> r.succeeded,
                    failed |-> r.failed, inFlight |-> r.inFlight + 1,
                    duration |-> r.duration, classified |-> r.classified]
  OBVIOUS
<1>4. q \in Row
  BY <1>2, <1>3 DEF Row
<1>5. Begun(k) = [rows EXCEPT ![k] = q]
  <2>1. Begun(k)[k] = q
    BY <1>1, <1>2, <1>3 DEF Begun, Row
  <2> QED
    BY <2>1 DEF Begun
<1>6. Begun(k)[k] = q /\ \A j \in RowKeys \ {k} : Begun(k)[j] = rows[j]
  BY <1>5
<1>7. Begun(k) \in [RowKeys -> Row]
  BY <1>4, <1>5
<1> QED
  BY <1>1, <1>3, <1>6, <1>7

LEMMA EndedRows ==
    ASSUME NEW k \in RowKeys, NEW ok \in BOOLEAN, NEW class \in {0, 1},
           rows \in [RowKeys -> Row], rows[k].inFlight > 0
    PROVE  /\ Ended(k, ok, class) \in [RowKeys -> Row]
           /\ Ended(k, ok, class)[k].started = rows[k].started
           /\ Ended(k, ok, class)[k].inFlight = rows[k].inFlight - 1
           /\ Ended(k, ok, class)[k].succeeded
                 = rows[k].succeeded + (IF ok THEN 1 ELSE 0)
           /\ Ended(k, ok, class)[k].failed = rows[k].failed + (IF ok THEN 0 ELSE 1)
           /\ Ended(k, ok, class)[k].duration = rows[k].duration + 1
           /\ Ended(k, ok, class)[k].classified = rows[k].classified + class
           /\ \A j \in RowKeys \ {k} : Ended(k, ok, class)[j] = rows[j]
<1>1. PICK r : r = rows[k]
  OBVIOUS
<1>2. r \in Row
  BY <1>1
<1>3. PICK y, n : y = (IF ok THEN 1 ELSE 0) /\ n = (IF ok THEN 0 ELSE 1)
  OBVIOUS
<1>4. PICK q : q = [started |-> r.started, succeeded |-> r.succeeded + y,
                    failed |-> r.failed + n, inFlight |-> r.inFlight - 1,
                    duration |-> r.duration + 1, classified |-> r.classified + class]
  OBVIOUS
<1>5. q \in Row
  BY <1>1, <1>2, <1>3, <1>4 DEF Row
<1>6. Ended(k, ok, class)[k] = q
  BY <1>1, <1>2, <1>3, <1>4 DEF Ended, Row
<1>7. Ended(k, ok, class) = [rows EXCEPT ![k] = q]
  BY <1>6 DEF Ended
<1>8. \A j \in RowKeys \ {k} : Ended(k, ok, class)[j] = rows[j]
  BY <1>7
<1>9. Ended(k, ok, class) \in [RowKeys -> Row]
  BY <1>5, <1>7
<1> QED
  BY <1>1, <1>3, <1>4, <1>6, <1>8, <1>9

\* The stages of the requests are counted.
LEMMA SentCounts ==
    ASSUME flight \in [Kind \X Stage -> Nat], NEW c \in Clients
    PROVE  /\ SumFunctionOnSet(Sent(c), Methods) \in Nat
           /\ \A m \in Methods : /\ Sent(c)[m] = flight[<<<<c, m>>, "sent">>]
                                 /\ Sent(c)[m] \in Nat
                                 /\ Sent(c)[m] <= SumFunctionOnSet(Sent(c), Methods)
<1>1. PICK f : f = Sent(c)
  OBVIOUS
<1>2. \A m \in Methods : f[m] = flight[<<<<c, m>>, "sent">>] /\ f[m] \in Nat
  BY <1>1 DEF Sent, Kind, Stage
<1> QED
  BY <1>1, <1>2, Keys, SumNat

\* When one kind of request changes its stage, one client's count changes with it.
LEMMA SentChanges ==
    ASSUME flight \in [Kind \X Stage -> Nat], (flight \in [Kind \X Stage -> Nat])',
           NEW kind \in Kind,
           \A k \in Kind \ {kind} : flight'[<<k, "sent">>] = flight[<<k, "sent">>]
    PROVE  /\ SumFunctionOnSet(Sent(kind[1]), Methods)'
                = SumFunctionOnSet(Sent(kind[1]), Methods)
                  + (flight'[<<kind, "sent">>] - flight[<<kind, "sent">>])
           /\ \A c \in Clients \ {kind[1]} :
                SumFunctionOnSet(Sent(c), Methods)' = SumFunctionOnSet(Sent(c), Methods)
<1>0. PICK b \in Clients, d \in Methods : kind = <<b, d>>
  BY DEF Kind
<1>1. PICK f, g : f = Sent(b) /\ g = Sent(b)'
  OBVIOUS
<1>2. \A m \in Methods : /\ f[m] = flight[<<<<b, m>>, "sent">>]
                         /\ g[m] = flight'[<<<<b, m>>, "sent">>]
                         /\ f[m] \in Int /\ g[m] \in Int
  BY <1>1 DEF Sent, Kind, Stage
<1>3. \A m \in Methods \ {d} : g[m] = f[m]
  <2> SUFFICES ASSUME NEW m \in Methods \ {d} PROVE g[m] = f[m]
    OBVIOUS
  <2>1. <<b, m>> \in Kind \ {kind}
    BY <1>0 DEF Kind
  <2> QED
    BY <1>2, <2>1
<1>4. IsFiniteSet(Methods)
  BY Keys
<1>5. SumFunctionOnSet(g, Methods) = SumFunctionOnSet(f, Methods) + (g[d] - f[d])
  <2>1. \A m \in Methods : f[m] \in Int /\ g[m] \in Int
    BY <1>2
  <2> QED
    BY <2>1, <1>3, <1>4, SumChange
<1>6. ASSUME NEW c \in Clients \ {b}
      PROVE  SumFunctionOnSet(Sent(c), Methods)' = SumFunctionOnSet(Sent(c), Methods)
  <2>1. Sent(c)' = Sent(c)
    BY <1>0 DEF Sent, Kind
  <2> QED
    BY <2>1
<1> QED
  BY <1>0, <1>1, <1>2, <1>5, <1>6

\* One request of a kind leaves a stage for another.
LEMMA StageChanges ==
    ASSUME flight \in [Kind \X Stage -> Nat], NEW kind \in Kind,
           NEW from \in Stage, NEW to \in Stage, from # to, Moves(kind, from, to)
    PROVE  /\ (flight \in [Kind \X Stage -> Nat])'
           /\ flight[<<kind, from>>] > 0
           /\ flight'[<<kind, from>>] = flight[<<kind, from>>] - 1
           /\ flight'[<<kind, to>>] = flight[<<kind, to>>] + 1
           /\ \A k \in Kind, s \in Stage :
                (k # kind \/ s \notin {from, to}) => flight'[<<k, s>>] = flight[<<k, s>>]
  BY DEF Moves

\* No count of requests that ended goes back.
Onward ==
    \A k \in RowKeys : /\ rows[k].succeeded <= rows'[k].succeeded
                       /\ rows[k].failed <= rows'[k].failed

\* Rows stay consistent when a request begins or ends.
LEMMA RowBegins ==
    ASSUME NEW k \in RowKeys, rows \in [RowKeys -> Row], RowsAgree, rows' = Begun(k)
    PROVE  /\ (rows \in [RowKeys -> Row])' /\ RowsAgree' /\ Onward
           /\ rows'[k].inFlight = rows[k].inFlight + 1
           /\ \A j \in RowKeys \ {k} : rows'[j] = rows[j]
<1>1. PICK r : r = rows' /\ r = Begun(k)
  OBVIOUS
<1>2. /\ r \in [RowKeys -> Row]
      /\ r[k].started = rows[k].started + 1
      /\ r[k].inFlight = rows[k].inFlight + 1
      /\ r[k].succeeded = rows[k].succeeded /\ r[k].failed = rows[k].failed
      /\ r[k].duration = rows[k].duration /\ r[k].classified = rows[k].classified
      /\ \A j \in RowKeys \ {k} : r[j] = rows[j]
  BY <1>1, BegunRows
<1>3. rows[k] \in Row
  OBVIOUS
<1>4. Consistent(rows[k])
  BY DEF RowsAgree
<1>5. Consistent(r[k])
  BY <1>2, <1>3, <1>4 DEF Consistent, Completed, Row
<1>6. \A j \in RowKeys : Consistent(r[j])
  BY <1>2, <1>5 DEF RowsAgree
<1>7. \A c \in Clients : r[Http(c)].classified = r[Http(c)].succeeded
  BY <1>2, Keys DEF RowsAgree
<1>8. \A j \in Kind : r[j].classified = 0
  BY <1>2, Keys DEF RowsAgree
<1>9. ASSUME NEW j \in RowKeys
      PROVE  rows[j].succeeded <= r[j].succeeded /\ rows[j].failed <= r[j].failed
  <2>1. rows[j] \in Row
    OBVIOUS
  <2>2. r[j].succeeded = rows[j].succeeded /\ r[j].failed = rows[j].failed
    BY <1>2
  <2> QED
    BY <2>1, <2>2 DEF Row
<1> QED
  BY <1>1, <1>2, <1>6, <1>7, <1>8, <1>9 DEF RowsAgree, Onward

LEMMA RowEnds ==
    ASSUME NEW k \in RowKeys, NEW ok \in BOOLEAN, NEW class \in {0, 1},
           k \in Kind => class = 0,
           k \notin Kind => class = IF ok THEN 1 ELSE 0,
           rows \in [RowKeys -> Row], RowsAgree, rows[k].inFlight > 0,
           rows' = Ended(k, ok, class)
    PROVE  /\ (rows \in [RowKeys -> Row])' /\ RowsAgree' /\ Onward
           /\ rows'[k].inFlight = rows[k].inFlight - 1
           /\ \A j \in RowKeys \ {k} : rows'[j] = rows[j]
<1>1. PICK r : r = rows' /\ r = Ended(k, ok, class)
  OBVIOUS
<1>2. PICK y, n : y = (IF ok THEN 1 ELSE 0) /\ n = (IF ok THEN 0 ELSE 1)
  OBVIOUS
<1>3. /\ r \in [RowKeys -> Row]
      /\ r[k].started = rows[k].started
      /\ r[k].inFlight = rows[k].inFlight - 1
      /\ r[k].succeeded = rows[k].succeeded + y
      /\ r[k].failed = rows[k].failed + n
      /\ r[k].duration = rows[k].duration + 1
      /\ r[k].classified = rows[k].classified + class
      /\ \A j \in RowKeys \ {k} : r[j] = rows[j]
  BY <1>1, <1>2, EndedRows
<1>4. y \in {0, 1} /\ n = 1 - y
  BY <1>2
<1>5. rows[k] \in Row
  OBVIOUS
<1>6. Consistent(rows[k])
  BY DEF RowsAgree
<1>7. k \in Kind => class = 0 /\ rows[k].classified = 0
  BY DEF RowsAgree
<1>8. k \notin Kind => class = y /\ rows[k].classified = rows[k].succeeded
  BY <1>2, Keys DEF RowsAgree
<1>9. Consistent(r[k])
  <2>1. CASE k \in Kind
    BY <2>1, <1>3, <1>4, <1>5, <1>6, <1>7 DEF Consistent, Completed, Row
  <2>2. CASE k \notin Kind
    BY <2>2, <1>3, <1>4, <1>5, <1>6, <1>8 DEF Consistent, Completed, Row
  <2> QED
    BY <2>1, <2>2
<1>10. \A j \in RowKeys : Consistent(r[j])
  BY <1>3, <1>9 DEF RowsAgree
<1>11. \A c \in Clients : r[Http(c)].classified = r[Http(c)].succeeded
  <2> SUFFICES ASSUME NEW c \in Clients
               PROVE  r[Http(c)].classified = r[Http(c)].succeeded
    OBVIOUS
  <2>1. CASE k = Http(c)
    BY <2>1, <1>3, <1>8, Keys
  <2>2. CASE k # Http(c)
    BY <2>2, <1>3, Keys DEF RowsAgree
  <2> QED
    BY <2>1, <2>2
<1>12. \A j \in Kind : r[j].classified = 0
  <2> SUFFICES ASSUME NEW j \in Kind PROVE r[j].classified = 0
    OBVIOUS
  <2>1. CASE k = j
    BY <2>1, <1>3, <1>7
  <2>2. CASE k # j
    BY <2>2, <1>3, Keys DEF RowsAgree
  <2> QED
    BY <2>1, <2>2
<1>13. ASSUME NEW j \in RowKeys
       PROVE  rows[j].succeeded <= r[j].succeeded /\ rows[j].failed <= r[j].failed
  <2>1. rows[j] \in Row
    OBVIOUS
  <2>2. CASE j = k
    BY <2>1, <2>2, <1>3, <1>4 DEF Row
  <2>3. CASE j # k
    BY <2>1, <2>3, <1>3 DEF Row
  <2> QED
    BY <2>2, <2>3
<1> QED
  BY <1>1, <1>3, <1>10, <1>11, <1>12, <1>13 DEF RowsAgree, Onward

\* A step of a request: the counters tell what is in flight, before and after.
LEMMA RequestsAgree ==
    ASSUME rows \in [RowKeys -> Row], flight \in [Kind \X Stage -> Nat],
           FlightsAgree, RowsAgree, RequestStep
    PROVE  /\ (rows \in [RowKeys -> Row])' /\ (flight \in [Kind \X Stage -> Nat])'
           /\ FlightsAgree' /\ RowsAgree' /\ Onward
<1>1. PICK kind \in Kind : \/ LogicalStarts(kind) \/ HttpStarts(kind)
                           \/ HttpEnds(kind) \/ LogicalEnds(kind)
  BY DEF RequestStep
<1>2. /\ kind \in RowKeys /\ kind[1] \in Clients /\ Http(kind[1]) \in RowKeys
      /\ kind # Http(kind[1]) /\ Http(kind[1]) \notin Kind
  BY Keys
<1> DEFINE Sum(c) == SumFunctionOnSet(Sent(c), Methods)
<1>3. \A k \in Kind, s \in Stage : flight[<<k, s>>] \in Nat
  OBVIOUS
<1>4. \A c \in Clients : Sum(c) \in Nat
  BY SentCounts
<1>5. CASE LogicalStarts(kind)
  <2>1. rows' = Begun(kind)
        /\ flight' = [flight EXCEPT ![<<kind, "started">>] = @ + 1]
    BY <1>5 DEF LogicalStarts
  <2>2. /\ (rows \in [RowKeys -> Row])' /\ RowsAgree' /\ Onward
        /\ rows'[kind].inFlight = rows[kind].inFlight + 1
        /\ \A j \in RowKeys \ {kind} : rows'[j] = rows[j]
    BY <1>2, <2>1, RowBegins
  <2>3. /\ (flight \in [Kind \X Stage -> Nat])'
        /\ flight'[<<kind, "started">>] = flight[<<kind, "started">>] + 1
        /\ \A k \in Kind, s \in Stage :
             (k # kind \/ s # "started") => flight'[<<k, s>>] = flight[<<k, s>>]
    BY <2>1 DEF Stage
  <2>4. \A c \in Clients : Sum(c)' = Sum(c)
    <3>1. \A k \in Kind : flight'[<<k, "sent">>] = flight[<<k, "sent">>]
      BY <2>3 DEF Stage
    <3>2. \A c \in Clients : Sent(c)' = Sent(c)
      BY <3>1 DEF Sent, Kind
    <3> QED
      BY <3>2
  <2>5. \A c \in Clients : rows'[Http(c)].inFlight = Sum(c)'
    BY <2>2, <2>4, Keys DEF FlightsAgree
  <2>6. ASSUME NEW k \in Kind
        PROVE  rows'[k].inFlight
                  = flight'[<<k, "started">>] + flight'[<<k, "sent">>]
                    + flight'[<<k, "answered">>] + flight'[<<k, "refused">>]
    <3>1. rows[k].inFlight = flight[<<k, "started">>] + flight[<<k, "sent">>]
                    + flight[<<k, "answered">>] + flight[<<k, "refused">>]
      BY DEF FlightsAgree
    <3>2. CASE k = kind
      BY <1>3, <2>2, <2>3, <3>1, <3>2 DEF Stage
    <3>3. CASE k # kind
      BY <2>2, <2>3, <3>1, <3>3, Keys DEF Stage
    <3> QED
      BY <3>2, <3>3
  <2> QED
    BY <2>2, <2>3, <2>5, <2>6 DEF FlightsAgree
<1>6. ASSUME NEW from \in Stage, NEW to \in Stage, from # to, Moves(kind, from, to),
             NEW d \in {-1, 0, 1},
             flight'[<<kind, "sent">>] = flight[<<kind, "sent">>] + d,
             rows' \in [RowKeys -> Row],
             rows'[Http(kind[1])].inFlight = rows[Http(kind[1])].inFlight + d,
             \A j \in RowKeys \ {Http(kind[1])} : rows'[j] = rows[j]
      PROVE  (flight \in [Kind \X Stage -> Nat])' /\ FlightsAgree'
  <2>1. /\ (flight \in [Kind \X Stage -> Nat])'
        /\ flight[<<kind, from>>] > 0
        /\ flight'[<<kind, from>>] = flight[<<kind, from>>] - 1
        /\ flight'[<<kind, to>>] = flight[<<kind, to>>] + 1
        /\ \A k \in Kind, s \in Stage :
             (k # kind \/ s \notin {from, to}) => flight'[<<k, s>>] = flight[<<k, s>>]
    BY <1>6, StageChanges
  <2>2. \A k \in Kind \ {kind} : flight'[<<k, "sent">>] = flight[<<k, "sent">>]
    BY <2>1 DEF Stage
  <2>3. /\ Sum(kind[1])' = Sum(kind[1]) + (flight'[<<kind, "sent">>] - flight[<<kind, "sent">>])
        /\ \A c \in Clients \ {kind[1]} : Sum(c)' = Sum(c)
    BY <2>1, <2>2, SentChanges
  <2>4. flight[<<kind, "sent">>] \in Nat
    BY <1>3 DEF Stage
  <2>5. Sum(kind[1])' = Sum(kind[1]) + d
    <3>1. PICK x, y : x = Sum(kind[1]) /\ y = Sum(kind[1])'
      OBVIOUS
    <3>2. x \in Nat
      BY <1>2, <1>4, <3>1
    <3>3. PICK u, v : u = flight[<<kind, "sent">>] /\ v = flight'[<<kind, "sent">>]
      OBVIOUS
    <3>4. y = x + (v - u) /\ v = u + d /\ u \in Nat
      BY <1>6, <2>3, <2>4, <3>1, <3>3
    <3>5. y = x + d
      BY <3>2, <3>4
    <3> QED
      BY <3>1, <3>5
  <2>6. ASSUME NEW c \in Clients
        PROVE  rows'[Http(c)].inFlight = Sum(c)'
    <3>1. rows[Http(c)].inFlight = Sum(c)
      BY DEF FlightsAgree
    <3>2. CASE c = kind[1]
      BY <1>6, <2>5, <3>1, <3>2
    <3>3. CASE c # kind[1]
      <4>1. Http(c) \in RowKeys \ {Http(kind[1])}
        BY <1>2, <3>3, Keys
      <4> QED
        BY <1>6, <2>3, <3>1, <3>3, <4>1
    <3> QED
      BY <3>2, <3>3
  <2>7. ASSUME NEW k \in Kind
        PROVE  rows'[k].inFlight
                  = flight'[<<k, "started">>] + flight'[<<k, "sent">>]
                    + flight'[<<k, "answered">>] + flight'[<<k, "refused">>]
    <3>1. rows[k].inFlight = flight[<<k, "started">>] + flight[<<k, "sent">>]
                    + flight[<<k, "answered">>] + flight[<<k, "refused">>]
      BY DEF FlightsAgree
    <3>2. rows'[k] = rows[k]
      BY <1>6, Keys
    <3>3. CASE k = kind
      <4>1. PICK a, b, e, g :
              /\ a = flight[<<kind, "started">>] /\ b = flight[<<kind, "sent">>]
              /\ e = flight[<<kind, "answered">>] /\ g = flight[<<kind, "refused">>]
        OBVIOUS
      <4>2. PICK p, q, r, s :
              /\ p = flight'[<<kind, "started">>] /\ q = flight'[<<kind, "sent">>]
              /\ r = flight'[<<kind, "answered">>] /\ s = flight'[<<kind, "refused">>]
        OBVIOUS
      <4>3. a \in Nat /\ b \in Nat /\ e \in Nat /\ g \in Nat
        BY <1>3, <4>1 DEF Stage
      <4>4. /\ p = a + (IF to = "started" THEN 1 ELSE 0) - (IF from = "started" THEN 1 ELSE 0)
            /\ q = b + (IF to = "sent" THEN 1 ELSE 0) - (IF from = "sent" THEN 1 ELSE 0)
            /\ r = e + (IF to = "answered" THEN 1 ELSE 0) - (IF from = "answered" THEN 1 ELSE 0)
            /\ s = g + (IF to = "refused" THEN 1 ELSE 0) - (IF from = "refused" THEN 1 ELSE 0)
        <5>1. ASSUME NEW x \in Stage
              PROVE  flight'[<<kind, x>>]
                        = flight[<<kind, x>>] + (IF to = x THEN 1 ELSE 0)
                                              - (IF from = x THEN 1 ELSE 0)
          <6>1. flight[<<kind, x>>] \in Nat
            BY <1>3
          <6>2. CASE x = from
            BY <1>6, <2>1, <6>1, <6>2
          <6>3. CASE x = to
            BY <1>6, <2>1, <6>1, <6>3
          <6>4. CASE x \notin {from, to}
            BY <2>1, <6>1, <6>4
          <6> QED
            BY <6>2, <6>3, <6>4
        <5> QED
          BY <4>1, <4>2, <5>1 DEF Stage
      <4>5. p + q + r + s = a + b + e + g
        BY <1>6, <4>3, <4>4 DEF Stage
      <4> QED
        BY <3>1, <3>2, <3>3, <4>1, <4>2, <4>5
    <3>4. CASE k # kind
      BY <2>1, <3>1, <3>2, <3>4 DEF Stage
    <3> QED
      BY <3>3, <3>4
  <2> QED
    BY <2>1, <2>6, <2>7 DEF FlightsAgree
<1>7. CASE HttpStarts(kind)
  <2>1. PICK stage \in Stage \ {"sent"} : Moves(kind, stage, "sent")
    BY <1>7 DEF HttpStarts
  <2>2. rows' = Begun(Http(kind[1]))
    BY <1>7 DEF HttpStarts
  <2>3. /\ (rows \in [RowKeys -> Row])' /\ RowsAgree' /\ Onward
        /\ rows'[Http(kind[1])].inFlight = rows[Http(kind[1])].inFlight + 1
        /\ \A j \in RowKeys \ {Http(kind[1])} : rows'[j] = rows[j]
    BY <1>2, <2>2, RowBegins
  <2>4. "sent" \in Stage /\ flight'[<<kind, "sent">>] = flight[<<kind, "sent">>] + 1
    BY <2>1, StageChanges DEF Stage
  <2> QED
    BY <1>6, <2>1, <2>3, <2>4
<1>8. CASE HttpEnds(kind)
  <2>1. PICK ok \in BOOLEAN :
          /\ Moves(kind, "sent", IF ok THEN "answered" ELSE "refused")
          /\ rows' = Ended(Http(kind[1]), ok, IF ok THEN 1 ELSE 0)
    BY <1>8 DEF HttpEnds
  <2>2. PICK to : to = IF ok THEN "answered" ELSE "refused"
    OBVIOUS
  <2>3. "sent" \in Stage /\ to \in Stage /\ to # "sent" /\ Moves(kind, "sent", to)
    BY <2>1, <2>2 DEF Stage
  <2>4. /\ flight[<<kind, "sent">>] > 0
        /\ flight'[<<kind, "sent">>] = flight[<<kind, "sent">>] - 1
    BY <2>3, StageChanges
  <2>5. rows[Http(kind[1])].inFlight > 0
    <3>1. /\ Sent(kind[1])[kind[2]] = flight[<<<<kind[1], kind[2]>>, "sent">>]
          /\ Sent(kind[1])[kind[2]] <= Sum(kind[1])
      BY SentCounts, Keys
    <3>2. flight[<<<<kind[1], kind[2]>>, "sent">>] = flight[<<kind, "sent">>]
      BY Keys
    <3>3. rows[Http(kind[1])].inFlight = Sum(kind[1])
      BY <1>2 DEF FlightsAgree
    <3>4. PICK x, y : x = Sum(kind[1]) /\ y = flight[<<kind, "sent">>]
      OBVIOUS
    <3>5. x \in Nat /\ y \in Nat /\ y <= x /\ y > 0
      BY <1>2, <1>3, <1>4, <2>4, <3>1, <3>2, <3>4 DEF Stage
    <3> QED
      BY <3>3, <3>4, <3>5
  <2>6. /\ (rows \in [RowKeys -> Row])' /\ RowsAgree' /\ Onward
        /\ rows'[Http(kind[1])].inFlight = rows[Http(kind[1])].inFlight - 1
        /\ \A j \in RowKeys \ {Http(kind[1])} : rows'[j] = rows[j]
    <3>1. PICK class : class = IF ok THEN 1 ELSE 0
      OBVIOUS
    <3>2. class \in {0, 1} /\ rows' = Ended(Http(kind[1]), ok, class)
      BY <2>1, <3>1
    <3> QED
      BY <1>2, <2>5, <3>1, <3>2, RowEnds
  <2>7. rows[Http(kind[1])].inFlight \in Nat /\ flight[<<kind, "sent">>] \in Nat
    BY <1>2, <1>3 DEF Row, Stage
  <2>8. /\ rows'[Http(kind[1])].inFlight = rows[Http(kind[1])].inFlight + (-1)
        /\ flight'[<<kind, "sent">>] = flight[<<kind, "sent">>] + (-1)
    BY <2>4, <2>6, <2>7
  <2> QED
    BY <1>6, <2>3, <2>6, <2>8
<1>9. CASE LogicalEnds(kind)
  <2>1. PICK ok \in BOOLEAN, stage \in {"answered", "refused"} :
          /\ flight[<<kind, stage>>] > 0
          /\ flight' = [flight EXCEPT ![<<kind, stage>>] = @ - 1]
          /\ rows' = Ended(kind, ok, 0)
    BY <1>9 DEF LogicalEnds
  <2>2. rows[kind].inFlight > 0
    <3>1. rows[kind].inFlight = flight[<<kind, "started">>] + flight[<<kind, "sent">>]
                    + flight[<<kind, "answered">>] + flight[<<kind, "refused">>]
      BY DEF FlightsAgree
    <3>2. PICK a, b, e, g :
            /\ a = flight[<<kind, "started">>] /\ b = flight[<<kind, "sent">>]
            /\ e = flight[<<kind, "answered">>] /\ g = flight[<<kind, "refused">>]
      OBVIOUS
    <3>3. a \in Nat /\ b \in Nat /\ e \in Nat /\ g \in Nat
      BY <1>3, <3>2 DEF Stage
    <3>4. e > 0 \/ g > 0
      BY <2>1, <3>2
    <3>5. a + b + e + g > 0
      BY <3>3, <3>4
    <3> QED
      BY <3>1, <3>2, <3>5
  <2>3. /\ (rows \in [RowKeys -> Row])' /\ RowsAgree' /\ Onward
        /\ rows'[kind].inFlight = rows[kind].inFlight - 1
        /\ \A j \in RowKeys \ {kind} : rows'[j] = rows[j]
    BY <1>2, <2>1, <2>2, RowEnds
  <2>4. /\ (flight \in [Kind \X Stage -> Nat])'
        /\ flight'[<<kind, stage>>] = flight[<<kind, stage>>] - 1
        /\ \A k \in Kind, s \in Stage :
             (k # kind \/ s # stage) => flight'[<<k, s>>] = flight[<<k, s>>]
    BY <2>1 DEF Stage
  <2>5. \A c \in Clients : Sum(c)' = Sum(c)
    <3>1. \A k \in Kind : flight'[<<k, "sent">>] = flight[<<k, "sent">>]
      BY <2>4 DEF Stage
    <3>2. \A c \in Clients : Sent(c)' = Sent(c)
      BY <3>1 DEF Sent, Kind
    <3> QED
      BY <3>2
  <2>6. \A c \in Clients : rows'[Http(c)].inFlight = Sum(c)'
    BY <2>3, <2>5, Keys DEF FlightsAgree
  <2>7. ASSUME NEW k \in Kind
        PROVE  rows'[k].inFlight
                  = flight'[<<k, "started">>] + flight'[<<k, "sent">>]
                    + flight'[<<k, "answered">>] + flight'[<<k, "refused">>]
    <3>1. rows[k].inFlight = flight[<<k, "started">>] + flight[<<k, "sent">>]
                    + flight[<<k, "answered">>] + flight[<<k, "refused">>]
      BY DEF FlightsAgree
    <3>2. CASE k = kind
      <4>1. PICK a, b, e, g :
              /\ a = flight[<<kind, "started">>] /\ b = flight[<<kind, "sent">>]
              /\ e = flight[<<kind, "answered">>] /\ g = flight[<<kind, "refused">>]
        OBVIOUS
      <4>2. a \in Nat /\ b \in Nat /\ e \in Nat /\ g \in Nat
        BY <1>3, <4>1 DEF Stage
      <4>3. rows'[k].inFlight = (a + b + e + g) - 1
        BY <2>3, <3>1, <3>2, <4>1
      <4>4. flight'[<<k, "started">>] = a /\ flight'[<<k, "sent">>] = b
        BY <2>4, <3>2, <4>1 DEF Stage
      <4>5. CASE stage = "answered"
        <5>1. flight'[<<k, "answered">>] = e - 1 /\ flight'[<<k, "refused">>] = g
          BY <2>4, <3>2, <4>1, <4>5 DEF Stage
        <5> QED
          BY <4>2, <4>3, <4>4, <5>1
      <4>6. CASE stage = "refused"
        <5>1. flight'[<<k, "answered">>] = e /\ flight'[<<k, "refused">>] = g - 1
          BY <2>4, <3>2, <4>1, <4>6 DEF Stage
        <5> QED
          BY <4>2, <4>3, <4>4, <5>1
      <4> QED
        BY <4>5, <4>6
    <3>3. CASE k # kind
      BY <2>3, <2>4, <3>1, <3>3, Keys DEF Stage
    <3> QED
      BY <3>2, <3>3
  <2> QED
    BY <2>3, <2>4, <2>6, <2>7 DEF FlightsAgree
<1> QED
  BY <1>1, <1>5, <1>7, <1>8, <1>9

-----------------------------------------------------------------------------
(* Reports.                                                                *)

\* The requests completed in all rows, as a sum over the rows.
LEMMA CompletedIsSum ==
    ASSUME NEW rs, NEW f, f = [k \in RowKeys |-> Completed(rs[k])]
    PROVE  CompletedIn(rs) = SumFunctionOnSet(f, RowKeys)
<1>1. DOMAIN f = RowKeys
  OBVIOUS
<1>2. SumFunction(f) = SumFunctionOnSet(f, RowKeys)
  BY <1>1 DEF SumFunction
<1> QED
  BY <1>2 DEF CompletedIn

LEMMA CompletedIsNat ==
    ASSUME NEW rs \in [RowKeys -> Row]
    PROVE  CompletedIn(rs) \in Nat
<1>1. PICK f : f = [k \in RowKeys |-> Completed(rs[k])]
  OBVIOUS
<1>2. \A k \in RowKeys : f[k] \in Nat
  BY <1>1 DEF Completed, Row
<1> QED
  BY <1>1, <1>2, CompletedIsSum, Keys, SumNat

\* The readers accept the collector's rows.
LEMMA RowsAreReadable ==
    ASSUME rows \in [RowKeys -> Row], RowsAgree
    PROVE  ReadableSnapshot
<1> SUFFICES ASSUME NEW k \in RowKeys PROVE ReadableRow(rows[k])
  BY DEF ReadableSnapshot
<1>1. PICK r : r = rows[k]
  OBVIOUS
<1>2. r \in Row /\ Consistent(r)
  BY <1>1 DEF RowsAgree
<1>3. \A f \in DOMAIN r : r[f] >= 0
  BY <1>2 DEF Row
<1>4. Completed(r) <= r.started /\ r.classified <= r.succeeded
  BY <1>2 DEF Consistent, Completed, Row
<1> QED
  BY <1>1, <1>2, <1>3, <1>4 DEF ReadableRow, Consistent

\* They accept the rows of an interval, and it counts the difference.
LEMMA IntervalIsReadable ==
    ASSUME rows \in [RowKeys -> Row], RowsAgree, prev \in Observation, PrevIsEarlier,
           prev # None, NEW k \in RowKeys, ~Regressed(rows[k], prev.rows[k])
    PROVE  ReadableInterval(IntervalRow(rows[k], prev.rows[k]), rows[k])
<1>1. PICK r, p : r = rows[k] /\ p = prev.rows[k]
  OBVIOUS
<1>2. r \in Row /\ p \in Row /\ Consistent(r) /\ Consistent(p)
  BY <1>1 DEF RowsAgree, PrevIsEarlier, Observation
<1>3. \/ r.classified = 0 /\ p.classified = 0
      \/ r.classified = r.succeeded /\ p.classified = p.succeeded
  BY <1>1, Keys DEF RowsAgree, PrevIsEarlier
<1>4. PICK d : d = IntervalRow(r, p)
  OBVIOUS
<1>5. /\ d.started = r.started - p.started /\ d.succeeded = r.succeeded - p.succeeded
      /\ d.failed = r.failed - p.failed /\ d.inFlight = r.inFlight
      /\ d.duration = r.duration - p.duration
      /\ d.classified = r.classified - p.classified
      /\ DOMAIN d = {"started", "succeeded", "failed", "inFlight", "duration",
                     "classified"}
  BY <1>4 DEF IntervalRow
<1>6. /\ r.started >= p.started /\ r.succeeded >= p.succeeded /\ r.failed >= p.failed
      /\ r.duration >= p.duration /\ r.classified >= p.classified
  BY <1>1, <1>2 DEF Regressed, Row
<1>7. \A f \in DOMAIN d : d[f] >= 0
  BY <1>2, <1>5, <1>6 DEF Row
<1>8. Completed(d) = 0 => d.duration = 0
  BY <1>2, <1>5 DEF Consistent, Completed, Row
<1>9. d.classified <= d.succeeded
  BY <1>2, <1>3, <1>5, <1>6 DEF Row
<1> QED
  BY <1>1, <1>4, <1>5, <1>7, <1>8, <1>9 DEF ReadableInterval

LEMMA IntervalCounts ==
    ASSUME rows \in [RowKeys -> Row], prev \in Observation, PrevIsEarlier, prev # None
    PROVE  /\ CompletedIn(prev.rows) <= CompletedIn(rows)
           /\ CompletedIn([k \in RowKeys |-> IntervalRow(rows[k], prev.rows[k])])
                 = CompletedIn(rows) - CompletedIn(prev.rows)
<1>1. PICK i : i = [k \in RowKeys |-> IntervalRow(rows[k], prev.rows[k])]
  OBVIOUS
<1>2. PICK f, g, h : /\ f = [k \in RowKeys |-> Completed(prev.rows[k])]
                     /\ g = [k \in RowKeys |-> Completed(rows[k])]
                     /\ h = [k \in RowKeys |-> Completed(i[k])]
  OBVIOUS
<1>3. ASSUME NEW k \in RowKeys
      PROVE  /\ f[k] \in Int /\ g[k] \in Int /\ f[k] <= g[k]
             /\ h[k] = g[k] - f[k]
  <2>1. PICK r, p : r = rows[k] /\ p = prev.rows[k]
    OBVIOUS
  <2>2. r \in Row /\ p \in Row
    BY <2>1 DEF Observation
  <2>3. p.succeeded <= r.succeeded /\ p.failed <= r.failed
    BY <2>1 DEF PrevIsEarlier
  <2>4. i[k].succeeded = r.succeeded - p.succeeded /\ i[k].failed = r.failed - p.failed
    BY <1>1, <2>1 DEF IntervalRow
  <2>5. f[k] = p.succeeded + p.failed /\ g[k] = r.succeeded + r.failed
        /\ h[k] = i[k].succeeded + i[k].failed
    BY <1>2, <2>1 DEF Completed
  <2> QED
    BY <2>2, <2>3, <2>4, <2>5 DEF Row
<1>4. IsFiniteSet(RowKeys)
  BY Keys
<1>5. /\ CompletedIn(prev.rows) = SumFunctionOnSet(f, RowKeys)
      /\ CompletedIn(rows) = SumFunctionOnSet(g, RowKeys)
      /\ CompletedIn(i) = SumFunctionOnSet(h, RowKeys)
  BY <1>2, CompletedIsSum
<1>6. SumFunctionOnSet(f, RowKeys) <= SumFunctionOnSet(g, RowKeys)
  BY <1>3, <1>4, SumGrows
<1>7. SumFunctionOnSet(h, RowKeys)
         = SumFunctionOnSet(g, RowKeys) - SumFunctionOnSet(f, RowKeys)
  BY <1>3, <1>4, SumDifference
<1> QED
  BY <1>1, <1>5, <1>6, <1>7

\* An observation is the counters as they are, accepted, and its interval counts
\* what completed since the one before it.
LEMMA ReportKeeps ==
    ASSUME RInv, Report, rows' = rows, now' = now
    PROVE  /\ prev' \in Observation \cup {None} /\ (prev' # None => prev'.at <= now')
           /\ base' \in Nat /\ counted' \in Nat /\ gap' \in BOOLEAN
           /\ faults' \in 0..MaxFaults /\ rejected' \in BOOLEAN /\ ~rejected'
           /\ PrevIsEarlier' /\ CountsFromFirst' /\ IntervalsPartition'
<1>1. /\ rows \in [RowKeys -> Row] /\ RowsAgree /\ now \in Nat
      /\ prev \in Observation \cup {None} /\ (prev # None => prev.at <= now)
      /\ base \in Nat /\ counted \in Nat /\ gap \in BOOLEAN
      /\ faults \in 0..MaxFaults /\ rejected \in BOOLEAN /\ ~rejected
      /\ PrevIsEarlier /\ CountsFromFirst /\ IntervalsPartition
  BY DEF RInv, TypeOK, ReportsAreReadable
<1>2. CASE Fault /\ prev' = KeptAfterFailure /\ UNCHANGED <<usageVars, rejected>>
  <2>1. /\ prev' = prev /\ base' = base /\ counted' = counted /\ gap' = gap
        /\ rejected' = rejected
    BY <1>2 DEF KeptAfterFailure, usageVars
  <2>2. faults' \in 0..MaxFaults
    BY <1>1, <1>2, ReportingAssumption DEF Fault
  <2>3. PrevIsEarlier' /\ CountsFromFirst' /\ IntervalsPartition'
    BY <1>1, <2>1 DEF PrevIsEarlier, CountsFromFirst, IntervalsPartition
  <2>4. gap' \in BOOLEAN /\ rejected' \in BOOLEAN /\ ~rejected'
    BY <1>1, <2>1
  <2>5. prev' \in Observation \cup {None} /\ (prev' # None => prev'.at <= now')
    BY <1>1, <2>1
  <2>6. base' \in Nat /\ counted' \in Nat
    BY <1>1, <2>1
  <2> QED
    BY <2>2, <2>3, <2>4, <2>5, <2>6
<1>3. CASE /\ prev' = [at |-> now, rows |-> rows]
           /\ Delivered(IntervalSince(prev)) /\ UNCHANGED faults
  <2>1. PICK p : p = [at |-> now, rows |-> rows]
    OBVIOUS
  <2>2. p \in Observation /\ p # None /\ p.at = now /\ p.rows = rows /\ prev' = p
    BY <1>1, <1>3, <2>1, ReportingAssumption DEF Observation
  <2>3. PICK i : i = IntervalSince(prev)
    OBVIOUS
  <2>4. /\ rejected' = (rejected \/ ~ReadableReport(i))
        /\ base' = IF prev = None THEN CompletedIn(rows) ELSE base
        /\ counted' = counted + (IF i = None \/ mute THEN 0 ELSE CompletedIn(i))
        /\ gap' = (gap \/ (prev # None /\ (i = None \/ mute)))
    BY <1>3, <2>3 DEF Delivered
  <2>5. PICK n : n = CompletedIn(rows) /\ n \in Nat
    BY <1>1, CompletedIsNat
  <2>6. i # None =>
           /\ prev # None
           /\ i = [k \in RowKeys |-> IntervalRow(rows[k], prev.rows[k])]
           /\ \A k \in RowKeys : ~Regressed(rows[k], prev.rows[k])
    BY <2>3 DEF IntervalSince
  <2>7. ReadableReport(i)
    <3>1. ASSUME i # None PROVE ReadableView(i)
      BY <1>1, <2>6, <3>1, IntervalIsReadable DEF ReadableView
    <3> QED
      BY <1>1, <3>1, RowsAreReadable DEF ReadableReport
  <2>8. PrevIsEarlier'
    <3>1. \A k \in RowKeys : rows[k].succeeded <= rows[k].succeeded
                             /\ rows[k].failed <= rows[k].failed
      BY <1>1 DEF Row
    <3>2. /\ \A c \in Clients : p.rows[Http(c)].classified = p.rows[Http(c)].succeeded
          /\ \A k \in Kind : p.rows[k].classified = 0
          /\ \A k \in RowKeys : Consistent(p.rows[k])
      BY <1>1, <2>2 DEF RowsAgree
    <3>3. /\ \A c \in Clients :
               prev'.rows[Http(c)].classified = prev'.rows[Http(c)].succeeded
          /\ \A k \in Kind : prev'.rows[k].classified = 0
          /\ \A k \in RowKeys : /\ Consistent(prev'.rows[k])
                                /\ prev'.rows[k].succeeded <= rows'[k].succeeded
                                /\ prev'.rows[k].failed <= rows'[k].failed
      BY <2>2, <3>1, <3>2
    <3> QED
      BY <3>3 DEF PrevIsEarlier, Consistent, Completed
  <2>9. prev # None =>
           /\ CompletedIn(prev.rows) \in Nat /\ CompletedIn(prev.rows) <= n
           /\ i # None => CompletedIn(i) = n - CompletedIn(prev.rows)
    <3> SUFFICES ASSUME prev # None
                 PROVE  /\ CompletedIn(prev.rows) \in Nat /\ CompletedIn(prev.rows) <= n
                        /\ i # None => CompletedIn(i) = n - CompletedIn(prev.rows)
      OBVIOUS
    <3>1. prev \in Observation /\ prev.rows \in [RowKeys -> Row]
      BY <1>1 DEF Observation
    <3> QED
      BY <1>1, <2>5, <2>6, <3>1, CompletedIsNat, IntervalCounts
  <2>10. PICK q : q = CompletedIn(prev.rows)
    OBVIOUS
  <2>11. /\ base' \in Nat /\ counted' \in Nat /\ counted' <= n - base'
         /\ ~gap' => counted' = n - base'
    <3>1. CASE prev = None
      <4>1. i = None /\ counted = 0
        BY <1>1, <2>6, <3>1 DEF CountsFromFirst
      <4> QED
        BY <1>1, <2>4, <2>5, <3>1, <4>1
    <3>2. CASE prev # None /\ (i = None \/ mute)
      <4>0. gap'
        BY <2>4, <3>2
      <4>a. base' = base
        BY <2>4, <3>2
      <4>b. counted' = counted + 0
        BY <2>4, <3>2
      <4>1. counted' = counted /\ base' = base /\ gap'
        BY <1>1, <4>0, <4>a, <4>b
      <4>2. counted <= q - base /\ q \in Nat /\ q <= n
        BY <1>1, <2>9, <2>10, <3>2 DEF IntervalsPartition
      <4> QED
        BY <1>1, <2>5, <4>1, <4>2
    <3>3. CASE prev # None /\ i # None /\ ~mute
      <4>1. counted' = counted + (n - q) /\ base' = base /\ (gap' <=> gap)
        BY <2>4, <2>9, <2>10, <3>3
      <4>2. counted <= q - base /\ q \in Nat /\ q <= n /\ (~gap => counted = q - base)
        BY <1>1, <2>9, <2>10, <3>3 DEF IntervalsPartition
      <4> QED
        BY <1>1, <2>5, <4>1, <4>2
    <3> QED
      BY <3>1, <3>2, <3>3
  <2>12. IntervalsPartition'
    <3>1. CompletedIn(prev.rows)' = n
      <4>1. CompletedIn(prev.rows)' = CompletedIn(prev'.rows)
        BY DEF CompletedIn, Completed
      <4> QED
        BY <2>2, <2>5, <4>1
    <3> QED
      BY <2>11, <3>1 DEF IntervalsPartition
  <2>13. CountsFromFirst'
    BY <2>2 DEF CountsFromFirst
  <2>14. gap' \in BOOLEAN /\ rejected' \in BOOLEAN /\ ~rejected'
    BY <1>1, <2>4, <2>7
  <2>15. prev'.at <= now'
    BY <1>1, <2>2
  <2>16. faults' \in 0..MaxFaults
    BY <1>1, <1>3
  <2> QED
    BY <2>2, <2>8, <2>11, <2>12, <2>13, <2>14, <2>15, <2>16
<1> QED
  BY <1>2, <1>3 DEF Report

\* The session keeps what it has while requests go on.
LEMMA SessionKept ==
    ASSUME RInv, Onward, (rows \in [RowKeys -> Row])', prev' = prev, UNCHANGED usageVars
    PROVE  PrevIsEarlier' /\ CountsFromFirst' /\ IntervalsPartition'
<1>1. /\ rows \in [RowKeys -> Row] /\ prev \in Observation \cup {None}
      /\ PrevIsEarlier /\ CountsFromFirst /\ IntervalsPartition
  BY DEF RInv, TypeOK
<1>2. IntervalsPartition' /\ CountsFromFirst'
  BY <1>1 DEF IntervalsPartition, CountsFromFirst, CompletedIn, Completed, usageVars
<1>3. ASSUME prev # None, NEW k \in RowKeys
      PROVE  prev.rows[k].succeeded <= rows'[k].succeeded
             /\ prev.rows[k].failed <= rows'[k].failed
  <2>1. PICK p, r, t : p = prev.rows[k] /\ r = rows[k] /\ t = rows'[k]
    OBVIOUS
  <2>2. p \in Row /\ r \in Row /\ t \in Row
    BY <1>1, <1>3, <2>1 DEF Observation
  <2>3. /\ p.succeeded <= r.succeeded /\ r.succeeded <= t.succeeded
        /\ p.failed <= r.failed /\ r.failed <= t.failed
    BY <1>1, <1>3, <2>1 DEF PrevIsEarlier, Onward
  <2> QED
    BY <2>1, <2>2, <2>3 DEF Row
<1>4. PrevIsEarlier'
  BY <1>1, <1>3 DEF PrevIsEarlier, Consistent, Completed
<1> QED
  BY <1>2, <1>4

-----------------------------------------------------------------------------
(* The invariant holds.                                                    *)

\* Steps that are none of a request's.
OtherSteps ==
    \/ Capture \/ WriteStatus \/ SessionTurn \/ Wake \/ CycleEnds \/ FinalReport
    \/ CycleThrows \/ Signal \/ Tick \/ LogBreaks \/ LogWorks \/ UNCHANGED vars

LEMMA Steps ==
    ASSUME [Next]_vars
    PROVE  \/ RequestStep /\ OnlyRequests
           \/ OtherSteps /\ UNCHANGED requestVars
<1>1. RequestStep => OnlyRequests
  BY DEF RequestStep, LogicalStarts, HttpStarts, HttpEnds, LogicalEnds
<1>2. OtherSteps => UNCHANGED requestVars
  BY DEF OtherSteps, Capture, WriteStatus, SessionTurn, Wake, CycleEnds, FinalReport,
         CycleThrows, Signal, Tick, LogBreaks, LogWorks, vars
<1> QED
  BY <1>1, <1>2 DEF Next, Loop, OtherSteps

LEMMA RequestsStep ==
    ASSUME RInv, [Next]_vars
    PROVE  /\ (rows \in [RowKeys -> Row])' /\ (flight \in [Kind \X Stage -> Nat])'
           /\ FlightsAgree' /\ RowsAgree' /\ Onward
<1>1. /\ rows \in [RowKeys -> Row] /\ flight \in [Kind \X Stage -> Nat]
      /\ FlightsAgree /\ RowsAgree
  BY DEF RInv, TypeOK
<1>2. CASE RequestStep
  BY <1>1, <1>2, RequestsAgree
<1>3. CASE UNCHANGED requestVars
  <2>1. rows' = rows /\ flight' = flight
    BY <1>3 DEF requestVars
  <2>2. FlightsAgree'
    <3>1. \A c \in Clients : Sent(c)' = Sent(c)
      BY <2>1 DEF Sent
    <3> QED
      BY <1>1, <2>1, <3>1 DEF FlightsAgree
  <2>3. RowsAgree'
    BY <1>1, <2>1 DEF RowsAgree, Consistent, Completed
  <2>4. Onward
    BY <1>1, <2>1 DEF Onward, Row
  <2> QED
    BY <1>1, <2>1, <2>2, <2>3, <2>4
<1> QED
  BY <1>2, <1>3, Steps

\* What the session keeps, counts and has accepted.
Session ==
    /\ prev \in Observation \cup {None} /\ (prev # None => prev.at <= now)
    /\ base \in Nat /\ counted \in Nat /\ gap \in BOOLEAN
    /\ faults \in 0..MaxFaults /\ rejected \in BOOLEAN /\ ~rejected
    /\ PrevIsEarlier /\ CountsFromFirst /\ IntervalsPartition

LEMMA SessionStep ==
    ASSUME RInv, [Next]_vars
    PROVE  Session'
<1>1. /\ rows \in [RowKeys -> Row] /\ RowsAgree /\ now \in Nat
      /\ prev \in Observation \cup {None} /\ (prev # None => prev.at <= now)
      /\ base \in Nat /\ counted \in Nat /\ gap \in BOOLEAN
      /\ faults \in 0..MaxFaults /\ rejected \in BOOLEAN /\ ~rejected
  BY DEF RInv, TypeOK, ReportsAreReadable
<1>2. (rows \in [RowKeys -> Row])' /\ Onward
  BY RequestsStep
<1>3. ASSUME prev' = prev, UNCHANGED usageVars, ~rejected', rejected' \in BOOLEAN,
             faults' \in 0..MaxFaults, now' >= now, now' \in Nat
      PROVE  Session'
  <2>1. PrevIsEarlier' /\ CountsFromFirst' /\ IntervalsPartition'
    BY <1>2, <1>3, SessionKept
  <2>2. base' = base /\ counted' = counted /\ gap' = gap
    BY <1>3 DEF usageVars
  <2>3. prev' \in Observation \cup {None} /\ (prev' # None => prev'.at <= now')
    BY <1>1, <1>3 DEF Observation
  <2>4. base' \in Nat /\ counted' \in Nat /\ gap' \in BOOLEAN
    BY <1>1, <2>2
  <2> QED
    BY <1>3, <2>1, <2>3, <2>4 DEF Session
<1>4. ASSUME prev' = prev, UNCHANGED usageVars, UNCHANGED rejected,
             UNCHANGED faults \/ Fault, now' = now \/ now' = now + 1
      PROVE  Session'
  <2>1. faults' \in 0..MaxFaults
    BY <1>1, <1>4, ReportingAssumption DEF Fault
  <2>2. ~rejected' /\ rejected' \in BOOLEAN
    BY <1>1, <1>4
  <2>3. now' >= now /\ now' \in Nat
    BY <1>1, <1>4
  <2> QED
    BY <1>3, <1>4, <2>1, <2>2, <2>3
<1>5. ASSUME Report, UNCHANGED <<rows, now>>
      PROVE  Session'
  BY <1>5, ReportKeeps DEF Session
<1>6. CASE RequestStep /\ OnlyRequests
  BY <1>4, <1>6 DEF OnlyRequests, sessionVars
<1>7. CASE Capture
  <2>1. prev' = prev /\ UNCHANGED usageVars /\ now' = now
    BY <1>7 DEF Capture, sessionVars
  <2>2. rejected' = rejected \/ rejected' = (rejected \/ ~ReadableSnapshot)
    BY <1>7 DEF Capture
  <2>3. ~rejected' /\ rejected' \in BOOLEAN
    BY <1>1, <2>2, RowsAreReadable
  <2>4. UNCHANGED faults \/ Fault
    BY <1>7 DEF Capture
  <2>5. faults' \in 0..MaxFaults
    BY <1>1, <2>4, ReportingAssumption DEF Fault
  <2> QED
    BY <1>1, <1>3, <2>1, <2>3, <2>5
<1>8. CASE WriteStatus
  BY <1>4, <1>8 DEF WriteStatus, sessionVars
<1>9. CASE SessionTurn
  <2>1. CASE NoReport
    BY <1>4, <1>9, <2>1 DEF SessionTurn, NoReport
  <2>2. CASE Report
    BY <1>5, <1>9, <2>2 DEF SessionTurn, requestVars
  <2> QED
    BY <1>9, <2>1, <2>2 DEF SessionTurn
<1>10. CASE FinalReport
  BY <1>5, <1>10 DEF FinalReport, requestVars
<1>11. CASE \/ Wake \/ CycleEnds \/ CycleThrows \/ Signal \/ LogBreaks \/ LogWorks
            \/ Tick \/ UNCHANGED vars
  <2>1. prev' = prev /\ UNCHANGED usageVars /\ UNCHANGED rejected
    BY <1>11 DEF Wake, CycleEnds, CycleThrows, Signal, LogBreaks, LogWorks, Tick, vars,
                 sessionVars
  <2>2. UNCHANGED faults \/ Fault
    BY <1>11 DEF Wake, CycleEnds, CycleThrows, Signal, LogBreaks, LogWorks, Tick, vars
  <2>3. now' = now \/ now' = now + 1
    BY <1>11 DEF Wake, CycleEnds, CycleThrows, Signal, LogBreaks, LogWorks, Tick, vars
  <2> QED
    BY <1>4, <2>1, <2>2, <2>3
<1> QED
  BY <1>6, <1>7, <1>8, <1>9, <1>10, <1>11, Steps DEF OtherSteps

\* Where the loop and the clock are, and what the log and the file hold.
Running ==
    /\ now \in 0..MaxTime
    /\ phase \in {"start", "write", "report", "sleep", "cycle", "logged", "ended"}
    /\ cycle \in 0..MaxCycles
    /\ stop \in BOOLEAN /\ broken \in BOOLEAN /\ mute \in BOOLEAN /\ finished \in BOOLEAN
    /\ attempt \in (0..now) \cup {None}
    /\ OnlyCyclesEndTheDaemon

LEMMA RunningStep ==
    ASSUME RInv, [Next]_vars
    PROVE  Running'
<1>1. Running
  BY DEF RInv, TypeOK, Running
<1>2. MaxTime \in Nat /\ MaxCycles \in Nat
  BY ReportingAssumption
<1>3. CASE RequestStep /\ OnlyRequests
  BY <1>1, <1>3 DEF OnlyRequests, Running, OnlyCyclesEndTheDaemon, loopVars, sessionVars
<1>4. CASE Capture
  BY <1>1, <1>4 DEF Capture, Running, OnlyCyclesEndTheDaemon, sessionVars
<1>5. CASE WriteStatus
  BY <1>1, <1>5 DEF WriteStatus, AfterFailedWrite, Running, OnlyCyclesEndTheDaemon,
                    sessionVars
<1>6. CASE SessionTurn
  <2>1. attempt' = attempt \/ attempt' = now
    BY <1>6 DEF SessionTurn
  <2>2. phase' = IF stop THEN "ended" ELSE "sleep"
    BY <1>6 DEF SessionTurn
  <2>3. /\ now' = now /\ cycle' = cycle /\ stop' = stop /\ broken' = broken
        /\ mute' = mute /\ finished' = finished
    BY <1>6 DEF SessionTurn
  <2> QED
    BY <1>1, <1>2, <2>1, <2>2, <2>3 DEF Running, OnlyCyclesEndTheDaemon
<1>7. CASE Wake
  BY <1>1, <1>2, <1>7 DEF Wake, Running, OnlyCyclesEndTheDaemon, sessionVars
<1>8. CASE CycleEnds
  BY <1>1, <1>8 DEF CycleEnds, Running, OnlyCyclesEndTheDaemon, sessionVars
<1>9. CASE FinalReport
  BY <1>1, <1>9 DEF FinalReport, Running, OnlyCyclesEndTheDaemon, loopVars
<1>10. CASE CycleThrows
  BY <1>1, <1>10 DEF CycleThrows, Running, OnlyCyclesEndTheDaemon, sessionVars
<1>11. CASE Signal
  BY <1>1, <1>11 DEF Signal, Running, OnlyCyclesEndTheDaemon, sessionVars
<1>12. CASE Tick
  BY <1>1, <1>2, <1>12 DEF Tick, Running, OnlyCyclesEndTheDaemon, loopVars, sessionVars
<1>13. CASE LogBreaks \/ LogWorks
  BY <1>1, <1>13 DEF LogBreaks, LogWorks, Running, OnlyCyclesEndTheDaemon, loopVars,
                     sessionVars
<1>14. CASE UNCHANGED vars
  BY <1>1, <1>14 DEF vars, Running, OnlyCyclesEndTheDaemon, loopVars, sessionVars
<1> QED
  BY <1>3, <1>4, <1>5, <1>6, <1>7, <1>8, <1>9, <1>10, <1>11, <1>12, <1>13, <1>14,
     Steps DEF OtherSteps

Heard ==
    /\ beat \in 0..now /\ heard \in 0..now /\ told \in (0..now) \cup {None}
    /\ HeartbeatIsHeard

LEMMA HeardStep ==
    ASSUME RInv, [Next]_vars
    PROVE  Heard'
<1>1. Heard /\ now \in Nat
  BY DEF RInv, TypeOK, Heard
<1>2. Quiet \in Nat \ {0} /\ None \notin Nat
  BY ReportingAssumption
<1>3. CASE UNCHANGED beatVars /\ (now' = now \/ now' = now + 1)
  BY <1>1, <1>3 DEF Heard, HeartbeatIsHeard, beatVars
<1>4. CASE CycleEnds
  <2>1. now' = now
    BY <1>4 DEF CycleEnds
  <2>2. CASE UNCHANGED beatVars
    BY <1>3, <2>1, <2>2
  <2>3. CASE beat' = now /\ Emitted
    <3>1. CASE heard' = now /\ UNCHANGED told
      BY <1>1, <2>1, <2>3, <3>1 DEF Heard, HeartbeatIsHeard
    <3>2. CASE Fallback /\ UNCHANGED heard
      <4>1. (told' = told /\ told # None /\ now - told < Quiet) \/ told' = now
        BY <3>2 DEF Fallback
      <4> QED
        BY <1>1, <1>2, <2>1, <2>3, <3>2, <4>1 DEF Heard, HeartbeatIsHeard
    <3> QED
      BY <2>3, <3>1, <3>2 DEF Emitted
  <2> QED
    BY <1>4, <2>2, <2>3 DEF CycleEnds
<1>5. CASE RequestStep /\ OnlyRequests
  BY <1>3, <1>5 DEF OnlyRequests
<1>6. CASE OtherSteps /\ ~CycleEnds
  BY <1>3, <1>6 DEF OtherSteps, Capture, WriteStatus, SessionTurn, Wake, FinalReport,
       CycleThrows, Signal, Tick, LogBreaks, LogWorks, vars
<1> QED
  BY <1>4, <1>5, <1>6, Steps

StatusHeld ==
    /\ draft \in Status \cup {None} /\ file \in Status \cup {None}
    /\ StatusIsPast

LEMMA StatusStep ==
    ASSUME RInv, [Next]_vars
    PROVE  StatusHeld'
<1>1. StatusHeld /\ now \in Nat
  BY DEF RInv, TypeOK, StatusHeld
<1>2. CASE UNCHANGED statusVars /\ (now' = now \/ now' = now + 1)
  BY <1>1, <1>2 DEF StatusHeld, StatusIsPast, Status, statusVars
<1>3. CASE Capture
  <2>1. now' = now /\ file' = file
    BY <1>3 DEF Capture
  <2>2. draft' = draft \/ draft' = [observedAt |-> now, since |-> now]
    BY <1>3 DEF Capture
  <2> QED
    BY <1>1, <2>1, <2>2 DEF StatusHeld, StatusIsPast, Status
<1>4. CASE WriteStatus
  <2>1. now' = now /\ draft' = None /\ file' \in {file, draft}
    BY <1>4 DEF WriteStatus, Published
  <2> QED
    BY <1>1, <2>1 DEF StatusHeld, StatusIsPast
<1>5. CASE RequestStep /\ OnlyRequests
  BY <1>2, <1>5 DEF OnlyRequests
<1>6. CASE OtherSteps /\ ~Capture /\ ~WriteStatus
  BY <1>2, <1>6 DEF OtherSteps, CycleEnds, SessionTurn, Wake, FinalReport,
       CycleThrows, Signal, Tick, LogBreaks, LogWorks, vars
<1> QED
  BY <1>3, <1>4, <1>5, <1>6, Steps

\* The counters start at zero, and nothing is reported before the loop runs.
LEMMA RInvInit == Init => RInv
<1> SUFFICES ASSUME Init PROVE RInv
  OBVIOUS
<1>1. TypeOK
  <2>1. rows \in [RowKeys -> Row] /\ flight \in [Kind \X Stage -> Nat]
    BY DEF Init, ZeroRow, Row
  <2>2. MaxTime \in Nat /\ MaxCycles \in Nat /\ MaxFaults \in Nat
    BY ReportingAssumption
  <2>3. /\ stop \in BOOLEAN /\ broken \in BOOLEAN /\ mute \in BOOLEAN
        /\ finished \in BOOLEAN /\ rejected \in BOOLEAN /\ gap \in BOOLEAN
    BY DEF Init
  <2>4. /\ now = 0 /\ phase = "start" /\ cycle = 0 /\ beat = 0 /\ heard = 0
        /\ told = None /\ draft = None /\ file = None /\ prev = None
        /\ attempt \in {None, 0} /\ base = 0 /\ counted = 0 /\ faults \in 0..MaxFaults
    BY <2>2 DEF Init, FirstInterval
  <2> QED
    BY <2>1, <2>2, <2>3, <2>4 DEF TypeOK
<1>2. RowsAgree
  BY Keys DEF Init, RowsAgree, Consistent, Completed, ZeroRow
<1>3. ASSUME NEW c \in Clients
      PROVE  rows[Http(c)].inFlight = SumFunctionOnSet(Sent(c), Methods)
  <2>1. PICK z : z = Sent(c)
    OBVIOUS
  <2>2. \A m \in Methods : z[m] \in Int /\ z[m] = 0
    BY <2>1 DEF Init, Sent, Kind, Stage
  <2>3. SumFunctionOnSet(z, Methods)
           = SumFunctionOnSet(z, Methods) - SumFunctionOnSet(z, Methods)
    <3>1. \A m \in Methods : z[m] \in Int /\ z[m] = z[m] - z[m]
      BY <2>2
    <3> QED
      BY <3>1, Keys, SumDifference
  <2>4. SumFunctionOnSet(z, Methods) \in Int
    BY <2>2, Keys, SumAny
  <2>5. SumFunctionOnSet(z, Methods) = 0
    BY <2>3, <2>4
  <2> QED
    BY <2>1, <2>5, Keys DEF Init, ZeroRow
<1>4. FlightsAgree
  BY <1>3, Keys DEF Init, FlightsAgree, ZeroRow, Stage
<1>5. PrevIsEarlier /\ CountsFromFirst /\ IntervalsPartition /\ ReportsAreReadable
  BY DEF Init, PrevIsEarlier, CountsFromFirst, IntervalsPartition, ReportsAreReadable
<1>6. StatusIsPast /\ HeartbeatIsHeard /\ OnlyCyclesEndTheDaemon
  BY DEF Init, StatusIsPast, HeartbeatIsHeard, OnlyCyclesEndTheDaemon
<1> QED
  BY <1>1, <1>2, <1>4, <1>5, <1>6 DEF RInv

LEMMA RInvStep == RInv /\ [Next]_vars => RInv'
<1> SUFFICES ASSUME RInv, [Next]_vars PROVE RInv'
  OBVIOUS
<1>1. /\ (rows \in [RowKeys -> Row])' /\ (flight \in [Kind \X Stage -> Nat])'
      /\ FlightsAgree' /\ RowsAgree'
  BY RequestsStep
<1>2. Session' /\ Running' /\ Heard' /\ StatusHeld'
  BY SessionStep, RunningStep, HeardStep, StatusStep
<1>3. TypeOK'
  BY <1>1, <1>2 DEF TypeOK, Session, Running, Heard, StatusHeld
<1> QED
  BY <1>1, <1>2, <1>3
     DEF RInv, Session, Running, Heard, StatusHeld, ReportsAreReadable

\* Whatever requests run while it reports, the daemon tells the truth about itself.
THEOREM ReportingInvariance == Spec => []RInv
<1>1. Init => RInv
  BY RInvInit
<1>2. RInv /\ [Next]_vars => RInv'
  BY RInvStep
<1> QED
  BY <1>1, <1>2, PTL DEF Spec

\* Every report and every published usage passes its validator, no request is in
\* two intervals and none is missed unless its report was lost, a status called
\* fresh is one, and reporting never ends the daemon (rpc-usage-session.ts,
\* rpc-usage-report.ts, daemon-status-snapshot.ts).
THEOREM ReportsAreHonest == Spec => []ReportingInv
<1>1. RInv => ReportingInv
  <2> SUFFICES ASSUME RInv PROVE ReportingInv
    OBVIOUS
  <2>1. ASSUME file # None
        PROVE  /\ Age(file.observedAt) = "fresh" => now - file.since <= MaxAge
               /\ Age(file.observedAt) # "clock-skew"
    <3>1. now \in Nat /\ file \in Status /\ MaxAge \in Nat
      BY <2>1, ReportingAssumption DEF RInv, TypeOK
    <3>2. file.observedAt = file.since /\ file.since <= now
      BY <2>1 DEF RInv, StatusIsPast
    <3> QED
      BY <3>1, <3>2 DEF Age, Status
  <2> QED
    BY <2>1 DEF RInv, ReportingInv, StatusAgeIsHonest
<1> QED
  BY <1>1, ReportingInvariance, PTL

\* A cycle that is logged leaves a heartbeat behind that the log wrote, or that
\* stderr was told about, not long ago (onCycle, emit and fallback).
THEOREM SilenceIsShort == Spec => SilenceIsBounded
<1>1. RInv /\ [Next]_vars =>
        [(phase = "cycle" /\ phase' = "logged") =>
           \/ now - heard' < Heartbeat
           \/ told' # None /\ now - told' < Heartbeat + Quiet]_vars
  <2> SUFFICES ASSUME RInv, [Next]_vars, phase = "cycle", phase' = "logged"
               PROVE  \/ now - heard' < Heartbeat
                      \/ told' # None /\ now - told' < Heartbeat + Quiet
    OBVIOUS
  <2>1. CycleEnds
    BY Steps DEF OnlyRequests, loopVars, OtherSteps, Capture, WriteStatus, SessionTurn,
         Wake, FinalReport, CycleThrows, Signal, Tick, LogBreaks, LogWorks, vars,
         AfterFailedWrite
  <2>2. /\ now \in Nat /\ beat \in 0..now /\ heard \in 0..now
        /\ told \in (0..now) \cup {None} /\ HeartbeatIsHeard
    BY DEF RInv, TypeOK
  <2>3. /\ Heartbeat \in Nat \ {0} /\ Quiet \in Nat \ {0} /\ None \notin Nat
    BY ReportingAssumption
  <2>4. CASE now - beat >= Heartbeat
    <3>1. \/ heard' = now
          \/ told' = told /\ told # None /\ now - told < Quiet
          \/ told' = now
      BY <2>1, <2>4 DEF CycleEnds, Emitted, Fallback
    <3> QED
      BY <2>2, <2>3, <3>1
  <2>5. CASE ~(now - beat >= Heartbeat)
    <3>1. heard' = heard /\ told' = told
      BY <2>1, <2>5 DEF CycleEnds, beatVars
    <3> QED
      BY <2>2, <2>3, <2>5, <3>1 DEF HeartbeatIsHeard
  <2> QED
    BY <2>4, <2>5
<1> QED
  BY <1>1, ReportingInvariance, PTL DEF Spec, SilenceIsBounded
==============================================================================
