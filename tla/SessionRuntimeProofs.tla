------------------------ MODULE SessionRuntimeProofs --------------------------
(***************************************************************************)
(* What holds of the input queue and the background reports of a session    *)
(* for any messages and reports, any limits and any number of faults.       *)
(***************************************************************************)
EXTENDS SessionRuntime, SequenceTheorems, WellFoundedInduction, TLAPS

-----------------------------------------------------------------------------
(* Sequences                                                                *)

Distinct(s) == \A i, j \in DOMAIN s : i # j => s[i] # s[j]

\* Appending adds one member.
LEMMA AppendFacts ==
    ASSUME NEW S, NEW s \in Seq(S), NEW e \in S
    PROVE  /\ Append(s, e) \in Seq(S)
           /\ ToSet(Append(s, e)) = ToSet(s) \cup {e}
           /\ Distinct(s) /\ e \notin ToSet(s) => Distinct(Append(s, e))
<1> DEFINE a == Append(s, e)
           n == Len(s)
<1>1. /\ a \in Seq(S) /\ n \in Nat
      /\ DOMAIN s = 1 .. n /\ DOMAIN a = 1 .. n + 1
      /\ \A i \in 1 .. n : a[i] = s[i]
      /\ a[n + 1] = e
  BY AppendProperties, LenProperties
<1>2. 1 .. n + 1 = (1 .. n) \cup {n + 1}
  BY <1>1
<1> HIDE DEF a, n
<1>3. ToSet(a) = ToSet(s) \cup {e}
  BY <1>1, <1>2 DEF ToSet
<1>4. Distinct(s) /\ e \notin ToSet(s) => Distinct(a)
  BY <1>1, <1>2 DEF ToSet, Distinct
<1>5. QED BY <1>1, <1>3, <1>4 DEF a

\* Every set of numbers that is not empty has a least member.
LEMMA LeastExists ==
    ASSUME NEW T \in SUBSET Nat, T # {}
    PROVE  \E m \in T : \A n \in T : m <= n
<1> DEFINE Below == {p \in Nat \X Nat : p[1] < p[2]}
<1>1. IsWellFoundedOn(Below, Nat)
  BY NatLessThanWellFounded DEF OpToRel
<1>2. PICK m \in T : \A n \in T : <<n, m>> \notin Below
  <2> HIDE DEF Below
  <2>1. QED BY <1>1, WFMin
<1>3. ASSUME NEW n \in T PROVE m <= n
  <2>1. m \in Nat /\ n \in Nat /\ ~(n < m)
    BY <1>2
  <2>2. QED BY <2>1
<1>4. QED BY <1>3

\* What was kept of the first n elements.
KeptOf(f, s, gone, n) ==
    IF n = 0 THEN <<>>
    ELSE IF s[n] \in gone THEN f[n - 1] ELSE Append(f[n - 1], s[n])

KeptExists(s, gone, k) == \E f : f = [n \in 0 .. k |-> KeptOf(f, s, gone, n)]

LEMMA KeptIsDefined ==
    ASSUME NEW s, NEW gone, NEW k \in Nat
    PROVE  KeptExists(s, gone, k)
<1> DEFINE Has(n) == \E f : f = [i \in 0 .. n |-> KeptOf(f, s, gone, i)]
           T == {n \in Nat : ~Has(n)}
<1>1. Has(0)
  <2>1. [i \in 0 .. 0 |-> <<>>] = [i \in 0 .. 0 |-> KeptOf([j \in 0 .. 0 |-> <<>>], s, gone, i)]
    BY DEF KeptOf
  <2>2. QED BY <2>1
<1>2. ASSUME NEW n \in Nat, Has(n) PROVE Has(n + 1)
  <2>1. PICK f : f = [i \in 0 .. n |-> KeptOf(f, s, gone, i)]
    BY <1>2
  <2> DEFINE g == [i \in 0 .. n + 1 |-> IF i <= n THEN f[i] ELSE KeptOf(f, s, gone, i)]
  <2>2. ASSUME NEW i \in 0 .. n + 1 PROVE g[i] = KeptOf(g, s, gone, i)
    <3>1. i # 0 => i - 1 \in 0 .. n /\ g[i - 1] = f[i - 1]
      OBVIOUS
    <3>2. KeptOf(g, s, gone, i) = KeptOf(f, s, gone, i)
      BY <3>1 DEF KeptOf
    <3>3. i <= n => f[i] = KeptOf(f, s, gone, i)
      BY <2>1
    <3>4. QED BY <3>2, <3>3
  <2>3. DOMAIN g = 0 .. n + 1
    OBVIOUS
  <2>4. g = [i \in 0 .. n + 1 |-> g[i]]
    OBVIOUS
  <2> HIDE DEF g
  <2>5. g = [i \in 0 .. n + 1 |-> KeptOf(g, s, gone, i)]
    BY <2>2, <2>4
  <2>6. QED BY <2>5
<1>3. T = {}
  <2>1. SUFFICES ASSUME T # {} PROVE FALSE
    OBVIOUS
  <2>2. PICK m \in T : \A n \in T : m <= n
    BY <2>1, LeastExists
  <2> HIDE DEF Has
  <2>3. m \in Nat /\ ~Has(m)
    OBVIOUS
  <2>4. m # 0
    BY <1>1, <2>3
  <2>5. m - 1 \in Nat /\ (m - 1) + 1 = m /\ ~(m <= m - 1)
    BY <2>3, <2>4
  <2>6. Has(m - 1)
    BY <2>2, <2>5
  <2>7. Has((m - 1) + 1)
    BY <1>2, <2>5, <2>6
  <2>8. QED BY <2>3, <2>5, <2>7
<1>4. QED BY <1>3 DEF KeptExists

\* Filtering a sequence takes exactly the members of `gone' from it, and repeats
\* nothing.
LEMMA KeptFacts ==
    ASSUME NEW S, NEW s \in Seq(S), NEW gone
    PROVE  /\ Kept(s, gone) \in Seq(S)
           /\ ToSet(Kept(s, gone)) = ToSet(s) \ gone
           /\ Distinct(s) => Distinct(Kept(s, gone))
<1>1. PICK f : f = [n \in 0 .. Len(s) |-> KeptOf(f, s, gone, n)]
  <2>1. Len(s) \in Nat
    BY LenProperties
  <2>2. KeptExists(s, gone, Len(s))
    BY <2>1, KeptIsDefined
  <2>3. QED BY <2>2 DEF KeptExists
<1>2. PICK g : g = [n \in 0 .. Len(s) |-> KeptOf(g, s, gone, n)] /\ Kept(s, gone) = g[Len(s)]
  BY <1>1 DEF Kept, KeptOf
<1> DEFINE First(n) == {s[i] : i \in 1 .. n}
           Good(n) == /\ g[n] \in Seq(S)
                      /\ ToSet(g[n]) = First(n) \ gone
                      /\ Distinct(s) => Distinct(g[n])
           T == {n \in 0 .. Len(s) : ~Good(n)}
<1>3. Len(s) \in Nat /\ DOMAIN s = 1 .. Len(s)
  BY LenProperties
<1>4. Good(0)
  <2>1. g[0] = <<>>
    BY <1>2, <1>3 DEF KeptOf
  <2>2. First(0) = {}
    OBVIOUS
  <2>3. QED BY <2>1, <2>2, EmptySeq DEF ToSet, Distinct
<1>5. ASSUME NEW n \in 0 .. Len(s), n + 1 <= Len(s), Good(n) PROVE Good(n + 1)
  <2>1. g[n + 1] = IF s[n + 1] \in gone THEN g[n] ELSE Append(g[n], s[n + 1])
    <3>1. n + 1 \in 0 .. Len(s) /\ n + 1 # 0 /\ (n + 1) - 1 = n
      BY <1>3, <1>5
    <3>2. QED BY <1>2, <3>1 DEF KeptOf
  <2>2. First(n + 1) = First(n) \cup {s[n + 1]}
    <3>1. 1 .. (n + 1) = (1 .. n) \cup {n + 1}
      BY <1>3
    <3>2. QED BY <3>1
  <2>3. CASE s[n + 1] \in gone
    <3>1. g[n + 1] = g[n] /\ First(n + 1) \ gone = First(n) \ gone
      BY <2>1, <2>2, <2>3
    <3> HIDE DEF First
    <3>2. QED BY <1>5, <3>1
  <2>4. CASE s[n + 1] \notin gone
    <3>1. s[n + 1] \in S /\ g[n] \in Seq(S)
      BY <1>3, <1>5
    <3>2. g[n + 1] = Append(g[n], s[n + 1])
      BY <2>1, <2>4
    <3>3. /\ g[n + 1] \in Seq(S)
          /\ ToSet(g[n + 1]) = ToSet(g[n]) \cup {s[n + 1]}
          /\ Distinct(g[n]) /\ s[n + 1] \notin ToSet(g[n]) => Distinct(g[n + 1])
      BY <3>1, <3>2, AppendFacts
    <3>4. Distinct(s) => s[n + 1] \notin First(n)
      BY <1>3, <1>5 DEF Distinct
    <3> HIDE DEF First
    <3>5. QED BY <1>5, <2>2, <2>4, <3>3, <3>4
  <2>5. QED BY <2>3, <2>4
<1>6. T = {}
  <2>1. SUFFICES ASSUME T # {} PROVE FALSE
    OBVIOUS
  <2>2. PICK m \in T : \A n \in T : m <= n
    <3>1. T \in SUBSET Nat
      BY <1>3
    <3> HIDE DEF T
    <3>2. QED BY <2>1, <3>1, LeastExists
  <2>3. m # 0 /\ m - 1 \in 0 .. Len(s) /\ (m - 1) + 1 = m /\ m <= Len(s)
    BY <1>3, <1>4
  <2> HIDE DEF Good
  <2>4. Good(m - 1)
    BY <2>2, <2>3
  <2>5. Good((m - 1) + 1)
    BY <1>5, <2>3, <2>4
  <2>6. QED BY <2>3, <2>5
<1>7. Good(Len(s))
  <2> HIDE DEF Good
  <2>1. QED BY <1>3, <1>6
<1>8. First(Len(s)) = ToSet(s)
  BY <1>3 DEF ToSet
<1> HIDE DEF First
<1>9. QED BY <1>2, <1>7, <1>8

LEMMA SetOfConcat ==
    ASSUME NEW S, NEW s \in Seq(S), NEW t \in Seq(S)
    PROVE  /\ s \o t \in Seq(S)
           /\ ToSet(s \o t) = ToSet(s) \cup ToSet(t)
           /\ Distinct(s) /\ Distinct(t) /\ ToSet(s) \cap ToSet(t) = {}
                  => Distinct(s \o t)
<1> DEFINE c == s \o t
           m == Len(s)
           n == Len(t)
<1>1. /\ c \in Seq(S) /\ m \in Nat /\ n \in Nat
      /\ DOMAIN s = 1 .. m /\ DOMAIN t = 1 .. n /\ DOMAIN c = 1 .. m + n
      /\ \A i \in 1 .. m + n : c[i] = IF i <= m THEN s[i] ELSE t[i - m]
  BY ConcatProperties, LenProperties
<1> HIDE DEF c, m, n
<1>2. \A i \in 1 .. m : i \in 1 .. m + n /\ c[i] = s[i]
  BY <1>1
<1>3. \A j \in 1 .. n : m + j \in 1 .. m + n /\ c[m + j] = t[j]
  BY <1>1
<1>4. \A i \in 1 .. m + n : i \in 1 .. m \/ \E j \in 1 .. n : i = m + j
  <2>1. TAKE i \in 1 .. m + n
  <2>2. CASE i <= m
    BY <1>1, <2>2
  <2>3. CASE ~(i <= m)
    <3>1. i - m \in 1 .. n /\ i = m + (i - m)
      BY <1>1, <2>3
    <3>2. QED BY <3>1
  <2>4. QED BY <2>2, <2>3
<1>5. ToSet(c) = ToSet(s) \cup ToSet(t)
  <2>1. ASSUME NEW x \in ToSet(c) PROVE x \in ToSet(s) \cup ToSet(t)
    <3>1. PICK i \in 1 .. m + n : x = c[i]
      BY <1>1 DEF ToSet
    <3>2. CASE i \in 1 .. m
      BY <1>1, <1>2, <3>1, <3>2 DEF ToSet
    <3>3. CASE \E j \in 1 .. n : i = m + j
      BY <1>1, <1>3, <3>1, <3>3 DEF ToSet
    <3>4. QED BY <1>4, <3>2, <3>3
  <2>2. ASSUME NEW x \in ToSet(s) PROVE x \in ToSet(c)
    <3>1. PICK i \in 1 .. m : x = s[i]
      BY <1>1 DEF ToSet
    <3>2. QED BY <1>1, <1>2, <3>1 DEF ToSet
  <2>3. ASSUME NEW x \in ToSet(t) PROVE x \in ToSet(c)
    <3>1. PICK j \in 1 .. n : x = t[j]
      BY <1>1 DEF ToSet
    <3>2. QED BY <1>1, <1>3, <3>1 DEF ToSet
  <2>4. QED BY <2>1, <2>2, <2>3
<1>6. ASSUME Distinct(s), Distinct(t), ToSet(s) \cap ToSet(t) = {}
      PROVE  Distinct(c)
  <2>1. ASSUME NEW i \in 1 .. m + n, NEW j \in 1 .. m + n, i # j
        PROVE  c[i] # c[j]
    <3>1. CASE i \in 1 .. m /\ j \in 1 .. m
      BY <1>1, <1>2, <1>6, <2>1, <3>1 DEF Distinct
    <3>2. ASSUME NEW a \in 1 .. m, NEW b \in 1 .. n
          PROVE  c[a] # c[m + b]
      <4>1. c[a] = s[a] /\ s[a] \in ToSet(s)
        BY <1>1, <1>2 DEF ToSet
      <4>2. c[m + b] = t[b] /\ t[b] \in ToSet(t)
        BY <1>1, <1>3 DEF ToSet
      <4>3. QED BY <1>6, <4>1, <4>2
    <3>3. \A a \in 1 .. m : \A x \in 1 .. m + n :
            (\E k \in 1 .. n : x = m + k) => c[a] # c[x]
      BY <3>2
    <3>4. CASE \/ i \in 1 .. m /\ \E k \in 1 .. n : j = m + k
               \/ j \in 1 .. m /\ \E k \in 1 .. n : i = m + k
      BY Zenon, <2>1, <3>3, <3>4
    <3>5. CASE /\ \E k \in 1 .. n : i = m + k
               /\ \E k \in 1 .. n : j = m + k
      <4>1. PICK k \in 1 .. n : i = m + k
        BY <3>5
      <4>2. PICK l \in 1 .. n : j = m + l
        BY <3>5
      <4>3. k # l /\ t[k] # t[l]
        BY <1>1, <1>6, <2>1, <4>1, <4>2 DEF Distinct
      <4>4. QED BY <1>3, <4>1, <4>2, <4>3
    <3>6. QED BY <1>4, <3>1, <3>4, <3>5
  <2>2. QED BY <1>1, <2>1 DEF Distinct
<1>7. QED BY <1>1, <1>5, <1>6 DEF c

\* A sequence up to position k, the element behind it, and the rest.
LEMMA SplitFacts ==
    ASSUME NEW S, NEW s \in Seq(S), NEW k \in 0 .. Len(s), k < Len(s)
    PROVE  /\ s[k + 1] \in S
           /\ SubSeq(s, k + 2, Len(s)) \in Seq(S)
           /\ k + 2 > Len(s) => SubSeq(s, k + 2, Len(s)) = <<>>
           /\ ToSet(s) = {s[i] : i \in 1 .. k} \cup {s[k + 1]}
                             \cup ToSet(SubSeq(s, k + 2, Len(s)))
           /\ Distinct(s) =>
                  /\ Distinct(SubSeq(s, k + 2, Len(s)))
                  /\ s[k + 1] \notin {s[i] : i \in 1 .. k}
                  /\ ToSet(SubSeq(s, k + 2, Len(s)))
                         \cap ({s[i] : i \in 1 .. k} \cup {s[k + 1]}) = {}
<1> DEFINE n == Len(s)
           r == SubSeq(s, k + 2, n)
<1>1. /\ n \in Nat /\ k \in Nat /\ k < n
      /\ DOMAIN s = 1 .. n /\ \A i \in 1 .. n : s[i] \in S
  BY LenProperties, ElementOfSeq
<1>2. \A i \in k + 2 .. n : s[i] \in S
  BY <1>1
<1>3. /\ r \in Seq(S)
      /\ Len(r) = n - (k + 1)
      /\ \A i \in 1 .. n - (k + 1) : r[i] = s[k + 1 + i]
  <2>1. /\ r \in Seq(S)
        /\ Len(r) = IF k + 2 <= n THEN n - (k + 2) + 1 ELSE 0
        /\ \A i \in 1 .. n - (k + 2) + 1 : r[i] = s[(k + 2) + i - 1]
    BY <1>1, <1>2, SubSeqProperties
  <2> HIDE DEF r, n
  <2>2. n - (k + 2) + 1 = n - (k + 1)
    BY <1>1
  <2>3. Len(r) = n - (k + 1)
    BY <1>1, <2>1, <2>2
  <2>4. ASSUME NEW i \in 1 .. n - (k + 1) PROVE r[i] = s[k + 1 + i]
    <3>1. (k + 2) + i - 1 = k + 1 + i
      BY <1>1
    <3>2. QED BY <2>1, <2>2, <3>1
  <2>5. QED BY <2>1, <2>3, <2>4
<1>4. k + 2 > n => r = <<>>
  BY <1>1, SubSeqEmpty
<1>5. DOMAIN r = 1 .. n - (k + 1)
  BY <1>3, LenProperties
<1> HIDE DEF r, n
<1>6. s[k + 1] \in S /\ k + 1 \in 1 .. n /\ 1 .. k \subseteq 1 .. n
  BY <1>1 DEF n
<1>7. ToSet(r) = {s[i] : i \in k + 2 .. n}
  <2>1. ASSUME NEW i \in k + 2 .. n
        PROVE  i - (k + 1) \in 1 .. n - (k + 1) /\ k + 1 + (i - (k + 1)) = i
    BY <1>1
  <2>2. ASSUME NEW i \in 1 .. n - (k + 1) PROVE k + 1 + i \in k + 2 .. n
    BY <1>1
  <2>3. ASSUME NEW x, x \in ToSet(r) PROVE x \in {s[i] : i \in k + 2 .. n}
    BY <1>3, <1>5, <2>2, <2>3 DEF ToSet
  <2>4. ASSUME NEW i \in k + 2 .. n PROVE s[i] \in ToSet(r)
    BY <1>3, <1>5, <2>1 DEF ToSet
  <2>5. QED BY <2>3, <2>4
<1>8. 1 .. n = (1 .. k) \cup {k + 1} \cup (k + 2 .. n)
  BY <1>1 DEF n
<1>9. ToSet(s) = {s[i] : i \in 1 .. k} \cup {s[k + 1]} \cup ToSet(r)
  BY <1>1, <1>7, <1>8 DEF ToSet
<1>10. ASSUME Distinct(s)
       PROVE  /\ Distinct(r)
              /\ s[k + 1] \notin {s[i] : i \in 1 .. k}
              /\ ToSet(r) \cap ({s[i] : i \in 1 .. k} \cup {s[k + 1]}) = {}
  <2>1. \A i, j \in 1 .. n - (k + 1) : i # j => s[k + 1 + i] # s[k + 1 + j]
    BY <1>1, <1>10 DEF Distinct
  <2>2. Distinct(r)
    BY <1>3, <1>5, <2>1 DEF Distinct
  <2>3. s[k + 1] \notin {s[i] : i \in 1 .. k}
    BY <1>1, <1>6, <1>10 DEF Distinct
  <2>4. \A i \in k + 2 .. n : \A j \in (1 .. k) \cup {k + 1} :
            i \in 1 .. n /\ j \in 1 .. n /\ i # j
    BY <1>1, <1>6
  <2>5. \A i \in k + 2 .. n : \A j \in (1 .. k) \cup {k + 1} : s[i] # s[j]
    BY <1>1, <1>10, <2>4 DEF Distinct
  <2>6. QED BY <1>7, <2>2, <2>3, <2>5
<1>11. QED BY <1>3, <1>4, <1>6, <1>9, <1>10 DEF r, n

-----------------------------------------------------------------------------
(* The invariants                                                           *)

Queued(e)   == ToSet(e.queued)
Promoted(e) == ToSet(e.promoted)
Carried     == ToSet(run.carried)
Boxed       == {mailbox[i].id : i \in DOMAIN mailbox}

\* An entry as the queue operations leave it.
Sound(e) == e \in Entries /\ Promoted(e) \subseteq Queued(e)

\* A message that waits, on disk or in memory, is not the input of the run, and
\* one that the user withdrew is in none of these places.  Only a run that is
\* preparing carries anything, and only a run that works has a mailbox.
Places ==
    /\ Sound(entry) /\ Sound(disk)
    /\ Queued(entry) \cup Queued(disk) \cup (Carried \cap Messages) \subseteq typed
    /\ (Queued(entry) \cup Queued(disk)) \cap Carried = {}
    /\ withdrawn \cap (Queued(entry) \cup Queued(disk) \cup Carried) = {}
    /\ run.phase # "preparing" \/ run.kind = "scheduled" => run.carried = <<>>
    /\ run.phase = "idle" => mailbox = <<>> /\ internals = <<>>

\* Who has been committed was typed, and a receipt is the trace of a commit.
Commits ==
    /\ \A m \in Messages : times[m] > 0 => m \in typed
    /\ \A m \in receipts : times[m] > 0

\* MailboxIsCurrent, for the runs of the scheduler too.
BoxedIsPromoted ==
    Active => \A i \in DOMAIN mailbox :
                  /\ mailbox[i].id \in Promoted(entry)
                  /\ mailbox[i].text = entry.text[mailbox[i].id]

\* The inductive invariant of the queue.
QueueInv ==
    /\ TypeOK /\ Places /\ Commits /\ BoxedIsPromoted
    /\ Accounted /\ CleanMeansSaved /\ WithdrawnStaysOut

\* What waits or is handed over has not been committed, or has a receipt by which
\* the next look at the queue takes it out.
OnceInv ==
    /\ NothingTwice
    /\ \A m \in Queued(entry) \cup Queued(disk) : times[m] > 0 => m \in receipts
    /\ \A m \in Carried \cap Messages : times[m] = 0
    /\ Active => \A m \in Boxed : times[m] = 0

\* A report is with one of those who resolve it, and has not been consumed.
ReportInv ==
    /\ run.kind # "scheduled"
    /\ ReportsTracked
    /\ Distinct(unconfirmed) /\ Distinct(deferred)
    /\ ToSet(unconfirmed) \cap ToSet(deferred) = {}
    /\ ToSet(internals) \subseteq ToSet(unconfirmed)
    /\ Carried \cap Reports \subseteq ToSet(unconfirmed)
    /\ Carried \cap ToSet(internals) = {}
    /\ \A r \in Reports :
           IF reported[r] = "reported" THEN times[r] = 1 /\ r \notin reporting
           ELSE times[r] = 0

-----------------------------------------------------------------------------
(* The queue                                                                *)

Batch(e) == ToSet(Sent(e))

LEMMA EntryIsTyped ==
    ASSUME NEW e \in Entries
    PROVE  /\ e.queued \in Seq(Messages) /\ e.promoted \in Seq(Messages)
           /\ e.text \in [Messages -> 0 .. MaxEdits]
           /\ Queued(e) \subseteq Messages /\ Promoted(e) \subseteq Messages
<1>1. /\ e.queued \in Seq(Messages) /\ e.promoted \in Seq(Messages)
      /\ e.text \in [Messages -> 0 .. MaxEdits]
  BY DEF Entries
<1>2. \A s \in Seq(Messages) : ToSet(s) \subseteq Messages
  BY LenProperties, ElementOfSeq DEF ToSet
<1>3. QED BY <1>1, <1>2 DEF Queued, Promoted

LEMMA WithoutFacts ==
    ASSUME NEW e, Sound(e), NEW gone
    PROVE  /\ Sound(Without(e, gone))
           /\ Without(e, gone).queued = Kept(e.queued, gone)
           /\ Queued(Without(e, gone)) = Queued(e) \ gone
           /\ Promoted(Without(e, gone)) = Promoted(e) \ gone
           /\ Without(e, gone).text = e.text
<1> DEFINE w == Without(e, gone)
<1>1. e \in Entries /\ Promoted(e) \subseteq Queued(e)
  BY DEF Sound
<1>2. /\ w.queued = Kept(e.queued, gone) /\ w.promoted = Kept(e.promoted, gone)
      /\ w.text = e.text
      /\ w \in [queued : {Kept(e.queued, gone)}, promoted : {Kept(e.promoted, gone)},
                text : {e.text}]
  BY <1>1 DEF Entries, Without
<1>3. /\ Kept(e.queued, gone) \in Seq(Messages) /\ Kept(e.promoted, gone) \in Seq(Messages)
      /\ ToSet(Kept(e.queued, gone)) = ToSet(e.queued) \ gone
      /\ ToSet(Kept(e.promoted, gone)) = ToSet(e.promoted) \ gone
  BY <1>1, EntryIsTyped, KeptFacts
<1> HIDE DEF w
<1>4. w \in Entries
  BY <1>1, <1>2, <1>3, EntryIsTyped DEF Entries
<1>5. QED BY <1>1, <1>2, <1>3, <1>4 DEF Sound, Queued, Promoted, w

LEMMA CleanedFacts ==
    ASSUME NEW e, Sound(e)
    PROVE  /\ Sound(Cleaned(e))
           /\ Queued(Cleaned(e)) = Queued(e) \ receipts
           /\ Promoted(Cleaned(e)) = Promoted(e) \ receipts
           /\ Cleaned(e).text = e.text
BY WithoutFacts DEF Cleaned

\* The batch comes out of the queue, and there is one unless the queue is empty.
LEMMA BatchFacts ==
    ASSUME NEW e, Sound(e)
    PROVE  /\ NextBatch(e) \in Seq(Messages) /\ Sent(e) \in Seq(Messages)
           /\ ToSet(NextBatch(e)) \subseteq Queued(e)
           /\ Batch(e) \subseteq ToSet(NextBatch(e))
           /\ NextBatch(e) = <<>> => e.queued = <<>> /\ e.promoted = <<>>
<1> DEFINE q == e.queued
           p == e.promoted
<1>1. q \in Seq(Messages) /\ p \in Seq(Messages) /\ ToSet(p) \subseteq ToSet(q)
  BY EntryIsTyped DEF Sound, Queued, Promoted
<1>2. CASE p # <<>>
  <2>1. NextBatch(e) = p
    BY <1>2 DEF NextBatch
  <2>2. Sent(e) \in Seq(Messages) /\ Batch(e) \subseteq ToSet(NextBatch(e))
    BY <1>1, <2>1, KeptFacts DEF Sent, Batch
  <2>3. QED BY <1>1, <1>2, <2>1, <2>2 DEF Queued
<1>3. CASE p = <<>> /\ q = <<>>
  <2>1. NextBatch(e) = SubSeq(<<>>, 1, 0)
    BY <1>3 DEF NextBatch
  <2>2. NextBatch(e) = <<>>
    BY <2>1, SubSeqEmpty
  <2>3. NextBatch(e) \in Seq(Messages) /\ ToSet(NextBatch(e)) = {}
    BY <2>2, EmptySeq DEF ToSet
  <2>4. Sent(e) \in Seq(Messages) /\ Batch(e) \subseteq ToSet(NextBatch(e))
    BY <2>3, KeptFacts DEF Sent, Batch
  <2>5. QED BY <1>3, <2>3, <2>4
<1>4. CASE p = <<>> /\ q # <<>>
  <2>1. NextBatch(e) = SubSeq(q, 1, 1)
    BY <1>4 DEF NextBatch
  <2>2. Len(q) \in Nat /\ 1 <= Len(q) /\ DOMAIN q = 1 .. Len(q)
    BY <1>1, <1>4, EmptySeq, LenProperties
  <2>3. \A i \in 1 .. 1 : q[i] \in Messages /\ q[i] \in ToSet(q)
    BY <1>1, <2>2, ElementOfSeq DEF ToSet
  <2>4. /\ SubSeq(q, 1, 1) \in Seq(Messages)
        /\ Len(SubSeq(q, 1, 1)) = 1
        /\ SubSeq(q, 1, 1)[1] = q[1]
    BY <2>3, SubSeqProperties
  <2>5. NextBatch(e) \in Seq(Messages) /\ DOMAIN NextBatch(e) = 1 .. 1
    BY <2>1, <2>4, LenProperties
  <2>6. ToSet(NextBatch(e)) \subseteq Queued(e) /\ NextBatch(e) # <<>>
    BY <2>1, <2>3, <2>4, <2>5, EmptySeq DEF ToSet, Queued
  <2>7. Sent(e) \in Seq(Messages) /\ Batch(e) \subseteq ToSet(NextBatch(e))
    BY <2>5, KeptFacts DEF Sent, Batch
  <2>8. QED BY <2>5, <2>6, <2>7
<1>5. QED BY <1>2, <1>3, <1>4

\* What is sent leaves the queue, and nothing else does.
LEMMA HandedOverFacts ==
    ASSUME NEW e, Sound(e)
    PROVE  /\ Sound(HandedOver(e))
           /\ HandedOver(e).queued = Kept(e.queued, Batch(e))
           /\ Queued(HandedOver(e)) = Queued(e) \ Batch(e)
           /\ HandedOver(e).promoted = Kept(e.promoted, ToSet(NextBatch(e)))
           /\ HandedOver(e).text = e.text
<1> DEFINE w == Without(e, ToSet(NextBatch(e)))
           h == HandedOver(e)
<1>1. /\ Sound(w) /\ w.promoted = Kept(e.promoted, ToSet(NextBatch(e)))
      /\ w.text = e.text
      /\ Promoted(w) = Promoted(e) \ ToSet(NextBatch(e))
      /\ Without(e, Batch(e)).queued = Kept(e.queued, Batch(e))
  <2>1. e \in Entries
    BY DEF Sound
  <2>2. w.promoted = Kept(e.promoted, ToSet(NextBatch(e)))
    BY <2>1 DEF Without, Entries
  <2>3. QED BY <2>2, WithoutFacts
<1>2. w \in Entries
  BY <1>1 DEF Sound
<1>3. h = [w EXCEPT !.queued = Kept(e.queued, Batch(e))]
  BY <1>1 DEF HandedOver, Batch
<1> HIDE DEF w, h
<1>4. /\ h.queued = Kept(e.queued, Batch(e)) /\ h.promoted = w.promoted /\ h.text = w.text
      /\ h \in [queued : {Kept(e.queued, Batch(e))}, promoted : {w.promoted},
                text : {w.text}]
  BY <1>2, <1>3 DEF Entries
<1>5. /\ Kept(e.queued, Batch(e)) \in Seq(Messages)
      /\ ToSet(Kept(e.queued, Batch(e))) = ToSet(e.queued) \ Batch(e)
  <2>1. e.queued \in Seq(Messages)
    BY EntryIsTyped DEF Sound
  <2>2. QED BY <2>1, KeptFacts
<1>6. h \in Entries
  BY <1>2, <1>4, <1>5, EntryIsTyped DEF Entries
<1>7. Promoted(h) \subseteq Queued(h)
  <2>1. Promoted(h) = Promoted(e) \ ToSet(NextBatch(e))
    BY <1>1, <1>4 DEF Promoted
  <2>2. QED BY <1>4, <1>5, <2>1, BatchFacts DEF Queued, Sound
<1>8. QED BY <1>1, <1>4, <1>5, <1>6, <1>7 DEF Sound, Queued, h

\* Put back, all of it is in the queue again.
LEMMA PutBackFacts ==
    ASSUME NEW e, Sound(e)
    PROVE  /\ Sound(PutBack(e))
           /\ Queued(PutBack(e)) = Queued(e)
           /\ PutBack(e).text = e.text
<1> DEFINE h == HandedOver(e)
           p == IF e.promoted = <<>> THEN <<>> ELSE Sent(e)
           b == PutBack(e)
<1>1. h \in Entries /\ Sound(h) /\ Queued(h) = Queued(e) \ Batch(e) /\ h.text = e.text
  BY HandedOverFacts DEF Sound
<1>2. b = [h EXCEPT !.queued = Sent(e) \o @, !.promoted = p]
  BY DEF PutBack
<1>3. /\ Sent(e) \in Seq(Messages) /\ h.queued \in Seq(Messages) /\ p \in Seq(Messages)
      /\ Batch(e) \subseteq Queued(e) /\ ToSet(p) \subseteq Batch(e)
  <2>1. ToSet(<<>>) = {} /\ <<>> \in Seq(Messages)
    BY EmptySeq DEF ToSet
  <2>2. QED BY <1>1, <2>1, BatchFacts, EntryIsTyped DEF Batch
<1> HIDE DEF h, p, b
<1>4. /\ b.queued = Sent(e) \o h.queued /\ b.promoted = p /\ b.text = h.text
      /\ b \in [queued : {Sent(e) \o h.queued}, promoted : {p}, text : {h.text}]
  BY <1>1, <1>2 DEF Entries
<1>5. /\ Sent(e) \o h.queued \in Seq(Messages)
      /\ ToSet(Sent(e) \o h.queued) = Batch(e) \cup Queued(h)
  BY <1>3, SetOfConcat DEF Batch, Queued
<1>6. b \in Entries
  BY <1>1, <1>3, <1>4, <1>5, EntryIsTyped DEF Entries
<1>7. QED BY <1>1, <1>3, <1>4, <1>5, <1>6 DEF Sound, Queued, Promoted, b

LEMMA ReadingFacts ==
    ASSUME NEW e, Sound(e), NEW f \in Nat, NEW c \in Reading(e, f)
    PROVE  /\ Sound(c.left) /\ c.left.text = e.text
           /\ Queued(c.left) \subseteq Queued(e)
           /\ Queued(e) \ receipts \subseteq Queued(c.left)
           /\ Promoted(c.left) \subseteq Promoted(e)
           /\ ~ReceiptsMayFail => Queued(c.left) \cap receipts = {}
           /\ c.faults \in Nat /\ c.faults >= f
<1>1. \/ c.left = Cleaned(e) /\ c.faults = f
      \/ ReceiptsMayFail /\ c.left = e /\ c.faults = f + 1
  <2>1. \/ c = [left |-> Cleaned(e), faults |-> f]
        \/ ReceiptsMayFail /\ c = [left |-> e, faults |-> f + 1]
    BY DEF Reading
  <2>2. QED BY <2>1
<1>2. CASE c.left = Cleaned(e) /\ c.faults = f
  BY <1>2, CleanedFacts
<1>3. CASE ReceiptsMayFail /\ c.left = e /\ c.faults = f + 1
  BY <1>3
<1>4. QED BY <1>1, <1>2, <1>3

\* What drain does to a queue e with d on disk.
Drained(e, d, f) ==
    /\ Sound(entry') /\ Sound(disk') /\ dirty' \in BOOLEAN /\ (~dirty' => disk' = entry')
    /\ Queued(entry') \cup Queued(disk') \subseteq Queued(e) \cup Queued(d)
    /\ Queued(e) \ receipts \subseteq Queued(entry') \cup Carried'
    /\ Carried' \subseteq Queued(e) \ (Queued(entry') \cup Queued(disk'))
    /\ ~ReceiptsMayFail => Carried' \cap receipts = {}
    /\ faults' \in Nat /\ faults' >= f
    /\ \/ run' = NoRun /\ UNCHANGED remembered /\ (faults' = f => entry'.queued = <<>>)
       \/ \E batch \in Seq(Messages) :
              run' = Started("queued", batch) /\ remembered' = TRUE

LEMMA NothingCarried == ToSet(NoRun.carried) = {}
BY DEF NoRun, ToSet

LEMMA DrainFacts ==
    ASSUME NEW e, Sound(e), NEW d, Sound(d), NEW f \in Nat, DrainFrom(e, d, f)
    PROVE  Drained(e, d, f)
<1>1. PICK c \in Reading(e, f) :
        LET q == c.left
        IN  \/ /\ NextBatch(q) = <<>>
               /\ entry' = q /\ StayIdle
               /\ \/ disk' = q /\ dirty' = FALSE /\ faults' = c.faults
                  \/ disk' = d /\ dirty' = TRUE /\ faults' = c.faults + 1
            \/ /\ NextBatch(q) # <<>>
               /\ entry' = q /\ StayIdle
               /\ disk' \in {d, q} /\ dirty' = TRUE /\ faults' = c.faults + 1
            \/ /\ NextBatch(q) # <<>>
               /\ entry' = HandedOver(q) /\ disk' = HandedOver(q) /\ dirty' = FALSE
               /\ Launch("queued", Sent(q)) /\ faults' = c.faults
            \/ /\ NextBatch(q) # <<>>
               /\ entry' = PutBack(q) /\ StayIdle
               /\ \/ disk' = PutBack(q) /\ dirty' = FALSE /\ faults' = c.faults + 1
                  \/ disk' = HandedOver(q) /\ dirty' = TRUE /\ faults' = c.faults + 2
  BY DEF DrainFrom
<1> DEFINE q == c.left
<1>2. /\ Sound(q)
      /\ Queued(q) \subseteq Queued(e)
      /\ Queued(e) \ receipts \subseteq Queued(q)
      /\ ~ReceiptsMayFail => Queued(q) \cap receipts = {}
      /\ c.faults \in Nat /\ c.faults >= f
  BY ReadingFacts
<1> HIDE DEF q
<1>3. StayIdle => run' = NoRun /\ UNCHANGED remembered /\ Carried' = {}
  BY NothingCarried DEF StayIdle, Carried
<1>4. CASE NextBatch(q) = <<>> /\ entry' = q /\ StayIdle /\
             (\/ disk' = q /\ dirty' = FALSE /\ faults' = c.faults
              \/ disk' = d /\ dirty' = TRUE /\ faults' = c.faults + 1)
  <2>1. q.queued = <<>>
    BY <1>2, <1>4, BatchFacts
  <2>2. Sound(disk') /\ Queued(disk') \subseteq Queued(e) \cup Queued(d)
    BY <1>2, <1>4
  <2>3. faults' \in Nat /\ faults' >= f
    BY <1>2, <1>4
  <2>4. QED BY <1>2, <1>3, <1>4, <2>1, <2>2, <2>3 DEF Drained
<1>5. CASE NextBatch(q) # <<>> /\ entry' = q /\ StayIdle
             /\ disk' \in {d, q} /\ dirty' = TRUE /\ faults' = c.faults + 1
  <2>1. faults' \in Nat /\ faults' >= f /\ faults' # f
    BY <1>2, <1>5
  <2>2. QED BY <1>2, <1>3, <1>5, <2>1 DEF Drained
<1>6. CASE NextBatch(q) # <<>> /\ entry' = HandedOver(q) /\ disk' = HandedOver(q)
             /\ dirty' = FALSE /\ Launch("queued", Sent(q)) /\ faults' = c.faults
  <2>1. /\ Sound(HandedOver(q)) /\ Queued(HandedOver(q)) = Queued(q) \ Batch(q)
        /\ Sent(q) \in Seq(Messages) /\ Batch(q) \subseteq Queued(q)
    BY <1>2, BatchFacts, HandedOverFacts
  <2>2. run' = Started("queued", Sent(q)) /\ remembered' = TRUE /\ Carried' = Batch(q)
    BY <1>6 DEF Launch, Started, Carried, Batch
  <2>3. QED BY <1>2, <1>6, <2>1, <2>2 DEF Drained
<1>7. CASE NextBatch(q) # <<>> /\ entry' = PutBack(q) /\ StayIdle /\
             (\/ disk' = PutBack(q) /\ dirty' = FALSE /\ faults' = c.faults + 1
              \/ disk' = HandedOver(q) /\ dirty' = TRUE /\ faults' = c.faults + 2)
  <2>1. /\ Sound(HandedOver(q)) /\ Queued(HandedOver(q)) \subseteq Queued(q)
        /\ Sound(PutBack(q)) /\ Queued(PutBack(q)) = Queued(q)
    BY <1>2, HandedOverFacts, PutBackFacts
  <2>2. faults' \in Nat /\ faults' >= f /\ faults' # f
    BY <1>2, <1>7
  <2>3. QED BY <1>2, <1>3, <1>7, <2>1, <2>2 DEF Drained
<1>8. QED BY <1>1, <1>4, <1>5, <1>6, <1>7 DEF q

\* What syncInterject does to the queue and to the mailbox of a run that works.
Synced(e, f) ==
    /\ Sound(entry') /\ Sound(disk') /\ dirty' \in BOOLEAN /\ (~dirty' => disk' = entry')
    /\ Queued(entry') \cup Queued(disk') \subseteq Queued(e)
    /\ Queued(e) \ receipts \subseteq Queued(entry')
    /\ faults' \in Nat /\ faults' >= f
    /\ IF Active
       THEN /\ mailbox' \in Seq([id : Messages, text : 0 .. MaxEdits])
            /\ \A i \in DOMAIN mailbox' :
                   /\ mailbox'[i].id \in Promoted(entry')
                   /\ mailbox'[i].text = entry'.text[mailbox'[i].id]
            /\ ~ReceiptsMayFail => Promoted(entry') \cap receipts = {}
       ELSE UNCHANGED mailbox

LEMMA SyncFacts ==
    ASSUME NEW e, Sound(e), NEW f \in Nat, SyncFrom(e, e, f)
    PROVE  Synced(e, f)
<1>1. CASE ~Active
  <2>1. entry' = e /\ disk' = e /\ dirty' = FALSE /\ faults' = f /\ UNCHANGED mailbox
    BY <1>1 DEF SyncFrom
  <2>2. /\ Sound(entry') /\ Sound(disk') /\ dirty' \in BOOLEAN /\ (~dirty' => disk' = entry')
        /\ Queued(entry') = Queued(e) /\ Queued(disk') = Queued(e)
    BY <2>1
  <2>3. faults' \in Nat /\ faults' >= f
    BY <2>1
  <2>4. QED BY <1>1, <2>1, <2>2, <2>3, Zenon DEF Synced
<1>2. CASE Active
  <2>1. PICK c \in Reading(e, f) :
             /\ entry' = c.left
             /\ mailbox' = [i \in DOMAIN c.left.promoted |->
                    [id |-> c.left.promoted[i], text |-> c.left.text[c.left.promoted[i]]]]
             /\ \/ disk' = c.left /\ dirty' = FALSE /\ faults' = c.faults
                \/ c.left # e /\ disk' = e /\ dirty' = TRUE /\ faults' = c.faults + 1
    BY <1>2 DEF SyncFrom
  <2> DEFINE q == c.left
  <2>2. /\ Sound(q)
        /\ Queued(q) \subseteq Queued(e)
        /\ Queued(e) \ receipts \subseteq Queued(q)
        /\ ~ReceiptsMayFail => Queued(q) \cap receipts = {}
        /\ c.faults \in Nat /\ c.faults >= f
    BY ReadingFacts
  <2> DEFINE p == q.promoted
             n == Len(q.promoted)
  <2>3. mailbox' = [i \in DOMAIN p |-> [id |-> p[i], text |-> q.text[p[i]]]]
    BY <2>1
  <2> HIDE DEF q
  <2>4. /\ n \in Nat /\ DOMAIN p = 1 .. n
        /\ \A i \in 1 .. n : p[i] \in Messages /\ p[i] \in Promoted(q)
        /\ q.text \in [Messages -> 0 .. MaxEdits]
    BY <2>2, EntryIsTyped, LenProperties, ElementOfSeq DEF Sound, Promoted, ToSet
  <2> HIDE DEF p, n
  <2>5. mailbox' \in [1 .. n -> [id : Messages, text : 0 .. MaxEdits]]
    BY <2>3, <2>4
  <2>6. mailbox' \in Seq([id : Messages, text : 0 .. MaxEdits])
    <3> DEFINE R == [id : Messages, text : 0 .. MaxEdits]
    <3>1. mailbox' \in [1 .. n -> R]
      BY <2>5
    <3> HIDE DEF R
    <3>2. mailbox' \in Seq(R)
      BY <2>4, <3>1, SeqDef
    <3>3. QED BY <3>2 DEF R
  <2>7. \A i \in DOMAIN mailbox' :
            /\ mailbox'[i].id \in Promoted(q)
            /\ mailbox'[i].text = q.text[mailbox'[i].id]
    BY <2>3, <2>4
  <2>8. /\ entry' = q
        /\ \/ disk' = q /\ dirty' = FALSE
           \/ disk' = e /\ dirty' = TRUE
    BY <2>1 DEF q
  <2>9. faults' \in Nat /\ faults' >= f
    BY <2>1, <2>2
  <2>10. Promoted(q) \subseteq Queued(q)
    BY <2>2 DEF Sound
  <2>11. QED BY <1>2, <2>2, <2>6, <2>7, <2>8, <2>9, <2>10 DEF Synced
<1>3. QED BY <1>1, <1>2

-----------------------------------------------------------------------------
(* Types                                                                    *)

RunRecords == [kind : Kinds, phase : Phases, stop : BOOLEAN,
               carried : Seq(Messages \cup Reports)]

LEMMA RunIsTyped ==
    /\ NoRun \in RunRecords
    /\ \A kind \in Kinds : \A s \in Seq(Messages \cup Reports) :
           Started(kind, s) \in RunRecords
    /\ <<>> \in Seq(Messages \cup Reports)
    /\ Seq(Messages) \subseteq Seq(Messages \cup Reports)
    /\ \A r \in Reports : <<r>> \in Seq(Reports) /\ Started("internal", <<r>>) \in RunRecords
<1>1. <<>> \in Seq(Messages \cup Reports)
  BY EmptySeq
<1>2. Seq(Messages) \subseteq Seq(Messages \cup Reports)
  BY SeqMonotonic
<1>3. NoRun \in RunRecords
  BY <1>1 DEF NoRun, RunRecords, Kinds, Phases
<1>4. \A kind \in Kinds : \A s \in Seq(Messages \cup Reports) :
          Started(kind, s) \in RunRecords
  BY DEF Started, RunRecords, Phases
<1>5. \A r \in Reports : <<r>> \in Seq(Messages \cup Reports) /\ <<r>> \in Seq(Reports)
  OBVIOUS
<1>6. \A r \in Reports : Started("internal", <<r>>) \in RunRecords
  BY <1>4, <1>5 DEF Kinds
<1>7. QED BY <1>1, <1>2, <1>3, <1>4, <1>5, <1>6

LEMMA DrainIsTyped ==
    ASSUME NEW e, NEW d, NEW f, Drained(e, d, f), TypeOK
    PROVE  /\ entry' \in Entries /\ disk' \in Entries /\ dirty' \in BOOLEAN
           /\ run' \in RunRecords /\ remembered' \in BOOLEAN
<1>1. run' \in RunRecords /\ remembered' \in BOOLEAN
  <2>1. CASE run' = NoRun /\ UNCHANGED remembered
    BY <2>1, RunIsTyped DEF TypeOK
  <2>2. CASE \E batch \in Seq(Messages) :
                 run' = Started("queued", batch) /\ remembered' = TRUE
    BY <2>2, RunIsTyped DEF Kinds
  <2>3. \/ run' = NoRun /\ UNCHANGED remembered
        \/ \E batch \in Seq(Messages) :
               run' = Started("queued", batch) /\ remembered' = TRUE
    BY DEF Drained
  <2>4. QED BY <2>1, <2>2, <2>3, Zenon
<1>2. QED BY <1>1 DEF Drained, Sound

\* Somebody's report under way: in a run, or waiting.
ReportTypes ==
    /\ internals \in Seq(Reports) /\ unconfirmed \in Seq(Reports)
    /\ deferred \in Seq(Reports) /\ attempts \in 0 .. MaxAttempts
    /\ reporting \subseteq Reports
    /\ reported \in [Reports -> {"none", "pending", "reported"}]

\* What flushing a list of reports does: the first that can be launched has the run.
LEMMA FlushFacts ==
    ASSUME TypeOK, NEW list \in Seq(Reports), NEW k \in 0 .. Len(list),
           NEW base \in SUBSET Reports, NEW f \in Nat, FlushUpTo(list, k, base, f)
    PROVE  /\ unconfirmed' \in Seq(Reports) /\ deferred' \in Seq(Reports)
           /\ attempts' \in 0 .. MaxAttempts /\ reporting' \subseteq Reports
           /\ reported' \in [Reports -> {"none", "pending", "reported"}]
           /\ k < Len(list) =>
                  /\ \E r \in Reports :
                         /\ run' = Started("internal", <<r>>) /\ remembered' = TRUE
                         /\ unconfirmed' = <<r>>
                  /\ faults' \in Nat /\ faults' >= f
                  /\ deferred' # <<>> => attempts' > 0
           /\ k = Len(list) => unconfirmed' = <<>> /\ deferred' = <<>>
           /\ Distinct(list) =>
                  /\ Distinct(unconfirmed') /\ Distinct(deferred')
                  /\ ToSet(unconfirmed') \cap ToSet(deferred') = {}
                  /\ ToSet(unconfirmed') \cup ToSet(deferred') \subseteq ToSet(list)
                  /\ reporting' = (base \ ToSet(list))
                                      \cup (base \cap (ToSet(unconfirmed') \cup ToSet(deferred')))
<1>1. Len(list) \in Nat /\ DOMAIN list = 1 .. Len(list) /\ k \in Nat /\ k <= Len(list)
  BY LenProperties
<1> DEFINE refused == {list[i] : i \in 1 .. k}
<1>2. reporting' = base \ refused
  BY DEF FlushUpTo
<1>3. reported' = [r \in Reports |->
          IF r \in refused \cup (reporting \ base) THEN "pending" ELSE reported[r]]
  BY DEF FlushUpTo
<1>4. reporting' \subseteq Reports /\ reported' \in [Reports -> {"none", "pending", "reported"}]
  BY <1>2, <1>3 DEF TypeOK
<1>5. ToSet(<<>>) = {} /\ Distinct(<<>>) /\ <<>> \in Seq(Reports)
  BY EmptySeq DEF ToSet, Distinct
<1>6. CASE k < Len(list)
  <2> DEFINE r == list[k + 1]
             rest == SubSeq(list, k + 2, Len(list))
  <2>1. /\ r \in Reports
        /\ rest \in Seq(Reports)
        /\ k + 2 > Len(list) => rest = <<>>
        /\ ToSet(list) = refused \cup {r} \cup ToSet(rest)
        /\ Distinct(list) =>
               /\ Distinct(rest)
               /\ r \notin refused
               /\ ToSet(rest) \cap (refused \cup {r}) = {}
    BY <1>6, SplitFacts
  <2>2. /\ run' = Started("internal", <<r>>) /\ remembered' = TRUE
        /\ unconfirmed' = <<r>>
        /\ deferred' = rest
        /\ attempts' = IF k + 2 > Len(list) THEN 0 ELSE 1
        /\ faults' = f + k
    BY <1>6 DEF FlushUpTo, Launch
  <2> HIDE DEF r, rest, refused
  <2>3. attempts' \in 0 .. MaxAttempts /\ (deferred' # <<>> => attempts' > 0)
    BY <2>1, <2>2, SessionAssumption
  <2>4. faults' \in Nat /\ faults' >= f
    BY <1>1, <2>2
  <2>5. ToSet(unconfirmed') = {r} /\ Distinct(unconfirmed') /\ unconfirmed' \in Seq(Reports)
    BY <2>1, <2>2 DEF ToSet, Distinct
  <2>6. ASSUME Distinct(list)
        PROVE  /\ Distinct(deferred') /\ ToSet(unconfirmed') \cap ToSet(deferred') = {}
               /\ ToSet(unconfirmed') \cup ToSet(deferred') \subseteq ToSet(list)
               /\ reporting' = (base \ ToSet(list))
                                   \cup (base \cap (ToSet(unconfirmed') \cup ToSet(deferred')))
    BY <1>2, <2>1, <2>2, <2>5, <2>6
  <2>7. \E x \in Reports : /\ run' = Started("internal", <<x>>) /\ remembered' = TRUE
                            /\ unconfirmed' = <<x>>
    BY <2>1, <2>2
  <2>8. ~(k = Len(list)) /\ deferred' \in Seq(Reports)
    <3>1. \A a, b \in Nat : a < b => ~(a = b)
      OBVIOUS
    <3>2. ~(k = Len(list))
      BY <1>1, <1>6, <3>1, Zenon
    <3>3. QED BY <2>1, <2>2, <3>2
  <2>9. QED BY <1>4, <2>3, <2>4, <2>5, <2>6, <2>7, <2>8
<1>7. CASE k = Len(list)
  <2>1. unconfirmed' = <<>> /\ deferred' = <<>>
        /\ attempts' = IF list = <<>> THEN attempts ELSE 0
    BY <1>1, <1>7 DEF FlushUpTo
  <2>2. attempts' \in 0 .. MaxAttempts
    BY <2>1, SessionAssumption DEF TypeOK
  <2>3. refused = ToSet(list)
    BY <1>1, <1>7 DEF ToSet
  <2> HIDE DEF refused
  <2>4. ~(k < Len(list))
    BY <1>1, <1>7
  <2>5. ToSet(unconfirmed') = {} /\ ToSet(deferred') = {} /\ reporting' = base \ ToSet(list)
    BY <1>2, <1>5, <2>1, <2>3
  <2>6. Distinct(unconfirmed') /\ Distinct(deferred')
    BY <1>5, <2>1
  <2>7. unconfirmed' \in Seq(Reports) /\ deferred' \in Seq(Reports)
    BY <1>5, <2>1
  <2>8. QED BY <1>4, <2>1, <2>2, <2>4, <2>5, <2>6, <2>7
<1>8. k < Len(list) \/ k = Len(list)
  <2>1. \A a, b \in Nat : a <= b => a < b \/ a = b
    OBVIOUS
  <2>2. QED BY <1>1, <2>1, Zenon
<1>9. QED BY <1>6, <1>7, <1>8

\* Delivering a report: to the run, to those that wait, or in a run of its own.
LEMMA DeliverIsTyped ==
    ASSUME TypeOK, NEW r \in Reports, Deliver(r)
    PROVE  /\ ReportTypes' /\ run' \in RunRecords /\ remembered' \in BOOLEAN
           /\ faults' \in Nat
<1>1. reported' \in [Reports -> {"none", "pending", "reported"}]
  BY DEF Deliver, TypeOK
<1>2. reporting' \subseteq Reports
  BY DEF Deliver, TypeOK
<1>3. run' \in RunRecords /\ remembered' \in BOOLEAN
  <2>1. \/ UNCHANGED runVars
        \/ run' = Started("internal", <<r>>) /\ remembered' = TRUE
    BY DEF Deliver, Launch
  <2>2. Started("internal", <<r>>) \in RunRecords
    BY RunIsTyped
  <2>3. QED BY <2>1, <2>2 DEF runVars, TypeOK, RunRecords
<1>4. /\ internals' \in Seq(Reports) /\ unconfirmed' \in Seq(Reports)
      /\ deferred' \in Seq(Reports)
  <2>1. <<r>> \in Seq(Reports) /\ \A s \in Seq(Reports) : Append(s, r) \in Seq(Reports)
    BY AppendProperties, RunIsTyped
  <2>2. internals \in Seq(Reports) /\ unconfirmed \in Seq(Reports) /\ deferred \in Seq(Reports)
    BY DEF TypeOK
  <2>3. /\ internals' \in {internals, Append(internals, r)}
        /\ unconfirmed' \in {unconfirmed, Append(unconfirmed, r), <<r>>}
        /\ deferred' \in {deferred, Append(deferred, r)}
    BY DEF Deliver
  <2>4. QED BY <2>1, <2>2, <2>3
<1>5. attempts' \in 0 .. MaxAttempts /\ faults' \in Nat
  BY SessionAssumption DEF Deliver, TypeOK
<1>6. QED BY <1>1, <1>2, <1>3, <1>4, <1>5 DEF ReportTypes

LEMMA RetryIsTyped ==
    ASSUME TypeOK, RetryTick
    PROVE  /\ ReportTypes' /\ run' \in RunRecords /\ remembered' \in BOOLEAN
           /\ faults' \in Nat
<1> USE DEF runVars
<1>1. /\ run \in RunRecords /\ remembered \in BOOLEAN /\ faults \in Nat
      /\ deferred \in Seq(Reports) /\ ReportTypes /\ Len(deferred) \in Nat
  BY LenProperties DEF TypeOK, RunRecords, ReportTypes
<1>2. CASE /\ deferred = <<>> /\ attempts' = 0
           /\ UNCHANGED <<queueVars, runVars, boxVars, unconfirmed, deferred, reporting,
                          reported, faults>>
  BY <1>1, <1>2, SessionAssumption DEF ReportTypes, boxVars
<1>3. CASE FlushIntoActive
  <2>1. /\ attempts' \in 0 .. MaxAttempts /\ internals' \in Seq(Reports)
        /\ unconfirmed' \in Seq(Reports) /\ deferred' \in Seq(Reports)
    <3>1. /\ \A s, t \in Seq(Reports) : s \o t \in Seq(Reports)
          /\ <<>> \in Seq(Reports)
          /\ 0 \in 0 .. MaxAttempts /\ 1 \in 0 .. MaxAttempts
      BY SessionAssumption, ConcatProperties, EmptySeq
    <3>2. /\ attempts' \in {0, 1}
          /\ internals' \in {internals, internals \o deferred}
          /\ unconfirmed' \in {unconfirmed, unconfirmed \o deferred}
          /\ deferred' \in {deferred, <<>>}
      BY <1>3 DEF FlushIntoActive
    <3>3. QED BY <1>1, <3>1, <3>2 DEF ReportTypes
  <2>2. QED BY <1>1, <1>3, <2>1 DEF FlushIntoActive, ReportTypes
<1>4. CASE GiveUp
  <2>1. attempts' \in 0 .. MaxAttempts
    BY <1>1, <1>4, SessionAssumption DEF GiveUp, ReportTypes
  <2>2. /\ deferred' \in Seq(Reports) /\ reporting' \subseteq Reports
        /\ reported' \in [Reports -> {"none", "pending", "reported"}]
    BY <1>1, <1>4, EmptySeq DEF GiveUp, ReportTypes
  <2>3. QED BY <1>1, <1>4, <2>1, <2>2 DEF GiveUp, ReportTypes, boxVars
<1>5. CASE /\ deferred # <<>> /\ ~Busy
           /\ \E k \in 0 .. Len(deferred) :
                  /\ FlushUpTo(deferred, k, reporting, faults)
                  /\ k = Len(deferred) => faults' = faults + k /\ UNCHANGED runVars
           /\ UNCHANGED <<queueVars, boxVars>>
  <2>1. PICK k \in 0 .. Len(deferred) :
            /\ FlushUpTo(deferred, k, reporting, faults)
            /\ k = Len(deferred) => faults' = faults + k /\ UNCHANGED runVars
    BY <1>5
  <2>2. reporting \in SUBSET Reports
    BY <1>1 DEF ReportTypes
  <2>3. /\ unconfirmed' \in Seq(Reports) /\ deferred' \in Seq(Reports)
        /\ attempts' \in 0 .. MaxAttempts /\ reporting' \subseteq Reports
        /\ reported' \in [Reports -> {"none", "pending", "reported"}]
        /\ k < Len(deferred) =>
               /\ \E r \in Reports :
                      run' = Started("internal", <<r>>) /\ remembered' = TRUE
               /\ faults' \in Nat
    BY <1>1, <2>1, <2>2, FlushFacts
  <2>4. ReportTypes'
    BY <1>1, <1>5, <2>3 DEF ReportTypes, boxVars
  <2>5. k \in Nat /\ (k < Len(deferred) \/ k = Len(deferred))
    <3>1. \A n \in Nat : \A i \in 0 .. n : i \in Nat /\ (i < n \/ i = n)
      OBVIOUS
    <3>2. QED BY <1>1, <3>1, Zenon
  <2>6. CASE k < Len(deferred)
    <3>1. PICK r \in Reports : run' = Started("internal", <<r>>) /\ remembered' = TRUE
      BY <2>3, <2>6
    <3>2. run' \in RunRecords
      BY <3>1, RunIsTyped
    <3>3. QED BY <2>3, <2>4, <2>6, <3>1, <3>2
  <2>7. CASE k = Len(deferred)
    <3>1. faults' \in Nat /\ UNCHANGED runVars
      BY <1>1, <2>1, <2>5, <2>7
    <3>2. QED BY <1>1, <2>4, <3>1
  <2>8. QED BY <2>5, <2>6, <2>7
<1>6. QED BY <1>2, <1>3, <1>4, <1>5 DEF RetryTick

-----------------------------------------------------------------------------
(* The entry as the user changes it                                         *)

Enqueued(m) == [entry EXCEPT !.queued = Append(@, m)]
Toggled(m)  == [entry EXCEPT !.promoted =
                    IF m \in ToSet(@) THEN Kept(@, {m}) ELSE Append(@, m)]
Edited(m)   == [entry EXCEPT !.text[m] = @ + 1]

LEMMA EnqueuedFacts ==
    ASSUME Sound(entry), NEW m \in Messages
    PROVE  /\ Sound(Enqueued(m))
           /\ Queued(Enqueued(m)) = Queued(entry) \cup {m}
           /\ Promoted(Enqueued(m)) = Promoted(entry)
           /\ Enqueued(m).text = entry.text
<1> DEFINE e == Enqueued(m)
<1>1. entry \in Entries /\ Promoted(entry) \subseteq Queued(entry)
  BY DEF Sound
<1>2. /\ e.queued = Append(entry.queued, m) /\ e.promoted = entry.promoted
      /\ e.text = entry.text
      /\ e \in [queued : {Append(entry.queued, m)}, promoted : {entry.promoted},
                text : {entry.text}]
  BY <1>1 DEF Enqueued, Entries
<1>3. /\ Append(entry.queued, m) \in Seq(Messages)
      /\ ToSet(Append(entry.queued, m)) = ToSet(entry.queued) \cup {m}
  BY <1>1, EntryIsTyped, AppendFacts
<1> HIDE DEF e
<1>4. e \in Entries
  BY <1>1, <1>2, <1>3, EntryIsTyped DEF Entries
<1>5. QED BY <1>1, <1>2, <1>3, <1>4 DEF Sound, Queued, Promoted, e

LEMMA ToggledFacts ==
    ASSUME Sound(entry), NEW m \in Queued(entry)
    PROVE  /\ Sound(Toggled(m))
           /\ Queued(Toggled(m)) = Queued(entry)
           /\ Toggled(m).text = entry.text
<1> DEFINE e == Toggled(m)
           p == IF m \in ToSet(entry.promoted) THEN Kept(entry.promoted, {m})
                ELSE Append(entry.promoted, m)
<1>1. /\ entry \in Entries /\ Promoted(entry) \subseteq Queued(entry) /\ m \in Messages
      /\ entry.promoted \in Seq(Messages)
  BY EntryIsTyped DEF Sound
<1>2. p \in Seq(Messages) /\ ToSet(p) \subseteq ToSet(entry.promoted) \cup {m}
  BY <1>1, KeptFacts, AppendFacts
<1>3. e = [entry EXCEPT !.promoted = p]
  BY DEF Toggled
<1> HIDE DEF e, p
<1>4. /\ e.queued = entry.queued /\ e.promoted = p /\ e.text = entry.text
      /\ e \in [queued : {entry.queued}, promoted : {p}, text : {entry.text}]
  BY <1>1, <1>3 DEF Entries
<1>5. e \in Entries
  BY <1>1, <1>2, <1>4, EntryIsTyped DEF Entries
<1>6. QED BY <1>1, <1>2, <1>4, <1>5 DEF Sound, Queued, Promoted, e

LEMMA EditedFacts ==
    ASSUME Sound(entry), NEW m \in Messages, entry.text[m] < MaxEdits
    PROVE  /\ Sound(Edited(m))
           /\ Queued(Edited(m)) = Queued(entry)
<1> DEFINE e == Edited(m)
           t == [entry.text EXCEPT ![m] = @ + 1]
<1>1. /\ entry \in Entries /\ Promoted(entry) \subseteq Queued(entry)
      /\ entry.text \in [Messages -> 0 .. MaxEdits]
  BY EntryIsTyped DEF Sound
<1>2. t \in [Messages -> 0 .. MaxEdits]
  <2>1. entry.text[m] + 1 \in 0 .. MaxEdits
    BY <1>1, SessionAssumption
  <2>2. QED BY <1>1, <2>1
<1>3. e = [entry EXCEPT !.text = t]
  BY <1>1 DEF Edited, Entries
<1> HIDE DEF e, t
<1>4. /\ e.queued = entry.queued /\ e.promoted = entry.promoted /\ e.text = t
      /\ e \in [queued : {entry.queued}, promoted : {entry.promoted}, text : {t}]
  BY <1>1, <1>3 DEF Entries
<1>5. e \in Entries
  BY <1>1, <1>2, <1>4, EntryIsTyped DEF Entries
<1>6. QED BY <1>1, <1>4, <1>5 DEF Sound, Queued, Promoted, e

\* drain, unless the session is busy.
LEMMA DrainIfIdleFacts ==
    ASSUME NEW e, Sound(e), faults \in Nat, DrainIfIdle(e)
    PROVE  /\ UNCHANGED mailbox
           /\ IF Busy
              THEN /\ entry' = e /\ disk' = e /\ dirty' = FALSE
                   /\ UNCHANGED <<run, remembered, faults>>
              ELSE Drained(e, e, faults)
<1>1. CASE Busy
  BY <1>1 DEF DrainIfIdle, runVars
<1>2. CASE ~Busy
  <2>1. DrainFrom(e, e, faults) /\ UNCHANGED mailbox
    BY <1>2 DEF DrainIfIdle
  <2>2. Drained(e, e, faults)
    BY <2>1, DrainFacts
  <2>3. QED BY <1>2, <2>1, <2>2
<1>3. QED BY <1>1, <1>2

QueueTypes == entry \in Entries /\ disk \in Entries /\ dirty \in BOOLEAN
RunTypes   == run \in RunRecords /\ remembered \in BOOLEAN
BoxType    == mailbox \in Seq([id : Messages, text : 0 .. MaxEdits])
PastTypes  ==
    /\ operation \in BOOLEAN /\ receipts \subseteq Messages
    /\ times \in [Messages \cup Reports -> Nat]
    /\ accepted \subseteq typed /\ withdrawn \subseteq typed /\ lost \subseteq typed
    /\ typed \subseteq Messages /\ halted \in BOOLEAN

LEMMA TypesInParts ==
    TypeOK <=> /\ QueueTypes /\ RunTypes /\ BoxType /\ ReportTypes /\ PastTypes
               /\ faults \in 0 .. MaxFaults
BY DEF TypeOK, QueueTypes, RunTypes, RunRecords, BoxType, ReportTypes, PastTypes

\* A commit counts, for every input there is.
LEMMA CountsAreTyped ==
    ASSUME PastTypes, NEW done,
           times' = [i \in DOMAIN times |-> IF i \in done THEN times[i] + 1 ELSE times[i]]
    PROVE  /\ times' \in [Messages \cup Reports -> Nat]
           /\ \A i \in Messages \cup Reports :
                  times'[i] = IF i \in done THEN times[i] + 1 ELSE times[i]
BY DEF PastTypes

LEMMA TypesOfUser ==
    ASSUME TypeOK, Places, User, faults' <= MaxFaults
    PROVE  TypeOK'
<1> USE DEF queueVars, runVars, boxVars, reportVars, history
<1>1. /\ QueueTypes /\ RunTypes /\ BoxType /\ ReportTypes /\ PastTypes
      /\ faults \in Nat /\ Sound(entry) /\ Sound(disk)
  BY TypesInParts DEF Places
<1>2. faults' \in Nat => faults' \in 0 .. MaxFaults
  BY SessionAssumption
<1>3. SUFFICES /\ QueueTypes' /\ RunTypes' /\ BoxType' /\ ReportTypes' /\ PastTypes'
               /\ faults' \in Nat
  BY <1>2 DEF TypeOK, QueueTypes, RunTypes, RunRecords, BoxType, ReportTypes, PastTypes
<1>4. ASSUME NEW e, Sound(e), DrainIfIdle(e)
      PROVE  QueueTypes' /\ RunTypes' /\ BoxType' /\ faults' \in Nat
  <2>1. UNCHANGED mailbox
    BY <1>4 DEF DrainIfIdle
  <2>2. CASE Busy
    <3>1. entry' = e /\ disk' = e /\ dirty' = FALSE /\ UNCHANGED <<run, remembered, faults>>
      BY <1>1, <1>4, <2>2, DrainIfIdleFacts
    <3>2. QED BY <1>1, <1>4, <2>1, <3>1 DEF QueueTypes, RunTypes, BoxType, Sound
  <2>3. CASE ~Busy
    <3>1. Drained(e, e, faults)
      BY <1>1, <1>4, <2>3, DrainIfIdleFacts
    <3>2. faults' \in Nat
      BY <3>1 DEF Drained
    <3>3. QED BY <1>1, <2>1, <3>1, <3>2, DrainIsTyped DEF QueueTypes, RunTypes, BoxType
  <2>4. QED BY <2>2, <2>3
<1>5. ASSUME NEW e, Sound(e), SyncFrom(e, e, faults)
      PROVE  QueueTypes' /\ BoxType' /\ faults' \in Nat
  <2>1. Synced(e, faults)
    BY <1>1, <1>5, SyncFacts
  <2>2. BoxType'
    BY <1>1, <2>1 DEF Synced, BoxType
  <2>3. QueueTypes' /\ faults' \in Nat
    BY <2>1 DEF Synced, QueueTypes, Sound
  <2>4. QED BY <2>2, <2>3
<1>6. ASSUME NEW m \in Messages, Enqueue(m)
      PROVE  QueueTypes' /\ RunTypes' /\ BoxType' /\ ReportTypes' /\ PastTypes' /\ faults' \in Nat
  <2>1. DrainIfIdle(Enqueued(m)) /\ Sound(Enqueued(m))
    BY <1>1, <1>6, EnqueuedFacts DEF Enqueue, Enqueued
  <2>2. ReportTypes' /\ PastTypes'
    BY <1>1, <1>6 DEF Enqueue, ReportTypes, PastTypes
  <2>3. QED BY <1>4, <2>1, <2>2
<1>7. ASSUME NEW m \in Messages, Promote(m)
      PROVE  QueueTypes' /\ RunTypes' /\ BoxType' /\ ReportTypes' /\ PastTypes' /\ faults' \in Nat
  <2>1. /\ m \in Queued(entry)
        /\ IF Active THEN SyncFrom(Toggled(m), Toggled(m), faults) /\ UNCHANGED runVars
           ELSE DrainIfIdle(Toggled(m))
    BY <1>7 DEF Promote, Toggled, Queued
  <2>2. Sound(Toggled(m))
    BY <1>1, <2>1, ToggledFacts
  <2>3. ReportTypes' /\ PastTypes'
    BY <1>1, <1>7 DEF Promote, ReportTypes, PastTypes
  <2>4. CASE Active
    <3>1. SyncFrom(Toggled(m), Toggled(m), faults) /\ UNCHANGED <<run, remembered>>
      BY <2>1, <2>4
    <3>2. RunTypes'
      BY <1>1, <3>1 DEF RunTypes
    <3>3. QED BY <1>5, <2>2, <2>3, <3>1, <3>2
  <2>5. CASE ~Active
    BY <1>4, <2>1, <2>2, <2>3, <2>5
  <2>6. QED BY <2>4, <2>5
<1>8. ASSUME NEW m \in Messages, Edit(m)
      PROVE  QueueTypes' /\ RunTypes' /\ BoxType' /\ ReportTypes' /\ PastTypes' /\ faults' \in Nat
  <2>1. SyncFrom(Edited(m), Edited(m), faults) /\ Sound(Edited(m))
    BY <1>1, <1>8, EditedFacts DEF Edit, Edited
  <2>2. RunTypes' /\ ReportTypes' /\ PastTypes'
    BY <1>1, <1>8 DEF Edit, RunTypes, ReportTypes, PastTypes
  <2>3. QED BY <1>5, <2>1, <2>2
<1>9. ASSUME NEW m \in Messages, Withdraw(m)
      PROVE  QueueTypes' /\ RunTypes' /\ BoxType' /\ ReportTypes' /\ PastTypes' /\ faults' \in Nat
  <2>1. /\ SyncFrom(Without(entry, {m}), Without(entry, {m}), faults)
        /\ Sound(Without(entry, {m}))
    BY <1>1, <1>9, WithoutFacts DEF Withdraw
  <2>2. RunTypes' /\ ReportTypes'
    BY <1>1, <1>9 DEF Withdraw, RunTypes, ReportTypes
  <2>3. PastTypes'
    <3>1. m \in typed
      BY <1>9 DEF Withdraw, Places, Queued
    <3>2. QED BY <1>1, <1>9, <3>1 DEF Withdraw, PastTypes
  <2>4. QED BY <1>5, <2>1, <2>2, <2>3
<1>10. ASSUME Refused
       PROVE  QueueTypes' /\ RunTypes' /\ BoxType' /\ ReportTypes' /\ PastTypes' /\ faults' \in Nat
  BY <1>1, <1>10 DEF Refused, QueueTypes, RunTypes, BoxType, ReportTypes, PastTypes
<1>11. ASSUME Resume
       PROVE  QueueTypes' /\ RunTypes' /\ BoxType' /\ ReportTypes' /\ PastTypes' /\ faults' \in Nat
  <2>1. Drained(entry, disk, faults)
    BY <1>1, <1>11, DrainFacts DEF Resume
  <2>2. QueueTypes' /\ RunTypes'
    BY <2>1, DrainIsTyped DEF QueueTypes, RunTypes
  <2>3. faults' \in Nat
    BY <2>1 DEF Drained
  <2>4. BoxType' /\ ReportTypes' /\ PastTypes'
    BY <1>1, <1>11 DEF Resume, BoxType, ReportTypes, PastTypes
  <2>5. QED BY <2>2, <2>3, <2>4
<1>12. ASSUME Send
       PROVE  QueueTypes' /\ RunTypes' /\ BoxType' /\ ReportTypes' /\ PastTypes' /\ faults' \in Nat
  <2>1. run' = Started("user", <<>>) /\ remembered' = TRUE
    BY <1>12 DEF Send, Launch
  <2>2. RunTypes'
    BY <2>1, RunIsTyped DEF RunTypes, Kinds
  <2>3. QED BY <1>1, <1>12, <2>2 DEF Send, QueueTypes, BoxType, ReportTypes, PastTypes
<1>13. ASSUME TypeDraft \/ SaveDraft
       PROVE  QueueTypes' /\ RunTypes' /\ BoxType' /\ ReportTypes' /\ PastTypes' /\ faults' \in Nat
  BY <1>1, <1>13
  DEF TypeDraft, SaveDraft, QueueTypes, RunTypes, BoxType, ReportTypes, PastTypes
<1>14. ASSUME Abort
       PROVE  QueueTypes' /\ RunTypes' /\ BoxType' /\ ReportTypes' /\ PastTypes' /\ faults' \in Nat
  <2>1. RunTypes'
    BY <1>1, <1>14 DEF Abort, RunTypes, RunRecords
  <2>2. QED BY <1>1, <1>14, <2>1 DEF Abort, QueueTypes, BoxType, ReportTypes, PastTypes
<1>15. ASSUME NEW r \in Reports, ReportManually(r)
       PROVE  QueueTypes' /\ RunTypes' /\ BoxType' /\ ReportTypes' /\ PastTypes' /\ faults' \in Nat
  <2>1. ReportTypes' /\ RunTypes' /\ faults' \in Nat
    BY <1>15, DeliverIsTyped DEF ReportManually, RunTypes
  <2>2. QueueTypes' /\ BoxType' /\ PastTypes'
    BY <1>1, <1>15 DEF ReportManually, Deliver, QueueTypes, BoxType, PastTypes
  <2>3. QED BY <2>1, <2>2
<1>16. QED
  BY <1>6, <1>7, <1>8, <1>9, <1>10, <1>11, <1>12, <1>13, <1>14, <1>15 DEF User

SentOf(n) == {mailbox[i].id : i \in {j \in DOMAIN mailbox : j <= n}}
ConfirmedOf(n) == {internals[i] : i \in {j \in DOMAIN internals : Len(mailbox) + j <= n}}

LEMMA MembersAreTyped ==
    ASSUME TypeOK
    PROVE  /\ Boxed \subseteq Messages /\ \A n : SentOf(n) \subseteq Boxed
           /\ ToSet(internals) \subseteq Reports /\ ToSet(unconfirmed) \subseteq Reports
           /\ ToSet(deferred) \subseteq Reports
           /\ \A n : ConfirmedOf(n) \subseteq ToSet(internals)
           /\ Carried \subseteq Messages \cup Reports
<1>1. \A S : \A s \in Seq(S) : \A i \in DOMAIN s : s[i] \in S
  BY LenProperties, ElementOfSeq
<1>2. Boxed \subseteq Messages
  <2>1. \A i \in DOMAIN mailbox : mailbox[i] \in [id : Messages, text : 0 .. MaxEdits]
    BY <1>1 DEF TypeOK
  <2>2. QED BY <2>1 DEF Boxed
<1>3. /\ ToSet(internals) \subseteq Reports /\ ToSet(unconfirmed) \subseteq Reports
      /\ ToSet(deferred) \subseteq Reports
  BY <1>1 DEF TypeOK, ToSet
<1>4. Carried \subseteq Messages \cup Reports
  <2>1. run.carried \in Seq(Messages \cup Reports)
    BY DEF TypeOK
  <2>2. QED BY <1>1, <2>1 DEF Carried, ToSet
<1>5. \A n : SentOf(n) \subseteq Boxed /\ ConfirmedOf(n) \subseteq ToSet(internals)
  BY DEF SentOf, ConfirmedOf, Boxed, ToSet
<1>6. QED BY <1>2, <1>3, <1>4, <1>5

LEMMA VerdictIsTyped ==
    ASSUME ReportTypes, NEW confirmed, Verdict(confirmed)
    PROVE  /\ reporting' \subseteq Reports
           /\ reported' \in [Reports -> {"none", "pending", "reported"}]
BY DEF Verdict, ReportTypes

LEMMA TypesOfDriver ==
    ASSUME TypeOK, Places, Driver, faults' <= MaxFaults
    PROVE  TypeOK'
<1> USE DEF queueVars, runVars, boxVars, reportVars, history
<1>1. /\ QueueTypes /\ RunTypes /\ BoxType /\ ReportTypes /\ PastTypes
      /\ faults \in Nat /\ Sound(entry) /\ Sound(disk)
      /\ <<>> \in Seq(Messages \cup Reports) /\ <<>> \in Seq(Reports)
  BY TypesInParts, EmptySeq DEF Places
<1>2. faults' \in Nat => faults' \in 0 .. MaxFaults
  BY SessionAssumption
<1>3. SUFFICES /\ QueueTypes' /\ RunTypes' /\ BoxType' /\ ReportTypes' /\ PastTypes'
               /\ faults' \in Nat
  BY <1>2 DEF TypeOK, QueueTypes, RunTypes, RunRecords, BoxType, ReportTypes, PastTypes
<1>4. ASSUME mailbox' = <<>> PROVE BoxType'
  BY <1>4, EmptySeq DEF BoxType
<1>5. ASSUME Prepared
      PROVE  QueueTypes' /\ RunTypes' /\ BoxType' /\ ReportTypes' /\ PastTypes' /\ faults' \in Nat
  <2>1. RunTypes'
    BY <1>1, <1>5 DEF Prepared, RunTypes, RunRecords, Phases
  <2>2. ReportTypes'
    <3>1. unconfirmed' \in Seq(Reports)
      BY <1>1, <1>5, KeptFacts DEF Prepared, ReportTypes
    <3>2. /\ reporting' \subseteq Reports
          /\ reported' \in [Reports -> {"none", "pending", "reported"}]
      BY <1>1, <1>5, VerdictIsTyped DEF Prepared
    <3>3. QED BY <1>1, <1>5, <3>1, <3>2 DEF Prepared, ReportTypes
  <2>3. times' \in [Messages \cup Reports -> Nat]
    BY <1>1, <1>5, CountsAreTyped DEF Prepared
  <2>4. QED BY <1>1, <1>5, <2>1, <2>2, <2>3 DEF Prepared, QueueTypes, BoxType, PastTypes
<1>6. ASSUME PrepareFails
      PROVE  QueueTypes' /\ RunTypes' /\ BoxType' /\ ReportTypes' /\ PastTypes' /\ faults' \in Nat
  <2>1. RunTypes'
    BY <1>1, <1>6 DEF PrepareFails, RunTypes, RunRecords, Phases
  <2>2. lost' \subseteq typed
    BY <1>1, <1>6 DEF PrepareFails, PastTypes, Places, Carried
  <2>3. QED
    BY <1>1, <1>6, <2>1, <2>2 DEF PrepareFails, QueueTypes, BoxType, ReportTypes, PastTypes
<1>7. ASSUME Finish
      PROVE  QueueTypes' /\ RunTypes' /\ BoxType' /\ ReportTypes' /\ PastTypes' /\ faults' \in Nat
  <2>1. RunTypes'
    BY <1>1, <1>7 DEF Finish, RunTypes, RunRecords, Phases
  <2>2. QED BY <1>1, <1>7, <2>1 DEF Finish, QueueTypes, BoxType, ReportTypes, PastTypes
<1>8. ASSUME SettleScheduled
      PROVE  QueueTypes' /\ RunTypes' /\ BoxType' /\ ReportTypes' /\ PastTypes' /\ faults' \in Nat
  <2>1. RunTypes'
    BY <1>1, <1>8, RunIsTyped DEF SettleScheduled, StayIdle, RunTypes
  <2>2. QED
    BY <1>1, <1>4, <1>8, <2>1 DEF SettleScheduled, QueueTypes, ReportTypes, PastTypes
<1>9. ASSUME Settle
      PROVE  QueueTypes' /\ RunTypes' /\ BoxType' /\ ReportTypes' /\ PastTypes' /\ faults' \in Nat
  <2> DEFINE list == Reclaimed
             base == IF run.phase = "done" THEN reporting ELSE reporting \ ToSet(unconfirmed)
  <2>1. PICK k \in 0 .. Len(list) :
            /\ FlushUpTo(list, k, base, faults)
            /\ IF k < Len(list) THEN UNCHANGED queueVars
               ELSE IF run.phase = "done" THEN DrainFrom(entry, disk, faults + k)
               ELSE StayIdle /\ faults' = faults + k /\ UNCHANGED queueVars
    BY <1>9 DEF Settle
  <2>2. list \in Seq(Reports) /\ base \in SUBSET Reports
    BY <1>1, ConcatProperties DEF Reclaimed, ReportTypes
  <2>3. Len(list) \in Nat
    BY <2>2, LenProperties
  <2> HIDE DEF list, base
  <2>4. k \in Nat /\ (k < Len(list) \/ k = Len(list)) /\ ~(k < Len(list) /\ k = Len(list))
    <3>1. \A n \in Nat : \A i \in 0 .. n : i \in Nat /\ (i < n \/ i = n) /\ ~(i < n /\ i = n)
      OBVIOUS
    <3>2. QED BY <2>3, <3>1, Zenon
  <2>5. /\ unconfirmed' \in Seq(Reports) /\ deferred' \in Seq(Reports)
        /\ attempts' \in 0 .. MaxAttempts /\ reporting' \subseteq Reports
        /\ reported' \in [Reports -> {"none", "pending", "reported"}]
        /\ k < Len(list) =>
               /\ \E r \in Reports : run' = Started("internal", <<r>>) /\ remembered' = TRUE
               /\ faults' \in Nat
    BY <1>1, <2>1, <2>2, FlushFacts
  <2>6. ReportTypes'
    BY <1>1, <1>9, <2>5 DEF Settle, ReportTypes
  <2>7. BoxType' /\ PastTypes'
    BY <1>1, <1>4, <1>9 DEF Settle, PastTypes
  <2>8. CASE k < Len(list)
    <3>1. RunTypes'
      BY <2>5, <2>8, RunIsTyped DEF RunTypes
    <3>2. QueueTypes'
      BY <1>1, <2>1, <2>8 DEF QueueTypes
    <3>3. QED BY <2>5, <2>6, <2>7, <2>8, <3>1, <3>2
  <2>9. CASE k = Len(list) /\ run.phase = "done"
    <3>1. faults + k \in Nat
      BY <1>1, <2>4
    <3>2. DrainFrom(entry, disk, faults + k)
      BY <2>1, <2>4, <2>9
    <3>3. Drained(entry, disk, faults + k)
      BY <1>1, <3>1, <3>2, DrainFacts
    <3>4. QueueTypes' /\ RunTypes'
      BY <3>3, DrainIsTyped DEF QueueTypes, RunTypes
    <3>5. faults' \in Nat
      BY <3>3 DEF Drained
    <3>6. QED BY <2>6, <2>7, <3>4, <3>5
  <2>10. CASE k = Len(list) /\ run.phase # "done"
    <3>1. StayIdle /\ faults' = faults + k /\ UNCHANGED queueVars
      BY <2>1, <2>4, <2>10
    <3>2. RunTypes'
      BY <1>1, <3>1, RunIsTyped DEF StayIdle, RunTypes
    <3>3. QueueTypes' /\ faults' \in Nat
      BY <1>1, <2>4, <3>1 DEF QueueTypes
    <3>4. QED BY <2>6, <2>7, <3>2, <3>3
  <2>11. QED BY <2>4, <2>8, <2>9, <2>10
<1>10. ASSUME NEW n \in 0 .. Inputs, Inject(n)
      PROVE  QueueTypes' /\ RunTypes' /\ BoxType' /\ ReportTypes' /\ PastTypes' /\ faults' \in Nat
  <2>1. /\ mailbox' = <<>> /\ internals' = <<>>
        /\ UNCHANGED <<remembered, deferred, attempts, operation, history, halted>>
        /\ receipts' = receipts \cup SentOf(n)
        /\ times' = [i \in DOMAIN times |->
               IF i \in SentOf(n) \cup ConfirmedOf(n) THEN times[i] + 1 ELSE times[i]]
        /\ \/ UNCHANGED <<queueVars, faults>>
           \/ Reap(SentOf(n))
        /\ \/ UNCHANGED <<unconfirmed, reporting, reported>>
           \/ /\ Verdict(ConfirmedOf(n))
              /\ unconfirmed' = Kept(unconfirmed, ConfirmedOf(n))
    BY <1>10 DEF Inject, SentOf, ConfirmedOf
  <2>2. RunTypes'
    BY <1>1, <1>10 DEF Inject, RunTypes, RunRecords, Phases
  <2>3. ReportTypes'
    <3>1. CASE UNCHANGED <<unconfirmed, reporting, reported>>
      BY <1>1, <2>1, <3>1 DEF ReportTypes
    <3>2. CASE /\ Verdict(ConfirmedOf(n))
               /\ unconfirmed' = Kept(unconfirmed, ConfirmedOf(n))
      <4>1. unconfirmed' \in Seq(Reports)
        BY <1>1, <3>2, KeptFacts DEF ReportTypes
      <4>2. QED BY <1>1, <2>1, <3>2, <4>1, VerdictIsTyped DEF ReportTypes
    <3>3. QED BY <2>1, <3>1, <3>2
  <2>4. PastTypes'
    <3>1. SentOf(n) \subseteq Messages
      BY MembersAreTyped
    <3>2. times' \in [Messages \cup Reports -> Nat]
      BY <1>1, <2>1, CountsAreTyped
    <3>3. QED BY <1>1, <2>1, <3>1, <3>2 DEF PastTypes
  <2>5. QueueTypes' /\ faults' \in Nat
    <3>1. CASE UNCHANGED <<queueVars, faults>>
      BY <1>1, <3>1 DEF QueueTypes
    <3>2. CASE Reap(SentOf(n))
      <4>1. Without(entry, SentOf(n)) \in Entries
        BY <1>1, WithoutFacts DEF Sound
      <4>2. entry' \in Entries
        BY <3>2, <4>1 DEF Reap
      <4>3. disk' \in Entries /\ dirty' \in BOOLEAN /\ faults' \in Nat
        <5>1. \/ disk' = entry' /\ dirty' = FALSE /\ faults' = faults
              \/ disk' = disk /\ dirty' = TRUE /\ faults' = faults + 1
          BY <3>2 DEF Reap
        <5>2. faults + 1 \in Nat /\ disk \in Entries
          BY <1>1 DEF QueueTypes
        <5>3. QED BY <1>1, <4>2, <5>1, <5>2
      <4>4. QED BY <4>2, <4>3 DEF QueueTypes
    <3>3. QED BY <2>1, <3>1, <3>2
  <2>6. QED BY <1>4, <2>1, <2>2, <2>3, <2>4, <2>5
<1>11. QED
  BY <1>5, <1>6, <1>7, <1>8, <1>9, <1>10 DEF Driver

LEMMA TypesStep ==
    ASSUME TypeOK, Places, [Next]_vars
    PROVE  TypeOK'
<1>1. CASE UNCHANGED vars
  BY <1>1
  DEF TypeOK, vars, queueVars, runVars, boxVars, reportVars, history
<1>2. CASE Next
  <2> USE DEF queueVars, runVars, boxVars, reportVars, history
  <2>1. /\ QueueTypes /\ RunTypes /\ BoxType /\ ReportTypes /\ PastTypes
        /\ faults \in Nat /\ <<>> \in Seq(Reports)
        /\ <<>> \in Seq([id : Messages, text : 0 .. MaxEdits])
    BY TypesInParts, EmptySeq
  <2>2. faults' <= MaxFaults
    BY <1>2 DEF Next
  <2>3. faults' \in Nat => faults' \in 0 .. MaxFaults
    BY <2>2, SessionAssumption
  <2>4. ASSUME /\ QueueTypes' /\ RunTypes' /\ BoxType' /\ ReportTypes' /\ PastTypes'
               /\ faults' \in Nat
        PROVE  TypeOK'
    BY <2>3, <2>4
    DEF TypeOK, QueueTypes, RunTypes, RunRecords, BoxType, ReportTypes, PastTypes
  <2>5. CASE RetryTick
    <3>1. ReportTypes' /\ RunTypes' /\ faults' \in Nat
      BY <2>5, RetryIsTyped DEF RunTypes
    <3>2. UNCHANGED <<queueVars, mailbox, operation, receipts, times, history, halted>>
      BY <2>5 DEF RetryTick, FlushIntoActive, GiveUp
    <3>3. QueueTypes' /\ BoxType' /\ PastTypes'
      BY <2>1, <3>2 DEF QueueTypes, BoxType, PastTypes
    <3>4. QED BY <2>4, <3>1, <3>3
  <2>6. CASE Operation
    BY <2>1, <2>4, <2>6
    DEF Operation, QueueTypes, RunTypes, BoxType, ReportTypes, PastTypes
  <2>7. CASE Crash
    <3>1. RunTypes' /\ BoxType' /\ ReportTypes'
      <4>1. RunTypes'
        BY <2>7, RunIsTyped DEF Crash, RunTypes
      <4>2. BoxType'
        BY <2>1, <2>7 DEF Crash, BoxType
      <4>3. ReportTypes'
        BY <2>1, <2>7, SessionAssumption DEF Crash, ReportTypes
      <4>4. QED BY <4>1, <4>2, <4>3
    <3>2. QueueTypes' /\ PastTypes' /\ faults' \in Nat
      BY <2>1, <2>7 DEF Crash, QueueTypes, PastTypes
    <3>3. QED BY <2>4, <3>1, <3>2
  <2>8. ASSUME NEW r \in Reports, ChildFinished(r) PROVE TypeOK'
    <3>1. ReportTypes' /\ RunTypes' /\ faults' \in Nat
      BY <2>8, DeliverIsTyped DEF ChildFinished, RunTypes
    <3>2. QueueTypes' /\ BoxType' /\ PastTypes'
      BY <2>1, <2>8 DEF ChildFinished, Deliver, QueueTypes, BoxType, PastTypes
    <3>3. QED BY <2>4, <3>1, <3>2
  <2>9. ASSUME NEW r \in Reports, ChildWaits(r) PROVE TypeOK'
    BY <2>1, <2>4, <2>9
    DEF ChildWaits, QueueTypes, RunTypes, BoxType, ReportTypes, PastTypes
  <2>10. QED
    BY <1>2, <2>2, <2>5, <2>6, <2>7, <2>8, <2>9, TypesOfUser, TypesOfDriver DEF Next
<1>3. QED BY <1>1, <1>2

-----------------------------------------------------------------------------
(* The queue, its disk and the run                                          *)

\* A step that leaves the queue alone: what it does to the run is to keep or drop
\* the mailbox, and to carry no message that was not carried.
LEMMA QueueStays ==
    ASSUME QueueInv, TypeOK',
           UNCHANGED <<entry, disk, receipts, times, typed, accepted, withdrawn, lost>>,
           ~dirty' => disk = entry,
           Carried' \cap Messages = Carried \cap Messages,
           run'.phase # "preparing" \/ run'.kind = "scheduled" => run'.carried = <<>>,
           run'.phase = "idle" => mailbox' = <<>> /\ internals' = <<>>,
           mailbox' = <<>> \/ (UNCHANGED mailbox /\ (Active' => Active))
    PROVE  QueueInv' /\ (OnceInv => OnceInv')
<1>1. typed \subseteq Messages /\ withdrawn \subseteq Messages
  BY DEF QueueInv, TypeOK
<1>2. Places'
  BY <1>1 DEF QueueInv, Places, Sound, Queued, Promoted
<1>3. Commits' /\ WithdrawnStaysOut' /\ CleanMeansSaved'
  BY DEF QueueInv, Commits, WithdrawnStaysOut, CleanMeansSaved
<1>4. BoxedIsPromoted' /\ (OnceInv /\ Active' => \A m \in Boxed' : times[m] = 0)
  <2>1. CASE mailbox' = <<>>
    BY <2>1 DEF BoxedIsPromoted, Boxed
  <2>2. CASE UNCHANGED mailbox /\ (Active' => Active)
    BY <2>2 DEF QueueInv, OnceInv, BoxedIsPromoted, Boxed, Promoted
  <2>3. QED BY <2>1, <2>2
<1>5. Accounted'
  <2>1. accepted \subseteq Messages
    BY <1>1 DEF QueueInv, TypeOK
  <2>2. QED BY <2>1 DEF QueueInv, Accounted, Carried
<1>6. ASSUME OnceInv PROVE OnceInv'
  BY <1>4, <1>6 DEF OnceInv, NothingTwice, Queued
<1>7. QED BY <1>2, <1>3, <1>4, <1>5, <1>6 DEF QueueInv

\* A step that drains the queue e.
LEMMA QueueDrains ==
    ASSUME QueueInv, TypeOK', NEW e, NEW d, NEW f, Drained(e, d, f),
           mailbox' = <<>>, internals' = <<>>,
           UNCHANGED <<receipts, times, withdrawn, lost>>,
           typed \subseteq typed', Queued(e) \cup Queued(d) \subseteq typed',
           withdrawn \cap (Queued(e) \cup Queued(d)) = {},
           \A m \in accepted' :
               m \in withdrawn \cup lost \/ times[m] > 0 \/ m \in Queued(e)
    PROVE  /\ QueueInv'
           /\ OnceInv /\ ~ReceiptsMayFail
                 /\ (\A m \in Queued(e) \cup Queued(d) : times[m] > 0 => m \in receipts)
              => OnceInv'
<1>1. /\ Sound(entry') /\ Sound(disk') /\ (~dirty' => disk' = entry')
      /\ Queued(entry') \cup Queued(disk') \subseteq Queued(e) \cup Queued(d)
      /\ Queued(e) \ receipts \subseteq Queued(entry') \cup Carried'
      /\ Carried' \subseteq Queued(e) \ (Queued(entry') \cup Queued(disk'))
      /\ ~ReceiptsMayFail => Carried' \cap receipts = {}
  BY DEF Drained
<1>2. run'.phase # "preparing" \/ run'.kind = "scheduled" => run'.carried = <<>>
  <2>1. \/ run' = NoRun
        \/ \E batch \in Seq(Messages) : run' = Started("queued", batch)
    BY DEF Drained
  <2>2. QED BY <2>1 DEF NoRun, Started
<1>3. Places'
  <2>1. (Queued(entry') \cup Queued(disk')) \cap Carried' = {}
    BY <1>1
  <2>2. withdrawn \cap (Queued(entry') \cup Queued(disk') \cup Carried') = {}
    BY <1>1
  <2>3. Queued(entry') \cup Queued(disk') \cup (Carried' \cap Messages) \subseteq typed'
    BY <1>1
  <2>4. QED BY <1>1, <1>2, <2>1, <2>2, <2>3 DEF Places
<1>4. Commits' /\ WithdrawnStaysOut' /\ CleanMeansSaved'
  BY <1>1 DEF QueueInv, Commits, WithdrawnStaysOut, CleanMeansSaved
<1>5. BoxedIsPromoted' /\ Boxed' = {}
  BY DEF BoxedIsPromoted, Boxed
<1>6. Accounted'
  <2>1. \A m \in accepted' : \/ m \in withdrawn' \cup lost' \/ times'[m] > 0
                             \/ m \in Queued(entry') \/ m \in Carried'
    BY <1>1 DEF QueueInv, Commits
  <2>2. QED BY <2>1 DEF Accounted, Queued, Carried
<1>7. ASSUME OnceInv, ~ReceiptsMayFail,
             \A m \in Queued(e) \cup Queued(d) : times[m] > 0 => m \in receipts
      PROVE  OnceInv'
  <2>1. NothingTwice'
    BY <1>7 DEF OnceInv, NothingTwice
  <2>2. \A m \in Queued(entry') \cup Queued(disk') : times'[m] > 0 => m \in receipts'
    BY <1>1, <1>7
  <2>3. \A m \in Carried' \cap Messages : times'[m] = 0
    <3>1. \A m \in Carried' \cap Messages : ~(times[m] > 0)
      BY <1>1, <1>7
    <3>2. \A m \in Messages : times[m] \in Nat
      BY DEF QueueInv, TypeOK
    <3>3. QED BY <3>1, <3>2
  <2>4. QED BY <1>5, <2>1, <2>2, <2>3 DEF OnceInv
<1>8. QED BY <1>3, <1>4, <1>5, <1>6, <1>7 DEF QueueInv

\* A step that keeps the mailbox of the run in step with the queue e.
LEMMA QueueSyncs ==
    ASSUME QueueInv, TypeOK', NEW e, NEW f, Sound(e), Synced(e, f),
           UNCHANGED <<run, internals, receipts, times, typed, accepted, lost>>,
           Queued(e) \subseteq Queued(entry), withdrawn \subseteq withdrawn',
           withdrawn' \cap (Queued(e) \cup Carried) = {},
           \A m \in withdrawn' : times[m] = 0,
           \A m \in Queued(entry) \ Queued(e) : m \in withdrawn' \/ times[m] > 0
    PROVE  QueueInv' /\ (OnceInv /\ ~ReceiptsMayFail => OnceInv')
<1>1. /\ Sound(entry') /\ Sound(disk') /\ (~dirty' => disk' = entry')
      /\ Queued(entry') \cup Queued(disk') \subseteq Queued(e)
      /\ Queued(e) \ receipts \subseteq Queued(entry')
  BY DEF Synced
<1>2. Carried' = Carried
  BY DEF Carried
<1>3. Active' <=> Active
  BY DEF Active
<1>4. Places'
  <2>1. run.phase = "idle" => mailbox' = <<>> /\ internals' = <<>>
    BY DEF Synced, Active, QueueInv, Places
  <2>2. Queued(entry') \cup Queued(disk') \cup (Carried' \cap Messages) \subseteq typed'
    BY <1>1, <1>2 DEF QueueInv, Places
  <2>3. (Queued(entry') \cup Queued(disk')) \cap Carried' = {}
    BY <1>1, <1>2 DEF QueueInv, Places
  <2>4. withdrawn' \cap (Queued(entry') \cup Queued(disk') \cup Carried') = {}
    BY <1>1, <1>2
  <2>5. run'.phase # "preparing" \/ run'.kind = "scheduled" => run'.carried = <<>>
    BY DEF QueueInv, Places
  <2>6. QED BY <1>1, <2>1, <2>2, <2>3, <2>4, <2>5 DEF Places
<1>5. Commits' /\ WithdrawnStaysOut' /\ CleanMeansSaved'
  BY <1>1 DEF QueueInv, Commits, WithdrawnStaysOut, CleanMeansSaved
<1>6. BoxedIsPromoted'
  BY <1>3 DEF Synced, BoxedIsPromoted
<1>7. Accounted'
  <2>1. \A m \in accepted' : \/ m \in withdrawn' \cup lost' \/ times'[m] > 0
                             \/ m \in Queued(entry') \/ m \in Carried'
    BY <1>1, <1>2 DEF QueueInv, Commits, Accounted, Carried, Queued
  <2>2. QED BY <2>1 DEF Accounted, Queued, Carried
<1>8. ASSUME OnceInv, ~ReceiptsMayFail PROVE OnceInv'
  <2>1. NothingTwice' /\ \A m \in Carried' \cap Messages : times'[m] = 0
    BY <1>2, <1>8 DEF OnceInv, NothingTwice
  <2>2. \A m \in Queued(entry') \cup Queued(disk') : times'[m] > 0 => m \in receipts'
    BY <1>1, <1>8 DEF OnceInv
  <2>3. Active' => \A m \in Boxed' : times'[m] = 0
    <3>1. SUFFICES ASSUME Active, NEW m \in Boxed' PROVE times[m] = 0
      BY <1>3
    <3>2. m \in Promoted(entry') /\ m \notin receipts
      BY <1>8, <3>1 DEF Synced, Boxed
    <3>3. m \in Queued(entry') /\ m \in Messages
      BY <1>1, <3>2, EntryIsTyped DEF Sound
    <3>4. ~(times[m] > 0) /\ times[m] \in Nat
      BY <2>2, <3>2, <3>3 DEF QueueInv, TypeOK
    <3>5. QED BY <3>4
  <2>4. QED BY <2>1, <2>2, <2>3 DEF OnceInv
<1>9. QED BY <1>4, <1>5, <1>6, <1>7, <1>8 DEF QueueInv

\* A step that writes the queue e while the session is busy.
LEMMA QueueIsWritten ==
    ASSUME QueueInv, TypeOK', NEW e, Sound(e), entry' = e, disk' = e,
           UNCHANGED <<run, mailbox, internals, receipts, times, withdrawn, lost>>,
           Queued(entry) \subseteq Queued(e), typed \subseteq typed',
           Queued(e) \subseteq typed', Queued(e) \cap (withdrawn \cup Carried) = {},
           Active => Promoted(entry) \subseteq Promoted(e) /\ e.text = entry.text,
           accepted' \subseteq accepted \cup Queued(e)
    PROVE  /\ QueueInv'
           /\ OnceInv /\ (\A m \in Queued(e) : times[m] > 0 => m \in receipts) => OnceInv'
<1>1. Carried' = Carried /\ (Active' <=> Active)
  BY DEF Carried, Active
<1>2. Places'
  <2>1. Sound(entry') /\ Sound(disk') /\ Queued(entry') = Queued(e) /\ Queued(disk') = Queued(e)
    OBVIOUS
  <2>2. Queued(entry') \cup Queued(disk') \cup (Carried' \cap Messages) \subseteq typed'
    BY <1>1, <2>1 DEF QueueInv, Places
  <2>3. withdrawn' \cap (Queued(entry') \cup Queued(disk') \cup Carried') = {}
    BY <1>1, <2>1 DEF QueueInv, Places
  <2>4. (Queued(entry') \cup Queued(disk')) \cap Carried' = {}
    BY <1>1, <2>1
  <2>5. /\ run'.phase # "preparing" \/ run'.kind = "scheduled" => run'.carried = <<>>
        /\ run'.phase = "idle" => mailbox' = <<>> /\ internals' = <<>>
    BY DEF QueueInv, Places
  <2>6. QED BY <2>1, <2>2, <2>3, <2>4, <2>5 DEF Places
<1>3. Commits' /\ WithdrawnStaysOut' /\ CleanMeansSaved'
  BY DEF QueueInv, Commits, WithdrawnStaysOut, CleanMeansSaved
<1>4. BoxedIsPromoted'
  BY <1>1 DEF QueueInv, BoxedIsPromoted
<1>5. Accounted'
  <2>1. \A m \in accepted' : \/ m \in withdrawn' \cup lost' \/ times'[m] > 0
                             \/ m \in Queued(entry') \/ m \in Carried'
    BY <1>1 DEF QueueInv, Accounted, Carried, Queued
  <2>2. QED BY <2>1 DEF Accounted, Queued, Carried
<1>6. ASSUME OnceInv, \A m \in Queued(e) : times[m] > 0 => m \in receipts
      PROVE  OnceInv'
  <2>1. Boxed' = Boxed
    BY DEF Boxed
  <2>2. QED BY <1>1, <1>6, <2>1 DEF OnceInv, NothingTwice
<1>7. QED BY <1>2, <1>3, <1>4, <1>5, <1>6 DEF QueueInv

\* Between runs nothing is carried and no mailbox holds anything.
LEMMA IdleIsEmpty ==
    ASSUME Places, ~Busy
    PROVE  mailbox = <<>> /\ internals = <<>> /\ Carried = {} /\ ~Active
<1>1. run.phase = "idle"
  BY DEF Busy
<1>2. mailbox = <<>> /\ internals = <<>> /\ run.carried = <<>>
  BY <1>1 DEF Places
<1>3. QED BY <1>1, <1>2 DEF Carried, Active, ToSet

LEMMA QueueOfDelivery ==
    ASSUME QueueInv, TypeOK', NEW r \in Reports, Deliver(r)
    PROVE  QueueInv' /\ (OnceInv => OnceInv')
<1> USE DEF queueVars, runVars, history
<1>1. Places /\ CleanMeansSaved
  BY DEF QueueInv
<1>2. /\ UNCHANGED <<entry, disk, receipts, times, typed, accepted, withdrawn, lost>>
      /\ UNCHANGED mailbox
      /\ ~dirty' => disk = entry
  BY <1>1 DEF Deliver, CleanMeansSaved
<1>3. \/ UNCHANGED <<run, internals>>
      \/ UNCHANGED run /\ Active
      \/ ~Busy /\ run' = Started("internal", <<r>>)
  BY DEF Deliver, Launch
<1>4. CASE UNCHANGED run /\ (Active \/ UNCHANGED internals)
  <2>1. /\ run'.phase # "preparing" \/ run'.kind = "scheduled" => run'.carried = <<>>
        /\ run'.phase = "idle" => mailbox' = <<>> /\ internals' = <<>>
        /\ Carried' = Carried /\ (Active' => Active)
    BY <1>1, <1>2, <1>4 DEF Places, Carried, Active
  <2>2. QED BY <1>2, <2>1, QueueStays
<1>5. CASE ~Busy /\ run' = Started("internal", <<r>>)
  <2>1. mailbox' = <<>> /\ Carried = {}
    BY <1>1, <1>2, <1>5, IdleIsEmpty
  <2>2. run'.phase = "preparing" /\ run'.kind # "scheduled" /\ run'.carried = <<r>>
    BY <1>5 DEF Started
  <2>3. Carried' \cap Messages = {}
    BY <2>2, SessionAssumption DEF Carried, ToSet
  <2>4. QED BY <1>2, <2>1, <2>2, <2>3, QueueStays
<1>6. QED BY <1>3, <1>4, <1>5

LEMMA QueueOfUser ==
    ASSUME QueueInv, TypeOK', User
    PROVE  QueueInv' /\ (OnceInv /\ ~ReceiptsMayFail => OnceInv')
<1> USE DEF queueVars, runVars, boxVars, reportVars, history
<1>1. /\ TypeOK /\ Places /\ Commits /\ Accounted /\ CleanMeansSaved
      /\ WithdrawnStaysOut /\ Sound(entry) /\ Sound(disk) /\ faults \in Nat
      /\ typed \subseteq Messages /\ withdrawn \subseteq typed
  <2>1. /\ TypeOK /\ Places /\ Commits /\ Accounted /\ CleanMeansSaved /\ WithdrawnStaysOut
    BY DEF QueueInv
  <2>2. faults \in Nat /\ typed \subseteq Messages /\ withdrawn \subseteq typed
    BY <2>1, SessionAssumption DEF TypeOK
  <2>3. QED BY <2>1, <2>2 DEF Places
<1>2. /\ Queued(entry) \subseteq Messages /\ Queued(disk) \subseteq Messages
      /\ \A m \in Messages : times[m] \in Nat
  BY <1>1, EntryIsTyped DEF Sound, TypeOK
<1>3. \A m \in accepted : \/ m \in withdrawn \cup lost \/ times[m] > 0
                          \/ m \in Queued(entry) \/ m \in Carried
  BY <1>1 DEF Accounted, Queued, Carried
<1>4. /\ Queued(entry) \cup Queued(disk) \subseteq typed
      /\ (Queued(entry) \cup Queued(disk)) \cap Carried = {}
      /\ withdrawn \cap (Queued(entry) \cup Queued(disk) \cup Carried) = {}
      /\ \A m \in withdrawn : times[m] = 0
  BY <1>1 DEF Places, WithdrawnStaysOut
<1>5. OnceInv => \A m \in Queued(entry) \cup Queued(disk) : times[m] > 0 => m \in receipts
  BY DEF OnceInv
<1>6. ASSUME NEW m \in Messages, Enqueue(m)
      PROVE  QueueInv' /\ (OnceInv /\ ~ReceiptsMayFail => OnceInv')
  <2> DEFINE e == Enqueued(m)
  <2>1. /\ DrainIfIdle(e) /\ Sound(e) /\ Queued(e) = Queued(entry) \cup {m}
        /\ Promoted(e) = Promoted(entry) /\ e.text = entry.text
    BY <1>1, <1>6, EnqueuedFacts DEF Enqueue, Enqueued
  <2> HIDE DEF e
  <2>2. /\ m \notin typed /\ typed' = typed \cup {m} /\ accepted' \subseteq accepted \cup {m}
        /\ UNCHANGED <<internals, receipts, times, withdrawn, lost>>
    BY <1>6 DEF Enqueue
  <2>3. m \notin withdrawn /\ m \notin Carried
    BY <1>1, <2>2 DEF Places
  <2>4. ~(times[m] > 0)
    BY <1>1, <2>2 DEF Commits
  <2>5. /\ typed \subseteq typed' /\ Queued(e) \subseteq typed'
        /\ withdrawn \cap Queued(e) = {}
    BY <1>4, <2>1, <2>2, <2>3
  <2>6. OnceInv => \A x \in Queued(e) : times[x] > 0 => x \in receipts
    BY <1>5, <2>1, <2>4
  <2>7. CASE Busy
    <3>1. entry' = e /\ disk' = e /\ UNCHANGED <<run, mailbox>>
      BY <1>1, <2>1, <2>7, DrainIfIdleFacts
    <3>2. /\ Queued(entry) \subseteq Queued(e) /\ Queued(e) \cap (withdrawn \cup Carried) = {}
          /\ accepted' \subseteq accepted \cup Queued(e)
      BY <1>4, <2>1, <2>2, <2>3
    <3>3. QueueInv' /\ (OnceInv /\ (\A x \in Queued(e) : times[x] > 0 => x \in receipts)
                            => OnceInv')
      BY <2>1, <2>2, <2>5, <3>1, <3>2, QueueIsWritten
    <3>4. QED BY <2>6, <3>3
  <2>8. CASE ~Busy
    <3>1. Drained(e, e, faults) /\ UNCHANGED mailbox
      BY <1>1, <2>1, <2>8, DrainIfIdleFacts
    <3>2. mailbox' = <<>> /\ internals' = <<>> /\ Carried = {}
      BY <1>1, <2>2, <2>8, <3>1, IdleIsEmpty
    <3>3. \A x \in accepted' : x \in withdrawn \cup lost \/ times[x] > 0 \/ x \in Queued(e)
      BY <1>3, <2>1, <2>2, <3>2
    <3>4. /\ QueueInv'
          /\ OnceInv /\ ~ReceiptsMayFail
                /\ (\A x \in Queued(e) \cup Queued(e) : times[x] > 0 => x \in receipts)
             => OnceInv'
      BY <2>2, <2>5, <3>1, <3>2, <3>3, QueueDrains
    <3>5. QED BY <2>6, <3>4
  <2>9. QED BY <2>7, <2>8
<1>7. ASSUME NEW m \in Messages, Promote(m)
      PROVE  QueueInv' /\ (OnceInv /\ ~ReceiptsMayFail => OnceInv')
  <2> DEFINE e == Toggled(m)
  <2>1. /\ m \in Queued(entry)
        /\ IF Active THEN SyncFrom(e, e, faults) /\ UNCHANGED runVars ELSE DrainIfIdle(e)
        /\ UNCHANGED <<internals, receipts, times, typed, accepted, withdrawn, lost>>
    BY <1>7 DEF Promote, Toggled, Queued
  <2>2. Sound(e) /\ Queued(e) = Queued(entry)
    BY <1>1, <2>1, ToggledFacts
  <2> HIDE DEF e
  <2>3. CASE Active
    <3>1. Synced(e, faults) /\ UNCHANGED run
      BY <1>1, <2>1, <2>2, <2>3, SyncFacts
    <3>2. QED BY <1>4, <2>1, <2>2, <3>1, QueueSyncs
  <2>4. CASE ~Active /\ Busy
    <3>1. entry' = e /\ disk' = e /\ UNCHANGED <<run, mailbox>>
      BY <1>1, <2>1, <2>2, <2>4, DrainIfIdleFacts
    <3>2. Queued(e) \cap (withdrawn \cup Carried) = {} /\ Queued(e) \subseteq typed'
      BY <1>4, <2>1, <2>2
    <3>3. QueueInv' /\ (OnceInv /\ (\A x \in Queued(e) : times[x] > 0 => x \in receipts)
                            => OnceInv')
      BY <2>1, <2>2, <2>4, <3>1, <3>2, QueueIsWritten
    <3>4. QED BY <1>5, <2>2, <3>3
  <2>5. CASE ~Active /\ ~Busy
    <3>1. Drained(e, e, faults) /\ UNCHANGED mailbox
      BY <1>1, <2>1, <2>2, <2>5, DrainIfIdleFacts
    <3>2. mailbox' = <<>> /\ internals' = <<>> /\ Carried = {}
      BY <1>1, <2>1, <2>5, <3>1, IdleIsEmpty
    <3>3. \A x \in accepted' : x \in withdrawn \cup lost \/ times[x] > 0 \/ x \in Queued(e)
      BY <1>3, <2>1, <2>2, <3>2
    <3>4. /\ QueueInv'
          /\ OnceInv /\ ~ReceiptsMayFail
                /\ (\A x \in Queued(e) \cup Queued(e) : times[x] > 0 => x \in receipts)
             => OnceInv'
      BY <1>4, <2>1, <2>2, <3>1, <3>2, <3>3, QueueDrains
    <3>5. QED BY <1>5, <2>2, <3>4
  <2>6. QED BY <2>3, <2>4, <2>5
<1>8. ASSUME NEW m \in Messages, Edit(m)
      PROVE  QueueInv' /\ (OnceInv /\ ~ReceiptsMayFail => OnceInv')
  <2> DEFINE e == Edited(m)
  <2>1. SyncFrom(e, e, faults) /\ Sound(e) /\ Queued(e) = Queued(entry)
    BY <1>1, <1>8, EditedFacts DEF Edit, Edited
  <2>2. UNCHANGED <<run, internals, receipts, times, typed, accepted, withdrawn, lost>>
    BY <1>8 DEF Edit
  <2> HIDE DEF e
  <2>3. Synced(e, faults)
    BY <1>1, <2>1, SyncFacts
  <2>4. QED BY <1>4, <2>1, <2>2, <2>3, QueueSyncs
<1>9. ASSUME NEW m \in Messages, Withdraw(m)
      PROVE  QueueInv' /\ (OnceInv /\ ~ReceiptsMayFail => OnceInv')
  <2> DEFINE e == Without(entry, {m})
  <2>1. SyncFrom(e, e, faults) /\ Sound(e) /\ Queued(e) = Queued(entry) \ {m}
    BY <1>1, <1>9, WithoutFacts DEF Withdraw
  <2>2. /\ UNCHANGED <<run, internals, receipts, times, typed, accepted, lost>>
        /\ withdrawn' = withdrawn \cup {x \in {m} : times[x] = 0}
        /\ m \in Queued(entry)
    BY <1>9 DEF Withdraw, Queued
  <2> HIDE DEF e
  <2>3. Synced(e, faults)
    BY <1>1, <2>1, SyncFacts
  <2>4. /\ withdrawn \subseteq withdrawn' /\ withdrawn' \cap (Queued(e) \cup Carried) = {}
        /\ \A x \in withdrawn' : times[x] = 0
    BY <1>4, <2>1, <2>2
  <2>5. \A x \in Queued(entry) \ Queued(e) : x \in withdrawn' \/ times[x] > 0
    <3>1. times[m] \in Nat
      BY <1>2
    <3>2. times[m] = 0 \/ times[m] > 0
      BY <3>1
    <3>3. QED BY <2>1, <2>2, <3>2
  <2>6. Queued(e) \subseteq Queued(entry)
    BY <2>1
  <2>7. QED BY <2>1, <2>2, <2>3, <2>4, <2>5, <2>6, QueueSyncs
<1>10. ASSUME Refused \/ TypeDraft
       PROVE  QueueInv' /\ (OnceInv /\ ~ReceiptsMayFail => OnceInv')
  <2>1. /\ UNCHANGED <<entry, disk, receipts, times, typed, accepted, withdrawn, lost>>
        /\ UNCHANGED <<run, mailbox, internals>>
        /\ ~dirty' => disk = entry
    BY <1>1, <1>10 DEF Refused, TypeDraft, CleanMeansSaved
  <2>2. /\ run'.phase # "preparing" \/ run'.kind = "scheduled" => run'.carried = <<>>
        /\ run'.phase = "idle" => mailbox' = <<>> /\ internals' = <<>>
        /\ Carried' = Carried /\ (Active' <=> Active)
    BY <1>1, <2>1 DEF Places, Carried, Active
  <2>3. QED BY <2>1, <2>2, QueueStays
<1>11. ASSUME Resume
       PROVE  QueueInv' /\ (OnceInv /\ ~ReceiptsMayFail => OnceInv')
  <2>1. /\ Drained(entry, disk, faults) /\ ~Busy
        /\ UNCHANGED <<mailbox, internals, receipts, times, typed, accepted, withdrawn, lost>>
    BY <1>1, <1>11, DrainFacts DEF Resume
  <2>2. mailbox' = <<>> /\ internals' = <<>> /\ Carried = {}
    BY <1>1, <2>1, IdleIsEmpty
  <2>3. \A x \in accepted' : x \in withdrawn \cup lost \/ times[x] > 0 \/ x \in Queued(entry)
    BY <1>3, <2>1, <2>2
  <2>4. withdrawn \cap (Queued(entry) \cup Queued(disk)) = {}
    BY <1>4
  <2>5. /\ QueueInv'
        /\ OnceInv /\ ~ReceiptsMayFail
              /\ (\A x \in Queued(entry) \cup Queued(disk) : times[x] > 0 => x \in receipts)
           => OnceInv'
    BY <1>4, <2>1, <2>2, <2>3, <2>4, QueueDrains
  <2>6. QED BY <1>5, <2>5
<1>12. ASSUME Send
       PROVE  QueueInv' /\ (OnceInv /\ ~ReceiptsMayFail => OnceInv')
  <2>1. /\ UNCHANGED <<entry, disk, dirty, receipts, times, typed, accepted, withdrawn, lost>>
        /\ UNCHANGED <<mailbox, internals>> /\ ~Busy
        /\ run' = Started("user", <<>>)
    BY <1>12 DEF Send, Launch
  <2>2. mailbox' = <<>> /\ internals' = <<>> /\ Carried = {}
    BY <1>1, <2>1, IdleIsEmpty
  <2>3. run'.carried = <<>> /\ run'.phase = "preparing"
    BY <2>1 DEF Started
  <2>4. Carried' = {}
    BY <2>3 DEF Carried, ToSet
  <2>5. ~dirty' => disk = entry
    BY <1>1, <2>1 DEF CleanMeansSaved
  <2>6. QED BY <2>1, <2>2, <2>3, <2>4, <2>5, QueueStays
<1>13. ASSUME SaveDraft
       PROVE  QueueInv' /\ (OnceInv /\ ~ReceiptsMayFail => OnceInv')
  <2>1. /\ entry' = entry /\ disk' = entry
        /\ UNCHANGED <<run, mailbox, internals, receipts, times, typed, accepted,
                       withdrawn, lost>>
    BY <1>13 DEF SaveDraft
  <2>2. Queued(entry) \cap (withdrawn \cup Carried) = {}
    BY <1>4
  <2>3. QueueInv' /\ (OnceInv /\ (\A x \in Queued(entry) : times[x] > 0 => x \in receipts)
                          => OnceInv')
    BY <1>1, <1>4, <2>1, <2>2, QueueIsWritten
  <2>4. QED BY <1>5, <2>3
<1>14. ASSUME Abort
       PROVE  QueueInv' /\ (OnceInv /\ ~ReceiptsMayFail => OnceInv')
  <2>1. /\ UNCHANGED <<entry, disk, dirty, receipts, times, typed, accepted, withdrawn, lost>>
        /\ UNCHANGED <<mailbox, internals>>
        /\ Active /\ run' = [run EXCEPT !.stop = TRUE]
    BY <1>14 DEF Abort
  <2>2. run'.phase = run.phase /\ run'.kind = run.kind /\ run'.carried = run.carried
    BY <1>1, <2>1 DEF TypeOK
  <2>3. /\ run'.phase # "preparing" \/ run'.kind = "scheduled" => run'.carried = <<>>
        /\ run'.phase = "idle" => mailbox' = <<>> /\ internals' = <<>>
        /\ Carried' = Carried
    BY <1>1, <2>1, <2>2 DEF Places, Carried
  <2>4. ~dirty' => disk = entry
    BY <1>1, <2>1 DEF CleanMeansSaved
  <2>5. QED BY <2>1, <2>3, <2>4, QueueStays
<1>15. ASSUME NEW r \in Reports, ReportManually(r)
       PROVE  QueueInv' /\ (OnceInv /\ ~ReceiptsMayFail => OnceInv')
  BY <1>15, QueueOfDelivery DEF ReportManually
<1>16. QED
  BY <1>6, <1>7, <1>8, <1>9, <1>10, <1>11, <1>12, <1>13, <1>14, <1>15 DEF User

\* The run commits what it carries, or loses it.
LEMMA QueueOfPreparation ==
    ASSUME QueueInv, TypeOK', Prepared \/ PrepareFails
    PROVE  QueueInv' /\ (OnceInv => OnceInv')
<1> USE DEF queueVars, runVars, boxVars, history
<1>1. /\ TypeOK /\ Places /\ Commits /\ BoxedIsPromoted /\ Accounted /\ CleanMeansSaved
      /\ WithdrawnStaysOut
  BY DEF QueueInv
<1>2. /\ Queued(entry) \cup Queued(disk) \cup (Carried \cap Messages) \subseteq typed
      /\ (Queued(entry) \cup Queued(disk)) \cap Carried = {}
      /\ withdrawn \cap (Queued(entry) \cup Queued(disk) \cup Carried) = {}
      /\ Promoted(entry) \subseteq Queued(entry)
      /\ Queued(entry) \subseteq Messages /\ Queued(disk) \subseteq Messages
      /\ Sound(entry) /\ Sound(disk)
  BY <1>1, EntryIsTyped DEF Places, Sound
<1>3. /\ run.phase = "preparing"
      /\ UNCHANGED <<entry, disk, dirty, mailbox, internals, receipts, typed, accepted,
                     withdrawn>>
  BY DEF Prepared, PrepareFails
<1>4. run'.carried = <<>> /\ run'.phase \in {"running", "aborted", "error"}
  BY <1>1 DEF Prepared, PrepareFails, TypeOK
<1>5. Carried' = {} /\ Active /\ (Active' => run'.phase = "running")
  BY <1>3, <1>4 DEF Carried, ToSet, Active
<1>6. Places'
  BY <1>2, <1>3, <1>4, <1>5 DEF Places, Queued, Sound, Promoted
<1>7. /\ BoxedIsPromoted' /\ CleanMeansSaved' /\ Boxed' = Boxed
      /\ Boxed \subseteq Promoted(entry)
  BY <1>1, <1>3, <1>5 DEF BoxedIsPromoted, CleanMeansSaved, Boxed, Promoted
<1>8. /\ typed \subseteq Messages /\ accepted \subseteq typed /\ receipts \subseteq Messages
      /\ withdrawn \subseteq typed /\ \A m \in Messages : times[m] \in Nat
  BY <1>1 DEF TypeOK
<1>9. \A m \in accepted : \/ m \in withdrawn \cup lost \/ times[m] > 0
                          \/ m \in Queued(entry) \/ m \in Carried
  BY <1>1 DEF Accounted, Queued, Carried
<1>10. CASE Prepared
  <2>1. /\ UNCHANGED lost
        /\ \A m \in Messages : times'[m] = IF m \in Carried THEN times[m] + 1 ELSE times[m]
    BY <1>1, <1>10 DEF Prepared, Carried, TypeOK
  <2>2. \A m \in Messages : /\ m \in Carried => times'[m] > 0
                            /\ times[m] > 0 => times'[m] > 0
                            /\ m \notin Carried => times'[m] = times[m]
    BY <1>8, <2>1
  <2>3. Commits'
    BY <1>1, <1>2, <1>3, <1>8, <2>2 DEF Commits
  <2>4. WithdrawnStaysOut'
    BY <1>1, <1>2, <1>3, <1>8, <2>2 DEF WithdrawnStaysOut
  <2>5. Accounted'
    <3>1. \A m \in accepted : \/ m \in withdrawn \cup lost \/ times'[m] > 0
                              \/ m \in Queued(entry) \/ m \in Carried'
      BY <1>8, <1>9, <2>2
    <3>2. QED BY <1>3, <2>1, <3>1 DEF Accounted, Queued, Carried
  <2>6. ASSUME OnceInv PROVE OnceInv'
    <3>1. \A m \in Messages : times[m] <= 1 /\ (m \in Carried => times[m] = 0)
      BY <2>6 DEF OnceInv, NothingTwice
    <3>2. NothingTwice'
      BY <1>8, <2>1, <3>1 DEF NothingTwice
    <3>3. \A m \in Queued(entry) \cup Queued(disk) : times'[m] > 0 => m \in receipts
      BY <1>2, <2>2, <2>6 DEF OnceInv
    <3>4. \A m \in Boxed : times'[m] = 0
      BY <1>2, <1>5, <1>7, <2>2, <2>6 DEF OnceInv
    <3>5. QED BY <1>3, <1>5, <1>7, <3>2, <3>3, <3>4 DEF OnceInv, Queued
  <2>7. QED BY <1>6, <1>7, <2>3, <2>4, <2>5, <2>6 DEF QueueInv
<1>11. CASE PrepareFails
  <2>1. UNCHANGED times /\ lost' = lost \cup (Carried \cap Messages)
    BY <1>11 DEF PrepareFails, Carried
  <2>2. Commits' /\ WithdrawnStaysOut'
    BY <1>1, <1>3, <2>1 DEF Commits, WithdrawnStaysOut
  <2>3. Accounted'
    <3>1. \A m \in accepted : \/ m \in withdrawn \cup lost' \/ times[m] > 0
                              \/ m \in Queued(entry) \/ m \in Carried'
      BY <1>8, <1>9, <2>1
    <3>2. QED BY <1>3, <2>1, <3>1 DEF Accounted, Queued, Carried
  <2>4. ASSUME OnceInv PROVE OnceInv'
    BY <1>3, <1>5, <1>7, <2>1, <2>4 DEF OnceInv, NothingTwice, Queued
  <2>5. QED BY <1>6, <1>7, <2>2, <2>3, <2>4 DEF QueueInv
<1>12. QED BY <1>10, <1>11

\* The run commits what is in its mailbox, and the queue lets go of it.
LEMMA QueueOfInjection ==
    ASSUME QueueInv, TypeOK', NEW n \in 0 .. Inputs, Inject(n)
    PROVE  QueueInv' /\ (OnceInv => OnceInv')
<1> USE DEF queueVars, runVars, boxVars, history
<1> DEFINE sent == SentOf(n)
<1>1. /\ TypeOK /\ Places /\ Commits /\ BoxedIsPromoted /\ Accounted /\ CleanMeansSaved
      /\ WithdrawnStaysOut
  BY DEF QueueInv
<1>2. /\ Queued(entry) \cup Queued(disk) \subseteq typed
      /\ withdrawn \cap (Queued(entry) \cup Queued(disk)) = {}
      /\ Promoted(entry) \subseteq Queued(entry)
      /\ Queued(entry) \subseteq Messages /\ Queued(disk) \subseteq Messages
      /\ Sound(entry) /\ Sound(disk)
  BY <1>1, EntryIsTyped DEF Places, Sound
<1>3. /\ run.phase = "running" /\ mailbox' = <<>> /\ internals' = <<>>
      /\ receipts' = receipts \cup sent
      /\ times' = [i \in DOMAIN times |->
             IF i \in sent \cup ConfirmedOf(n) THEN times[i] + 1 ELSE times[i]]
      /\ UNCHANGED <<typed, accepted, withdrawn, lost>>
      /\ UNCHANGED <<entry, disk, dirty>> \/ Reap(sent)
  BY DEF Inject, SentOf, ConfirmedOf
<1>4. run.carried = <<>> /\ run'.carried = <<>> /\ run'.phase \in {"running", "error"}
  BY <1>1, <1>3 DEF Inject, Places, TypeOK
<1>5. Carried = {} /\ Carried' = {} /\ Active
  BY <1>3, <1>4 DEF Carried, ToSet, Active
<1>6. /\ typed \subseteq Messages /\ accepted \subseteq typed /\ receipts \subseteq Messages
      /\ withdrawn \subseteq typed /\ \A m \in Messages : times[m] \in Nat
  BY <1>1 DEF TypeOK
<1>7. /\ sent \subseteq Boxed /\ Boxed \subseteq Promoted(entry)
      /\ sent \subseteq Queued(entry) /\ sent \subseteq Messages
      /\ ConfirmedOf(n) \cap Messages = {}
  <2>1. Boxed \subseteq Promoted(entry)
    BY <1>1, <1>5 DEF BoxedIsPromoted, Boxed
  <2>2. sent \subseteq Boxed /\ ConfirmedOf(n) \subseteq Reports
    BY <1>1, MembersAreTyped
  <2>3. QED BY <1>2, <2>1, <2>2, SessionAssumption
<1> HIDE DEF sent
<1>8. \A m \in Messages : times'[m] = IF m \in sent THEN times[m] + 1 ELSE times[m]
  BY <1>1, <1>3, <1>7 DEF TypeOK
<1>9. \A m \in Messages : /\ m \in sent => times'[m] > 0
                          /\ times[m] > 0 => times'[m] > 0
                          /\ m \notin sent => times'[m] = times[m]
  BY <1>6, <1>8
<1>10. /\ Sound(entry') /\ Sound(disk') /\ (~dirty' => disk' = entry')
       /\ Queued(entry') \subseteq Queued(entry)
       /\ Queued(entry) \subseteq Queued(entry') \cup sent
       /\ Queued(disk') \subseteq Queued(entry) \cup Queued(disk)
  <2>1. CASE UNCHANGED <<entry, disk, dirty>>
    <3>1. Queued(entry') = Queued(entry) /\ Queued(disk') = Queued(disk)
      BY <2>1 DEF Queued
    <3>2. Sound(entry') /\ Sound(disk') /\ (~dirty' => disk' = entry')
      BY <1>1, <1>2, <2>1 DEF CleanMeansSaved, Sound, Promoted, Queued
    <3>3. QED BY <3>1, <3>2
  <2>2. CASE Reap(sent)
    <3>1. /\ entry' = Without(entry, sent)
          /\ \/ disk' = entry' /\ dirty' = FALSE
             \/ disk' = disk /\ dirty' = TRUE
      BY <2>2 DEF Reap
    <3>2. Sound(Without(entry, sent)) /\ Queued(Without(entry, sent)) = Queued(entry) \ sent
      BY <1>2, WithoutFacts
    <3>3. QED BY <1>2, <3>1, <3>2
  <2>3. QED BY <1>3, <2>1, <2>2
<1>11. Places'
  <2>1. Queued(entry') \cup Queued(disk') \cup (Carried' \cap Messages) \subseteq typed'
    BY <1>2, <1>3, <1>5, <1>10
  <2>2. withdrawn' \cap (Queued(entry') \cup Queued(disk') \cup Carried') = {}
    BY <1>2, <1>3, <1>5, <1>10
  <2>3. (Queued(entry') \cup Queued(disk')) \cap Carried' = {}
    BY <1>5
  <2>4. QED BY <1>3, <1>4, <1>10, <2>1, <2>2, <2>3 DEF Places
<1>12. Commits'
  <2>1. \A m \in Messages : times'[m] > 0 => m \in typed'
    BY <1>1, <1>2, <1>3, <1>7, <1>9 DEF Commits
  <2>2. \A m \in receipts' : times'[m] > 0
    BY <1>1, <1>3, <1>6, <1>7, <1>9 DEF Commits
  <2>3. QED BY <2>1, <2>2 DEF Commits
<1>13. WithdrawnStaysOut' /\ CleanMeansSaved'
  BY <1>1, <1>2, <1>3, <1>6, <1>7, <1>9, <1>10 DEF WithdrawnStaysOut, CleanMeansSaved
<1>14. BoxedIsPromoted' /\ Boxed' = {}
  BY <1>3 DEF BoxedIsPromoted, Boxed
<1>15. Accounted'
  <2>1. \A m \in accepted : \/ m \in withdrawn \cup lost \/ times[m] > 0
                            \/ m \in Queued(entry)
    BY <1>1, <1>5 DEF Accounted, Queued, Carried
  <2>2. \A m \in accepted' : \/ m \in withdrawn' \cup lost' \/ times'[m] > 0
                             \/ m \in Queued(entry') \/ m \in Carried'
    BY <1>3, <1>6, <1>9, <1>10, <2>1
  <2>3. QED BY <2>2 DEF Accounted, Queued, Carried
<1>16. ASSUME OnceInv PROVE OnceInv'
  <2>1. \A m \in Messages : times[m] <= 1 /\ (m \in sent => times[m] = 0)
    BY <1>5, <1>7, <1>16 DEF OnceInv, NothingTwice
  <2>2. NothingTwice'
    BY <1>6, <1>8, <2>1 DEF NothingTwice
  <2>3. \A m \in Queued(entry') \cup Queued(disk') : times'[m] > 0 => m \in receipts'
    BY <1>2, <1>3, <1>9, <1>10, <1>16 DEF OnceInv
  <2>4. QED BY <1>5, <1>14, <2>2, <2>3 DEF OnceInv
<1>17. QED BY <1>11, <1>12, <1>13, <1>14, <1>15, <1>16 DEF QueueInv

\* What the driver does with a run that has prepared leaves its messages alone.
LEMMA QueueOfSettlement ==
    ASSUME QueueInv, TypeOK', Finish \/ SettleScheduled \/ Settle
    PROVE  QueueInv' /\ (OnceInv /\ ~ReceiptsMayFail => OnceInv')
<1> USE DEF queueVars, runVars, boxVars, history
<1>1. TypeOK /\ Places /\ CleanMeansSaved /\ Sound(entry) /\ Sound(disk)
  BY DEF QueueInv, Places
<1>2. run.phase \in {"running", "done", "error", "aborted"}
  BY DEF Finish, SettleScheduled, Settle
<1>3. run.carried = <<>> /\ Carried = {}
  BY <1>1, <1>2 DEF Places, Carried, ToSet
<1>4. UNCHANGED <<receipts, times, typed, accepted, withdrawn, lost>>
  BY DEF Finish, SettleScheduled, Settle
<1>5. CASE Finish
  <2>1. /\ run' \in {[run EXCEPT !.phase = end] : end \in {"aborted", "done", "error"}}
        /\ UNCHANGED <<entry, disk, dirty, mailbox, internals>>
        /\ run.phase = "running"
    BY <1>5 DEF Finish
  <2>2. run'.carried = <<>> /\ run'.phase \notin {"preparing", "running", "idle"}
    BY <1>1, <1>3, <2>1 DEF TypeOK
  <2>3. Carried' = {} /\ ~Active'
    BY <2>2 DEF Carried, ToSet, Active
  <2>4. ~dirty' => disk = entry
    BY <1>1, <2>1 DEF CleanMeansSaved
  <2>5. QED BY <1>3, <1>4, <2>1, <2>2, <2>3, <2>4, QueueStays
<1>6. ASSUME run' = NoRun \/ (\E r \in Reports : run' = Started("internal", <<r>>)),
             UNCHANGED <<entry, disk, dirty>>, mailbox' = <<>>, internals' = <<>>
      PROVE  QueueInv' /\ (OnceInv => OnceInv')
  <2>1. /\ run'.phase # "preparing" \/ run'.kind = "scheduled" => run'.carried = <<>>
        /\ Carried' \cap Messages = {}
    <3>1. CASE run' = NoRun
      <4>1. run'.carried = <<>>
        BY <3>1 DEF NoRun
      <4>2. QED BY <4>1 DEF Carried, ToSet
    <3>2. ASSUME NEW r \in Reports, run' = Started("internal", <<r>>)
          PROVE  /\ run'.phase # "preparing" \/ run'.kind = "scheduled" => run'.carried = <<>>
                 /\ Carried' \cap Messages = {}
      <4>1. run'.phase = "preparing" /\ run'.kind # "scheduled" /\ run'.carried = <<r>>
        BY <3>2 DEF Started
      <4>2. QED BY <4>1, SessionAssumption DEF Carried, ToSet
    <3>3. QED BY <1>6, <3>1, <3>2
  <2>2. ~dirty' => disk = entry
    BY <1>1, <1>6 DEF CleanMeansSaved
  <2>3. QED BY <1>3, <1>4, <1>6, <2>1, <2>2, QueueStays
<1>7. CASE SettleScheduled
  <2>1. /\ run' = NoRun /\ mailbox' = <<>> /\ internals' = <<>>
        /\ UNCHANGED <<entry, disk, dirty>>
    BY <1>7 DEF SettleScheduled, StayIdle
  <2>2. QED BY <1>6, <2>1
<1>8. CASE Settle
  <2> DEFINE list == Reclaimed
             base == IF run.phase = "done" THEN reporting ELSE reporting \ ToSet(unconfirmed)
  <2>1. PICK k \in 0 .. Len(list) :
            /\ FlushUpTo(list, k, base, faults)
            /\ IF k < Len(list) THEN UNCHANGED queueVars
               ELSE IF run.phase = "done" THEN DrainFrom(entry, disk, faults + k)
               ELSE StayIdle /\ faults' = faults + k /\ UNCHANGED queueVars
    BY <1>8 DEF Settle
  <2>2. mailbox' = <<>> /\ internals' = <<>>
    BY <1>8 DEF Settle
  <2>3. list \in Seq(Reports) /\ base \in SUBSET Reports /\ faults \in Nat
    <3>1. /\ unconfirmed \in Seq(Reports) /\ deferred \in Seq(Reports)
          /\ reporting \subseteq Reports /\ faults \in Nat
      BY <1>1, SessionAssumption DEF TypeOK
    <3>2. QED BY <3>1, ConcatProperties DEF Reclaimed
  <2>4. Len(list) \in Nat
    BY <2>3, LenProperties
  <2> HIDE DEF list, base
  <2>5. k \in Nat /\ (k < Len(list) \/ k = Len(list)) /\ ~(k < Len(list) /\ k = Len(list))
    <3>1. \A n \in Nat : \A i \in 0 .. n : i \in Nat /\ (i < n \/ i = n) /\ ~(i < n /\ i = n)
      OBVIOUS
    <3>2. QED BY <2>4, <3>1, Zenon
  <2>6. CASE k < Len(list)
    <3>1. \E r \in Reports : run' = Started("internal", <<r>>)
      BY <1>1, <2>1, <2>3, <2>6, FlushFacts
    <3>2. UNCHANGED <<entry, disk, dirty>>
      BY <2>1, <2>6
    <3>3. QED BY <1>6, <2>2, <3>1, <3>2
  <2>7. CASE k = Len(list) /\ run.phase # "done"
    <3>1. run' = NoRun /\ UNCHANGED <<entry, disk, dirty>>
      BY <2>1, <2>5, <2>7 DEF StayIdle
    <3>2. QED BY <1>6, <2>2, <3>1
  <2>8. CASE k = Len(list) /\ run.phase = "done"
    <3>1. faults + k \in Nat
      BY <2>3, <2>5
    <3>2. DrainFrom(entry, disk, faults + k)
      BY <2>1, <2>5, <2>8
    <3>3. Drained(entry, disk, faults + k)
      BY <1>1, <3>1, <3>2, DrainFacts
    <3>4. \A m \in accepted' : m \in withdrawn \cup lost \/ times[m] > 0 \/ m \in Queued(entry)
      BY <1>3, <1>4 DEF QueueInv, Accounted, Carried, Queued
    <3>5. /\ Queued(entry) \cup Queued(disk) \subseteq typed'
          /\ withdrawn \cap (Queued(entry) \cup Queued(disk)) = {}
      BY <1>1, <1>4 DEF Places
    <3>6. /\ QueueInv'
          /\ OnceInv /\ ~ReceiptsMayFail
                /\ (\A m \in Queued(entry) \cup Queued(disk) : times[m] > 0 => m \in receipts)
             => OnceInv'
      BY <1>4, <2>2, <3>3, <3>4, <3>5, QueueDrains
    <3>7. QED BY <3>6 DEF OnceInv
  <2>9. QED BY <2>5, <2>6, <2>7, <2>8
<1>9. QED BY <1>5, <1>7, <1>8

\* A restart reads back what is on disk.
LEMMA QueueOfCrash ==
    ASSUME QueueInv, TypeOK', Crash
    PROVE  QueueInv' /\ (OnceInv => OnceInv')
<1>1. /\ TypeOK /\ Places /\ Commits /\ WithdrawnStaysOut /\ Sound(disk)
  BY DEF QueueInv, Places
<1>2. /\ entry' = disk /\ disk' = disk /\ run' = NoRun /\ mailbox' = <<>> /\ internals' = <<>>
      /\ UNCHANGED <<receipts, times, typed, accepted, withdrawn>>
      /\ lost' = lost \cup {m \in accepted \ withdrawn :
                                times[m] = 0 /\ m \notin Queued(disk)}
  BY DEF Crash, Queued
<1>3. run'.carried = <<>> /\ run'.kind # "scheduled" /\ run'.phase = "idle"
  BY <1>2 DEF NoRun
<1>4. Carried' = {} /\ ~Active'
  BY <1>3 DEF Carried, ToSet, Active
<1>5. /\ Sound(entry') /\ Sound(disk') /\ Queued(entry') = Queued(disk)
      /\ Queued(disk') = Queued(disk)
  BY <1>1, <1>2
<1>6. Places'
  BY <1>1, <1>2, <1>3, <1>4, <1>5 DEF Places
<1>7. Commits' /\ WithdrawnStaysOut' /\ BoxedIsPromoted' /\ CleanMeansSaved'
  BY <1>1, <1>2, <1>4
  DEF Commits, WithdrawnStaysOut, BoxedIsPromoted, CleanMeansSaved
<1>8. Accounted'
  <2>1. \A m \in accepted : times[m] \in Nat
    BY <1>1 DEF TypeOK
  <2>2. \A m \in accepted : times[m] = 0 \/ times[m] > 0
    BY <2>1
  <2>3. \A m \in accepted' : \/ m \in withdrawn' \cup lost' \/ times'[m] > 0
                             \/ m \in Queued(entry') \/ m \in Carried'
    BY <1>2, <1>5, <2>2
  <2>4. QED BY <2>3 DEF Accounted, Queued, Carried
<1>9. OnceInv => OnceInv'
  BY <1>2, <1>4, <1>5 DEF OnceInv, NothingTwice
<1>10. QED BY <1>6, <1>7, <1>8, <1>9 DEF QueueInv

LEMMA QueueStep ==
    ASSUME QueueInv, [Next]_vars
    PROVE  QueueInv' /\ (OnceInv /\ ~ReceiptsMayFail => OnceInv')
<1> USE DEF queueVars, runVars, boxVars, reportVars, history
<1>1. TypeOK /\ Places /\ CleanMeansSaved /\ TypeOK'
  BY TypesStep DEF QueueInv
<1>2. ASSUME UNCHANGED <<entry, disk, dirty, run, mailbox, receipts, times, typed,
                         accepted, withdrawn, lost>>,
             UNCHANGED internals \/ Active
      PROVE  QueueInv' /\ (OnceInv => OnceInv')
  <2>1. ~dirty' => disk = entry
    BY <1>1, <1>2 DEF CleanMeansSaved
  <2>2. /\ run'.phase # "preparing" \/ run'.kind = "scheduled" => run'.carried = <<>>
        /\ run'.phase = "idle" => mailbox' = <<>> /\ internals' = <<>>
        /\ Carried' = Carried /\ (Active' => Active)
    BY <1>1, <1>2 DEF Places, Carried, Active
  <2>3. QED BY <1>1, <1>2, <2>1, <2>2, QueueStays
<1>3. CASE UNCHANGED vars
  BY <1>2, <1>3 DEF vars
<1>4. CASE RetryTick
  <2>1. /\ UNCHANGED <<entry, disk, dirty, mailbox, receipts, times, typed, accepted,
                       withdrawn, lost>>
        /\ \/ UNCHANGED run /\ (UNCHANGED internals \/ Active)
           \/ /\ ~Busy /\ UNCHANGED internals
              /\ \E k \in 0 .. Len(deferred) :
                     /\ FlushUpTo(deferred, k, reporting, faults)
                     /\ k = Len(deferred) => UNCHANGED runVars
    BY <1>4 DEF RetryTick, FlushIntoActive, GiveUp
  <2>2. CASE UNCHANGED run /\ (UNCHANGED internals \/ Active)
    BY <1>2, <2>1, <2>2
  <2>3. CASE /\ ~Busy /\ UNCHANGED internals
             /\ \E k \in 0 .. Len(deferred) :
                    /\ FlushUpTo(deferred, k, reporting, faults)
                    /\ k = Len(deferred) => UNCHANGED runVars
    <3>1. deferred \in Seq(Reports) /\ reporting \in SUBSET Reports /\ faults \in Nat
      BY <1>1, SessionAssumption DEF TypeOK
    <3>2. Len(deferred) \in Nat
      BY <3>1, LenProperties
    <3>3. UNCHANGED run \/ \E r \in Reports : run' = Started("internal", <<r>>)
      <4>1. PICK k \in 0 .. Len(deferred) :
                /\ FlushUpTo(deferred, k, reporting, faults)
                /\ k = Len(deferred) => UNCHANGED runVars
        BY <2>3
      <4>2. k < Len(deferred) \/ k = Len(deferred)
        <5>1. \A n \in Nat : \A i \in 0 .. n : i < n \/ i = n
          OBVIOUS
        <5>2. QED BY <3>2, <5>1, Zenon
      <4>3. k < Len(deferred) => \E r \in Reports : run' = Started("internal", <<r>>)
        BY <1>1, <3>1, <4>1, FlushFacts
      <4>4. QED BY <4>1, <4>2, <4>3
    <3>4. ASSUME NEW r \in Reports, run' = Started("internal", <<r>>)
          PROVE  QueueInv' /\ (OnceInv => OnceInv')
      <4>1. mailbox' = <<>> /\ Carried = {}
        BY <1>1, <2>1, <2>3, IdleIsEmpty
      <4>2. run'.phase = "preparing" /\ run'.kind # "scheduled" /\ run'.carried = <<r>>
        BY <3>4 DEF Started
      <4>3. Carried' \cap Messages = {}
        BY <4>2, SessionAssumption DEF Carried, ToSet
      <4>4. ~dirty' => disk = entry
        BY <1>1, <2>1 DEF CleanMeansSaved
      <4>5. QED BY <1>1, <2>1, <4>1, <4>2, <4>3, <4>4, QueueStays
    <3>5. QED BY <1>2, <2>1, <2>3, <3>3, <3>4
  <2>4. QED BY <2>1, <2>2, <2>3
<1>5. CASE Operation
  BY <1>2, <1>5 DEF Operation
<1>6. ASSUME NEW r \in Reports, ChildFinished(r) \/ ChildWaits(r)
      PROVE  QueueInv' /\ (OnceInv => OnceInv')
  <2>1. CASE ChildFinished(r)
    BY <1>1, <2>1, QueueOfDelivery DEF ChildFinished
  <2>2. CASE ChildWaits(r)
    BY <1>2, <2>2 DEF ChildWaits
  <2>3. QED BY <1>6, <2>1, <2>2
<1>7. CASE User
  BY <1>1, <1>7, QueueOfUser
<1>8. CASE Driver
  BY <1>1, <1>8, QueueOfPreparation, QueueOfInjection, QueueOfSettlement DEF Driver
<1>9. CASE Crash
  BY <1>1, <1>9, QueueOfCrash
<1>10. QED BY <1>3, <1>4, <1>5, <1>6, <1>7, <1>8, <1>9 DEF Next

-----------------------------------------------------------------------------
(* What holds of the queue                                                  *)

LEMMA QueueInit ==
    ASSUME Init
    PROVE  QueueInv /\ OnceInv
<1>1. <<>> \in Seq(Messages) /\ <<>> \in Seq(Reports) /\ ToSet(<<>>) = {}
  BY EmptySeq DEF ToSet
<1>2. /\ Empty.queued = <<>> /\ Empty.promoted = <<>>
      /\ Empty \in Entries
  <2>1. [m \in Messages |-> 0] \in [Messages -> 0 .. MaxEdits]
    BY SessionAssumption
  <2>2. QED BY <1>1, <2>1 DEF Empty, Entries
<1>3. /\ entry = Empty /\ disk = Empty /\ dirty = FALSE /\ mailbox = <<>> /\ internals = <<>>
      /\ receipts = {} /\ typed = {} /\ accepted = {} /\ withdrawn = {} /\ lost = {}
      /\ times = [i \in Messages \cup Reports |-> 0]
      /\ run \in {NoRun, Started("scheduled", <<>>)}
  BY SessionAssumption DEF Init
<1>4. Queued(entry) = {} /\ Queued(disk) = {} /\ Promoted(entry) = {} /\ Sound(entry) /\ Sound(disk)
  BY <1>1, <1>2, <1>3 DEF Queued, Promoted, Sound
<1>5. run.carried = <<>> /\ run \in RunRecords
  <2>1. run.carried = <<>>
    BY <1>3 DEF NoRun, Started
  <2>2. NoRun \in RunRecords /\ Started("scheduled", <<>>) \in RunRecords
    BY RunIsTyped DEF Kinds
  <2>3. QED BY <1>3, <2>1, <2>2
<1>6. Carried = {} /\ Boxed = {}
  BY <1>1, <1>3, <1>5 DEF Carried, Boxed
<1>7. TypeOK
  <2>1. mailbox \in Seq([id : Messages, text : 0 .. MaxEdits])
    BY <1>3, EmptySeq
  <2>2. QueueTypes /\ RunTypes /\ BoxType
    BY <1>2, <1>3, <1>5, <2>1 DEF Init, QueueTypes, RunTypes, BoxType
  <2>3. ReportTypes
    <3>1. 0 \in 0 .. MaxAttempts
      BY SessionAssumption
    <3>2. reported \in [Reports -> {"none", "pending", "reported"}]
      BY DEF Init
    <3>3. QED BY <1>1, <3>1, <3>2 DEF Init, ReportTypes
  <2>4. PastTypes
    <3>1. times \in [Messages \cup Reports -> Nat]
      BY <1>3
    <3>2. QED BY <1>3, <3>1 DEF Init, PastTypes
  <2>5. faults \in 0 .. MaxFaults
    BY SessionAssumption DEF Init
  <2>6. QED BY <2>2, <2>3, <2>4, <2>5, TypesInParts
<1>8. Places
  BY <1>3, <1>4, <1>5, <1>6 DEF Places
<1>9. /\ Commits /\ BoxedIsPromoted /\ Accounted /\ CleanMeansSaved /\ WithdrawnStaysOut
      /\ NothingTwice
  BY <1>3
  DEF Commits, BoxedIsPromoted, Accounted, CleanMeansSaved, WithdrawnStaysOut, NothingTwice
<1>10. OnceInv
  BY <1>4, <1>6, <1>9 DEF OnceInv
<1>11. QED BY <1>7, <1>8, <1>9, <1>10 DEF QueueInv

\* The inductive invariant of the queue: with the types, where a message can be and
\* where it can not be at the same time (enqueue, drain, put-back, syncInterject and
\* reapCommitted of session-runtime.ts).
THEOREM QueueInvariant == Spec => []QueueInv
<1>1. Init => QueueInv
  BY QueueInit
<1>2. QueueInv /\ [Next]_vars => QueueInv'
  BY QueueStep
<1>3. QED BY <1>1, <1>2, PTL DEF Spec

\* Every variable keeps its type: the promoted ids and the mailbox name messages,
\* and the retry counter stays within DEFERRED_MAX_RETRIES.
THEOREM SessionTypes == Spec => []TypeOK
<1>1. QueueInv => TypeOK
  BY DEF QueueInv
<1>2. QED BY <1>1, QueueInvariant, PTL

\* A confirmed message is in the queue, in the run that is being prepared, in the
\* session, taken back, or among those an unprepared run or a crash took.
THEOREM NoMessageMislaid == Spec => []Accounted
<1>1. QueueInv => Accounted
  BY DEF QueueInv
<1>2. QED BY <1>1, QueueInvariant, PTL

\* What is not marked dirty is on disk, through refused writes and put-backs.
THEOREM CleanIsSaved == Spec => []CleanMeansSaved
<1>1. QueueInv => CleanMeansSaved
  BY DEF QueueInv
<1>2. QED BY <1>1, QueueInvariant, PTL

\* A message taken back before it was sent is never sent.
THEOREM WithdrawnIsNeverSent == Spec => []WithdrawnStaysOut
<1>1. QueueInv => WithdrawnStaysOut
  BY DEF QueueInv
<1>2. QED BY <1>1, QueueInvariant, PTL

\* The mailbox of the run holds promoted messages with their last text.
THEOREM MailboxFollowsQueue == Spec => []MailboxIsCurrent
<1>1. QueueInv => MailboxIsCurrent
  BY DEF QueueInv, BoxedIsPromoted, MailboxIsCurrent, Promoted
<1>2. QED BY <1>1, QueueInvariant, PTL

\* Where the receipts can be read, no queued message is committed twice.
THEOREM CommittedOnce ==
    ASSUME ~ReceiptsMayFail
    PROVE  Spec => []NothingTwice
<1>1. Init => QueueInv /\ OnceInv
  BY QueueInit
<1>2. QueueInv /\ OnceInv /\ [Next]_vars => (QueueInv /\ OnceInv)'
  BY QueueStep
<1>3. OnceInv => NothingTwice
  BY DEF OnceInv
<1>4. QED BY <1>1, <1>2, <1>3, PTL DEF Spec

LEMMA ConfirmedIsSaved ==
    ASSUME QueueInv, [Next]_vars, NEW m \in accepted' \ accepted
    PROVE  m \in ToSet(disk'.queued) \/ m \in ToSet(run'.carried)
<1> USE DEF queueVars, runVars, boxVars, reportVars, history
<1>1. \E x \in Messages : Enqueue(x)
  <2>1. accepted' # accepted
    OBVIOUS
  <2>2. ~UNCHANGED vars /\ ~RetryTick /\ ~Operation /\ ~Crash
    BY <2>1 DEF vars, RetryTick, Operation, Crash
  <2>3. ~\E r \in Reports : ChildFinished(r) \/ ChildWaits(r) \/ ReportManually(r)
    BY <2>1 DEF ChildFinished, ChildWaits, ReportManually, Deliver
  <2>4. ~Driver
    BY <2>1 DEF Driver, Prepared, PrepareFails, Finish, Settle, SettleScheduled, Inject
  <2>5. ~\E x \in Messages : Promote(x) \/ Edit(x) \/ Withdraw(x)
    BY <2>1 DEF Promote, Edit, Withdraw
  <2>6. ~(Refused \/ Resume \/ Send \/ TypeDraft \/ SaveDraft \/ Abort)
    BY <2>1 DEF Refused, Resume, Send, TypeDraft, SaveDraft, Abort
  <2>7. User
    BY <2>2, <2>3, <2>4 DEF Next
  <2>8. QED BY <2>3, <2>5, <2>6, <2>7 DEF User
<1>2. PICK x \in Messages : Enqueue(x)
  BY <1>1
<1> DEFINE e == Enqueued(x)
<1>3. /\ Sound(entry) /\ faults \in Nat /\ receipts \subseteq Messages
      /\ \A i \in Messages : times[i] > 0 => i \in typed
      /\ \A i \in receipts : times[i] > 0
  <2>1. TypeOK /\ Places /\ Commits
    BY DEF QueueInv
  <2>2. faults \in Nat /\ receipts \subseteq Messages
    BY <2>1, SessionAssumption DEF TypeOK
  <2>3. QED BY <2>1, <2>2 DEF Places, Commits
<1>4. /\ DrainIfIdle(e) /\ Sound(e) /\ x \in Queued(e) /\ x \notin typed
      /\ m = x /\ ~dirty'
  BY <1>2, <1>3, EnqueuedFacts DEF Enqueue, Enqueued
<1> HIDE DEF e
<1>5. x \notin receipts
  BY <1>3, <1>4
<1>6. CASE Busy
  <2>1. disk' = e
    BY <1>3, <1>4, <1>6, DrainIfIdleFacts
  <2>2. QED BY <1>4, <2>1 DEF Queued
<1>7. CASE ~Busy
  <2>1. Drained(e, e, faults)
    BY <1>3, <1>4, <1>7, DrainIfIdleFacts
  <2>2. (x \in Queued(entry') \/ x \in Carried') /\ disk' = entry'
    BY <1>4, <1>5, <2>1 DEF Drained
  <2>3. QED BY <1>4, <2>2 DEF Queued, Carried
<1>8. QED BY <1>6, <1>7

\* What enqueue confirms is on disk, or already in a run.
THEOREM AcknowledgedIsSaved == Spec => AckedIsSaved
<1>1. QueueInv /\ [Next]_vars =>
        [\A m \in accepted' \ accepted :
             m \in ToSet(disk'.queued) \/ m \in ToSet(run'.carried)]_vars
  BY ConfirmedIsSaved
<1>2. QED BY <1>1, QueueInvariant, PTL DEF Spec, AckedIsSaved

-----------------------------------------------------------------------------
(* The reports                                                              *)

\* A step that leaves the reports where they are.
LEMMA ReportsStay ==
    ASSUME QueueInv, ReportInv,
           UNCHANGED <<internals, unconfirmed, deferred, reporting, reported>>,
           \A r \in Reports : times'[r] = times[r],
           run'.kind # "scheduled", Carried' \cap Reports \subseteq Carried,
           attempts > 0 => attempts' > 0,
           run'.phase = "idle" => run.phase = "idle"
    PROVE  ReportInv'
<1>1. ReportsTracked'
  BY DEF ReportInv, ReportsTracked
<1>2. /\ ToSet(internals) \subseteq Reports
      /\ Carried' \cap ToSet(internals) = {}
  <2>1. ToSet(internals) \subseteq Reports
    BY MembersAreTyped DEF QueueInv
  <2>2. QED BY <2>1 DEF ReportInv
<1>3. Carried' \cap Reports \subseteq ToSet(unconfirmed')
  BY DEF ReportInv
<1>4. \A r \in Reports :
          IF reported'[r] = "reported" THEN times'[r] = 1 /\ r \notin reporting'
          ELSE times'[r] = 0
  BY DEF ReportInv
<1>5. QED BY <1>1, <1>2, <1>3, <1>4 DEF ReportInv

\* The run, or its mailbox, commits some of them.
LEMMA ReportsAreConsumed ==
    ASSUME QueueInv, ReportInv, NEW done, done \subseteq ToSet(unconfirmed),
           Verdict(done), unconfirmed' = Kept(unconfirmed, done),
           \A r \in Reports : times'[r] = IF r \in done THEN times[r] + 1 ELSE times[r],
           UNCHANGED <<deferred, attempts>>, run'.kind # "scheduled", run'.phase # "idle",
           Carried' = {},
           internals' = <<>> \/ (UNCHANGED internals /\ ToSet(internals) \cap done = {})
    PROVE  ReportInv'
<1>1. unconfirmed \in Seq(Reports) /\ deferred \in Seq(Reports)
  BY DEF QueueInv, TypeOK
<1>2. ToSet(unconfirmed') = ToSet(unconfirmed) \ done /\ Distinct(unconfirmed')
  BY <1>1, KeptFacts DEF ReportInv
<1>3. /\ reporting = ToSet(deferred) \cup ToSet(unconfirmed)
      /\ ToSet(unconfirmed) \cap ToSet(deferred) = {}
      /\ reporting' = reporting \ done
      /\ reported' = [r \in Reports |-> IF r \in done THEN "reported" ELSE reported[r]]
  BY DEF ReportInv, ReportsTracked, Verdict
<1>4. ReportsTracked'
  <2>1. reporting' = ToSet(deferred') \cup ToSet(unconfirmed')
    BY <1>2, <1>3
  <2>2. QED BY <2>1 DEF ReportsTracked
<1>5. \A r \in Reports :
          IF reported'[r] = "reported" THEN times'[r] = 1 /\ r \notin reporting'
          ELSE times'[r] = 0
  <2>1. SUFFICES ASSUME NEW r \in Reports
                 PROVE  IF reported'[r] = "reported" THEN times'[r] = 1 /\ r \notin reporting'
                        ELSE times'[r] = 0
    OBVIOUS
  <2>2. IF reported[r] = "reported" THEN times[r] = 1 /\ r \notin reporting
        ELSE times[r] = 0
    BY DEF ReportInv
  <2>3. CASE r \in done
    BY <1>3, <2>2, <2>3
  <2>4. CASE r \notin done
    BY <1>3, <2>2, <2>4
  <2>5. QED BY <2>3, <2>4
<1>6. ToSet(internals') \subseteq ToSet(unconfirmed') /\ Carried' \cap ToSet(internals') = {}
  <2>1. CASE internals' = <<>>
    BY <2>1 DEF ToSet
  <2>2. CASE UNCHANGED internals /\ ToSet(internals) \cap done = {}
    BY <1>2, <2>2 DEF ReportInv
  <2>3. QED BY <2>1, <2>2
<1>7. /\ Distinct(deferred') /\ ToSet(unconfirmed') \cap ToSet(deferred') = {}
      /\ Carried' \cap Reports \subseteq ToSet(unconfirmed')
  BY <1>2, <1>3 DEF ReportInv
<1>8. QED BY <1>2, <1>4, <1>5, <1>6, <1>7 DEF ReportInv

\* Those that wait for the session are launched, or given back.
LEMMA ReportsAreFlushed ==
    ASSUME QueueInv, ReportInv, NEW list \in Seq(Reports), Distinct(list),
           ToSet(list) \subseteq reporting, NEW k \in 0 .. Len(list), NEW f \in Nat,
           FlushUpTo(list, k, ToSet(list), f),
           k = Len(list) => Carried' \cap Reports = {} /\ run'.kind # "scheduled",
           internals' = <<>>, \A r \in Reports : times'[r] = times[r]
    PROVE  ReportInv'
<1>1. TypeOK /\ ToSet(list) \in SUBSET Reports /\ Len(list) \in Nat
  BY LenProperties DEF QueueInv, TypeOK
<1>2. k \in Nat /\ (k < Len(list) \/ k = Len(list))
  <2>1. \A n \in Nat : \A i \in 0 .. n : i \in Nat /\ (i < n \/ i = n)
    OBVIOUS
  <2>2. QED BY <1>1, <2>1, Zenon
<1>3. /\ Distinct(unconfirmed') /\ Distinct(deferred')
      /\ ToSet(unconfirmed') \cap ToSet(deferred') = {}
      /\ ToSet(unconfirmed') \cup ToSet(deferred') \subseteq ToSet(list)
      /\ reporting' = (ToSet(list) \ ToSet(list))
             \cup (ToSet(list) \cap (ToSet(unconfirmed') \cup ToSet(deferred')))
  BY <1>1, FlushFacts
<1>4. reporting' = ToSet(deferred') \cup ToSet(unconfirmed') /\ reporting' \subseteq reporting
  BY <1>3
<1>5. \A r \in Reports :
          IF reported'[r] = "reported" THEN times'[r] = 1 /\ r \notin reporting'
          ELSE times'[r] = 0
  <2> DEFINE refused == {list[i] : i \in 1 .. k}
  <2>1. reported' = [r \in Reports |->
            IF r \in refused \cup (reporting \ ToSet(list)) THEN "pending" ELSE reported[r]]
    BY DEF FlushUpTo
  <2>2. DOMAIN list = 1 .. Len(list) /\ \A i \in 1 .. k : i \in 1 .. Len(list)
    BY <1>1, <1>2, LenProperties
  <2>3. refused \subseteq reporting
    BY <2>2 DEF ToSet
  <2> HIDE DEF refused
  <2>4. SUFFICES ASSUME NEW r \in Reports
                 PROVE  IF reported'[r] = "reported" THEN times'[r] = 1 /\ r \notin reporting'
                        ELSE times'[r] = 0
    OBVIOUS
  <2>5. IF reported[r] = "reported" THEN times[r] = 1 /\ r \notin reporting
        ELSE times[r] = 0
    BY DEF ReportInv
  <2>6. CASE r \in reporting
    BY <2>1, <2>5, <2>6
  <2>7. CASE r \notin reporting
    BY <1>4, <2>1, <2>3, <2>5, <2>7
  <2>8. QED BY <2>6, <2>7
<1>6. CASE k < Len(list)
  <2>1. PICK r \in Reports : run' = Started("internal", <<r>>) /\ unconfirmed' = <<r>>
    BY <1>1, <1>6, FlushFacts
  <2>2. deferred' # <<>> => attempts' > 0
    BY <1>1, <1>6, FlushFacts
  <2>3. run'.kind # "scheduled" /\ run'.phase # "idle" /\ run'.carried = <<r>>
    BY <2>1 DEF Started
  <2>4. Carried' = ToSet(unconfirmed') /\ ToSet(internals') = {}
    BY <2>1, <2>3 DEF Carried, ToSet
  <2>5. ReportsTracked'
    BY <1>4, <2>2, <2>3 DEF ReportsTracked
  <2>6. QED BY <1>3, <1>5, <2>3, <2>4, <2>5 DEF ReportInv
<1>7. CASE k = Len(list)
  <2>1. unconfirmed' = <<>> /\ deferred' = <<>>
    BY <1>1, <1>7, FlushFacts
  <2>2. ReportsTracked'
    BY <1>4, <2>1 DEF ReportsTracked
  <2>3. ToSet(internals') = {}
    BY DEF ToSet
  <2>4. QED BY <1>3, <1>5, <1>7, <2>2, <2>3 DEF ReportInv
<1>8. QED BY <1>2, <1>6, <1>7

\* A report that nobody has is delivered.
LEMMA ReportIsDelivered ==
    ASSUME QueueInv, ReportInv, NEW r \in Reports, Deliver(r), reported[r] # "reported"
    PROVE  ReportInv'
<1> USE DEF runVars, history
<1>1. /\ unconfirmed \in Seq(Reports) /\ deferred \in Seq(Reports) /\ internals \in Seq(Reports)
      /\ reported \in [Reports -> {"none", "pending", "reported"}]
      /\ attempts \in 0 .. MaxAttempts /\ Places
  BY DEF QueueInv, TypeOK
<1>2. /\ reporting = ToSet(deferred) \cup ToSet(unconfirmed)
      /\ Distinct(unconfirmed) /\ Distinct(deferred)
      /\ ToSet(unconfirmed) \cap ToSet(deferred) = {}
      /\ ToSet(internals) \subseteq ToSet(unconfirmed)
      /\ Carried \cap Reports \subseteq ToSet(unconfirmed)
      /\ Carried \cap ToSet(internals) = {}
      /\ run.kind # "scheduled"
      /\ deferred # <<>> => attempts > 0 \/ run.phase # "idle"
      /\ unconfirmed # <<>> => run.phase # "idle"
  BY DEF ReportInv, ReportsTracked
<1>3. /\ r \notin reporting /\ UNCHANGED times
      /\ reported' = [reported EXCEPT ![r] = "pending"]
      /\ reporting' = reporting \/ reporting' = reporting \cup {r}
  BY DEF Deliver, UnderWay
<1>4. r \notin Carried /\ r \notin ToSet(internals)
  BY <1>2, <1>3
<1>5. \A x \in Reports :
          IF reported'[x] = "reported" THEN times'[x] = 1 /\ x \notin reporting'
          ELSE times'[x] = 0
  <2>1. SUFFICES ASSUME NEW x \in Reports
                 PROVE  IF reported'[x] = "reported" THEN times'[x] = 1 /\ x \notin reporting'
                        ELSE times'[x] = 0
    OBVIOUS
  <2>2. IF reported[x] = "reported" THEN times[x] = 1 /\ x \notin reporting
        ELSE times[x] = 0
    BY DEF ReportInv
  <2>3. CASE x = r
    BY <1>1, <1>3, <2>2, <2>3
  <2>4. CASE x # r
    BY <1>1, <1>3, <2>2, <2>4
  <2>5. QED BY <2>3, <2>4
<1>6. CASE /\ Active
           /\ internals' = Append(internals, r) /\ unconfirmed' = Append(unconfirmed, r)
           /\ reporting' = reporting \cup {r} /\ UNCHANGED <<run, deferred, attempts>>
  <2>1. /\ ToSet(unconfirmed') = ToSet(unconfirmed) \cup {r} /\ Distinct(unconfirmed')
        /\ ToSet(internals') = ToSet(internals) \cup {r}
    BY <1>1, <1>2, <1>3, <1>6, AppendFacts
  <2>2. Carried' = Carried /\ run'.phase # "idle" /\ run'.kind # "scheduled"
    BY <1>2, <1>6 DEF Carried, Active
  <2>3. ReportsTracked'
    BY <1>2, <1>6, <2>1, <2>2 DEF ReportsTracked
  <2>4. QED BY <1>2, <1>3, <1>4, <1>5, <1>6, <2>1, <2>2, <2>3 DEF ReportInv
<1>7. CASE /\ deferred' = Append(deferred, r)
           /\ attempts' = IF attempts = 0 THEN 1 ELSE attempts
           /\ reporting' = reporting \cup {r} /\ UNCHANGED <<run, internals, unconfirmed>>
  <2>1. ToSet(deferred') = ToSet(deferred) \cup {r} /\ Distinct(deferred')
    BY <1>1, <1>2, <1>3, <1>7, AppendFacts
  <2>2. Carried' = Carried /\ attempts' > 0
    BY <1>1, <1>7, SessionAssumption DEF Carried
  <2>3. ReportsTracked'
    BY <1>2, <1>7, <2>1, <2>2 DEF ReportsTracked
  <2>4. QED BY <1>2, <1>3, <1>5, <1>7, <2>1, <2>2, <2>3 DEF ReportInv
<1>8. CASE /\ ~Busy /\ Launch("internal", <<r>>) /\ unconfirmed' = <<r>>
           /\ reporting' = reporting \cup {r} /\ UNCHANGED <<internals, deferred, attempts>>
  <2>1. internals = <<>> /\ unconfirmed = <<>>
    BY <1>1, <1>2, <1>8, IdleIsEmpty DEF Busy
  <2>2. ToSet(unconfirmed) = {} /\ ToSet(internals') = {}
    BY <1>8, <2>1 DEF ToSet
  <2>3. run'.kind # "scheduled" /\ run'.phase # "idle" /\ run'.carried = <<r>>
    BY <1>8 DEF Launch, Started
  <2>4. Carried' = {r} /\ ToSet(unconfirmed') = {r} /\ Distinct(unconfirmed')
    BY <1>8, <2>3 DEF Carried, ToSet, Distinct
  <2>5. ReportsTracked'
    BY <1>2, <1>8, <2>2, <2>3, <2>4 DEF ReportsTracked
  <2>6. QED BY <1>2, <1>3, <1>5, <1>8, <2>2, <2>3, <2>4, <2>5 DEF ReportInv
<1>9. CASE UNCHANGED <<run, internals, unconfirmed, deferred, attempts, reporting>>
  <2>1. Carried' = Carried
    BY <1>9 DEF Carried
  <2>2. ReportsTracked'
    BY <1>2, <1>9 DEF ReportsTracked
  <2>3. QED BY <1>2, <1>5, <1>9, <2>1, <2>2 DEF ReportInv
<1>10. QED
  BY <1>6, <1>7, <1>8, <1>9 DEF Deliver

\* Retrying: into the run that works, back to the user, or into a run of their own.
LEMMA ReportsAreRetried ==
    ASSUME QueueInv, ReportInv, RetryTick
    PROVE  ReportInv'
<1> USE DEF queueVars, runVars, boxVars, history
<1>1. /\ unconfirmed \in Seq(Reports) /\ deferred \in Seq(Reports) /\ internals \in Seq(Reports)
      /\ attempts \in Nat /\ Places /\ faults \in Nat
  BY SessionAssumption DEF QueueInv, TypeOK
<1>2. /\ reporting = ToSet(deferred) \cup ToSet(unconfirmed)
      /\ Distinct(unconfirmed) /\ Distinct(deferred)
      /\ ToSet(unconfirmed) \cap ToSet(deferred) = {}
      /\ ToSet(internals) \subseteq ToSet(unconfirmed)
      /\ Carried \cap Reports \subseteq ToSet(unconfirmed)
      /\ Carried \cap ToSet(internals) = {}
      /\ run.kind # "scheduled"
      /\ deferred # <<>> => attempts > 0 \/ run.phase # "idle"
      /\ unconfirmed # <<>> => run.phase # "idle"
      /\ \A x \in Reports : IF reported[x] = "reported" THEN times[x] = 1 /\ x \notin reporting
                            ELSE times[x] = 0
  BY DEF ReportInv, ReportsTracked
<1>3. UNCHANGED times
  BY DEF RetryTick
<1>4. CASE /\ deferred = <<>> /\ attempts' = 0
           /\ UNCHANGED <<run, internals, unconfirmed, deferred, reporting, reported>>
  <2>1. Carried' = Carried /\ ReportsTracked'
    BY <1>2, <1>4 DEF Carried, ReportsTracked
  <2>2. QED BY <1>2, <1>3, <1>4, <2>1 DEF ReportInv
<1>5. CASE FlushIntoActive
  <2>1. Active /\ UNCHANGED <<run, reporting, reported>>
    BY <1>5 DEF FlushIntoActive
  <2>2. Carried' = Carried /\ run'.phase # "idle"
    BY <2>1 DEF Carried, Active
  <2>3. CASE UNCHANGED <<internals, unconfirmed, deferred>>
    <3>1. ReportsTracked'
      BY <1>2, <2>1, <2>2, <2>3 DEF ReportsTracked
    <3>2. QED BY <1>2, <1>3, <2>1, <2>2, <2>3, <3>1 DEF ReportInv
  <2>4. CASE /\ internals' = internals \o deferred /\ unconfirmed' = unconfirmed \o deferred
             /\ deferred' = <<>>
    <3>1. /\ ToSet(unconfirmed') = ToSet(unconfirmed) \cup ToSet(deferred)
          /\ Distinct(unconfirmed')
          /\ ToSet(internals') = ToSet(internals) \cup ToSet(deferred)
      BY <1>1, <1>2, <2>4, SetOfConcat
    <3>2. ToSet(deferred') = {} /\ Distinct(deferred')
      BY <2>4 DEF ToSet, Distinct
    <3>3. ReportsTracked'
      BY <1>2, <2>1, <2>2, <2>4, <3>1, <3>2 DEF ReportsTracked
    <3>4. ToSet(deferred) \subseteq Reports
      BY MembersAreTyped DEF QueueInv
    <3>5. Carried' \cap ToSet(internals') = {}
      BY <1>2, <2>2, <3>1, <3>4
    <3>6. QED BY <1>2, <1>3, <2>1, <2>2, <3>1, <3>2, <3>3, <3>5 DEF ReportInv
  <2>5. QED BY <1>5, <2>3, <2>4 DEF FlushIntoActive
<1>6. CASE GiveUp
  <2>1. UNCHANGED <<run, internals, unconfirmed>>
    BY <1>6 DEF GiveUp
  <2>2. Carried' = Carried
    BY <2>1 DEF Carried
  <2>3. CASE /\ reporting' = reporting \ ToSet(deferred)
             /\ reported' = [x \in Reports |->
                    IF x \in ToSet(deferred) THEN "pending" ELSE reported[x]]
             /\ deferred' = <<>>
    <3>1. ToSet(deferred') = {} /\ Distinct(deferred')
      BY <2>3 DEF ToSet, Distinct
    <3>2. ReportsTracked'
      BY <1>2, <2>1, <2>3, <3>1 DEF ReportsTracked
    <3>3. \A x \in Reports :
              IF reported'[x] = "reported" THEN times'[x] = 1 /\ x \notin reporting'
              ELSE times'[x] = 0
      BY <1>2, <1>3, <2>3
    <3>4. QED BY <1>2, <2>1, <2>2, <3>1, <3>2, <3>3 DEF ReportInv
  <2>4. CASE attempts' = attempts + 1 /\ UNCHANGED <<reporting, reported, deferred>>
    <3>1. ReportsTracked'
      BY <1>1, <1>2, <2>1, <2>4 DEF ReportsTracked
    <3>2. QED BY <1>2, <1>3, <2>1, <2>2, <2>4, <3>1 DEF ReportInv
  <2>5. QED BY <1>6, <2>3, <2>4 DEF GiveUp
<1>7. CASE /\ ~Busy
           /\ \E k \in 0 .. Len(deferred) :
                  /\ FlushUpTo(deferred, k, reporting, faults)
                  /\ k = Len(deferred) => UNCHANGED runVars
           /\ UNCHANGED internals
  <2>1. PICK k \in 0 .. Len(deferred) :
            /\ FlushUpTo(deferred, k, reporting, faults)
            /\ k = Len(deferred) => UNCHANGED runVars
    BY <1>7
  <2>2. internals' = <<>> /\ Carried = {} /\ unconfirmed = <<>>
    BY <1>1, <1>2, <1>7, IdleIsEmpty DEF Busy
  <2>3. ToSet(unconfirmed) = {}
    BY <2>2 DEF ToSet
  <2>4. reporting = ToSet(deferred)
    BY <1>2, <2>3
  <2>5. k = Len(deferred) => Carried' \cap Reports = {} /\ run'.kind # "scheduled"
    BY <1>2, <2>1, <2>2 DEF Carried
  <2>6. FlushUpTo(deferred, k, ToSet(deferred), faults)
    BY <2>1, <2>4
  <2>7. QED BY <1>1, <1>2, <1>3, <2>2, <2>4, <2>5, <2>6, ReportsAreFlushed
<1>8. QED
  <2>1. \/ /\ deferred = <<>> /\ attempts' = 0
           /\ UNCHANGED <<run, internals, unconfirmed, deferred, reporting, reported>>
        \/ FlushIntoActive \/ GiveUp
        \/ /\ ~Busy
           /\ \E k \in 0 .. Len(deferred) :
                  /\ FlushUpTo(deferred, k, reporting, faults)
                  /\ k = Len(deferred) => UNCHANGED runVars
           /\ UNCHANGED internals
    BY DEF RetryTick
  <2>2. QED BY <1>4, <1>5, <1>6, <1>7, <2>1

\* Whatever the user does with the queue, the reports stay where they are.
LEMMA ReportsOfUser ==
    ASSUME QueueInv, ReportInv, User
    PROVE  ReportInv'
<1> USE DEF queueVars, runVars, boxVars, reportVars, history
<1>1. /\ TypeOK /\ Places /\ Sound(entry) /\ Sound(disk) /\ faults \in Nat
      /\ run.kind # "scheduled"
  <2>1. TypeOK /\ Places
    BY DEF QueueInv
  <2>2. faults \in Nat
    BY <2>1, SessionAssumption DEF TypeOK
  <2>3. QED BY <2>1, <2>2 DEF Places, ReportInv
<1>2. ASSUME UNCHANGED <<internals, unconfirmed, deferred, attempts, reporting, reported, times>>,
             NEW e, Sound(e), NEW d, NEW f, UNCHANGED run \/ (~Busy /\ Drained(e, d, f))
      PROVE  ReportInv'
  <2>1. CASE UNCHANGED run
    <3>1. Carried' = Carried
      BY <2>1 DEF Carried
    <3>2. QED BY <1>1, <1>2, <2>1, <3>1, ReportsStay
  <2>2. CASE ~Busy /\ Drained(e, d, f)
    <3>1. Carried' \subseteq Messages
      BY <1>2, <2>2, EntryIsTyped DEF Drained, Sound
    <3>2. run' = NoRun \/ \E batch \in Seq(Messages) : run' = Started("queued", batch)
      BY <2>2 DEF Drained
    <3>3. run'.kind # "scheduled"
      BY <3>2 DEF NoRun, Started
    <3>4. run.phase = "idle"
      BY <2>2 DEF Busy
    <3>5. Carried' \cap Reports \subseteq Carried
      BY <3>1, SessionAssumption
    <3>6. QED BY <1>2, <3>3, <3>4, <3>5, ReportsStay
  <2>3. QED BY <1>2, <2>1, <2>2
<1>3. ASSUME NEW e, Sound(e), DrainIfIdle(e)
      PROVE  UNCHANGED run \/ (~Busy /\ Drained(e, e, faults))
  BY <1>1, <1>3, DrainIfIdleFacts
<1>4. ASSUME NEW m \in Messages, Enqueue(m) PROVE ReportInv'
  <2>1. DrainIfIdle(Enqueued(m)) /\ Sound(Enqueued(m))
    BY <1>1, <1>4, EnqueuedFacts DEF Enqueue, Enqueued
  <2>2. UNCHANGED <<internals, unconfirmed, deferred, attempts, reporting, reported, times>>
    BY <1>4 DEF Enqueue
  <2>3. QED BY <1>2, <1>3, <2>1, <2>2
<1>5. ASSUME NEW m \in Messages, Promote(m) PROVE ReportInv'
  <2>1. /\ m \in Queued(entry)
        /\ UNCHANGED run \/ DrainIfIdle(Toggled(m))
        /\ UNCHANGED <<internals, unconfirmed, deferred, attempts, reporting, reported, times>>
    BY <1>5 DEF Promote, Toggled, Queued
  <2>2. Sound(Toggled(m))
    BY <1>1, <2>1, ToggledFacts
  <2>3. QED BY <1>2, <1>3, <2>1, <2>2
<1>6. ASSUME NEW m \in Messages, Edit(m) \/ Withdraw(m) PROVE ReportInv'
  <2>1. /\ UNCHANGED run
        /\ UNCHANGED <<internals, unconfirmed, deferred, attempts, reporting, reported, times>>
    BY <1>6 DEF Edit, Withdraw
  <2>2. QED BY <1>1, <1>2, <2>1
<1>7. CASE Refused \/ TypeDraft \/ SaveDraft
  <2>1. /\ UNCHANGED run
        /\ UNCHANGED <<internals, unconfirmed, deferred, attempts, reporting, reported, times>>
    BY <1>7 DEF Refused, TypeDraft, SaveDraft
  <2>2. QED BY <1>1, <1>2, <2>1
<1>8. CASE Resume
  <2>1. /\ ~Busy /\ Drained(entry, disk, faults)
        /\ UNCHANGED <<internals, unconfirmed, deferred, attempts, reporting, reported, times>>
    BY <1>1, <1>8, DrainFacts DEF Resume
  <2>2. QED BY <1>1, <1>2, <2>1
<1>9. CASE Send
  <2>1. /\ run' = Started("user", <<>>)
        /\ UNCHANGED <<internals, unconfirmed, deferred, attempts, reporting, reported, times>>
    BY <1>9 DEF Send, Launch
  <2>2. run'.kind # "scheduled" /\ run'.phase # "idle" /\ run'.carried = <<>>
    BY <2>1 DEF Started
  <2>3. Carried' = {}
    BY <2>2 DEF Carried, ToSet
  <2>4. QED BY <2>1, <2>2, <2>3, ReportsStay
<1>10. CASE Abort
  <2>1. /\ Active /\ run' = [run EXCEPT !.stop = TRUE]
        /\ UNCHANGED <<internals, unconfirmed, deferred, attempts, reporting, reported, times>>
    BY <1>10 DEF Abort
  <2>2. run'.phase = run.phase /\ run'.kind = run.kind /\ run'.carried = run.carried
    BY <1>1, <2>1 DEF TypeOK
  <2>3. Carried' = Carried
    BY <2>2 DEF Carried
  <2>4. QED BY <1>1, <2>1, <2>2, <2>3, ReportsStay
<1>11. ASSUME NEW r \in Reports, ReportManually(r) PROVE ReportInv'
  BY <1>11, ReportIsDelivered DEF ReportManually
<1>12. QED
  BY <1>4, <1>5, <1>6, <1>7, <1>8, <1>9, <1>10, <1>11 DEF User

\* The driver consumes reports, and what is left of them is delivered again.
LEMMA ReportsOfDriver ==
    ASSUME QueueInv, ReportInv, Driver
    PROVE  ReportInv'
<1> USE DEF queueVars, runVars, boxVars, reportVars, history
<1>1. /\ TypeOK /\ Places /\ BoxedIsPromoted /\ Sound(entry) /\ Sound(disk) /\ faults \in Nat
      /\ unconfirmed \in Seq(Reports) /\ deferred \in Seq(Reports) /\ reporting \subseteq Reports
      /\ run \in RunRecords
      /\ \A r \in Reports : times[r] \in Nat
      /\ DOMAIN times = Messages \cup Reports
  <2>1. TypeOK /\ Places /\ BoxedIsPromoted
    BY DEF QueueInv
  <2>2. /\ faults \in Nat /\ unconfirmed \in Seq(Reports) /\ deferred \in Seq(Reports)
        /\ reporting \subseteq Reports /\ run \in RunRecords
        /\ \A r \in Reports : times[r] \in Nat
        /\ DOMAIN times = Messages \cup Reports
    BY <2>1, SessionAssumption DEF TypeOK, RunRecords
  <2>3. QED BY <2>1, <2>2 DEF Places
<1>2. /\ reporting = ToSet(deferred) \cup ToSet(unconfirmed)
      /\ Distinct(unconfirmed) /\ Distinct(deferred)
      /\ ToSet(unconfirmed) \cap ToSet(deferred) = {}
      /\ ToSet(internals) \subseteq ToSet(unconfirmed)
      /\ Carried \cap Reports \subseteq ToSet(unconfirmed)
      /\ Carried \cap ToSet(internals) = {}
      /\ run.kind # "scheduled"
  BY DEF ReportInv, ReportsTracked
<1>3. CASE Prepared
  <2> DEFINE done == Carried \cap Reports
  <2>1. /\ run' = [run EXCEPT !.phase = "running", !.carried = <<>>]
        /\ times' = [i \in DOMAIN times |-> IF i \in Carried THEN times[i] + 1 ELSE times[i]]
        /\ Verdict(done) /\ unconfirmed' = Kept(unconfirmed, done)
        /\ UNCHANGED <<internals, deferred, attempts>>
    BY <1>3 DEF Prepared, Carried
  <2>2. run'.phase = "running" /\ run'.carried = <<>> /\ run'.kind = run.kind
    BY <1>1, <2>1 DEF RunRecords
  <2>3. Carried' = {}
    BY <2>2 DEF Carried, ToSet
  <2>4. done \subseteq ToSet(unconfirmed) /\ ToSet(internals) \cap done = {}
    BY <1>2
  <2>5. \A r \in Reports : times'[r] = IF r \in done THEN times[r] + 1 ELSE times[r]
    BY <1>1, <2>1
  <2> HIDE DEF done
  <2>6. QED BY <1>2, <2>1, <2>2, <2>3, <2>4, <2>5, ReportsAreConsumed
<1>4. CASE PrepareFails \/ Finish
  <2>1. UNCHANGED <<internals, unconfirmed, deferred, attempts, reporting, reported, times>>
    BY <1>4 DEF PrepareFails, Finish
  <2>2. run'.phase # "idle" /\ run'.kind = run.kind /\ Carried' \subseteq Carried
    <3>1. CASE PrepareFails
      <4>1. run'.carried = <<>> /\ run'.phase # "idle" /\ run'.kind = run.kind
        BY <1>1, <3>1 DEF PrepareFails, RunRecords
      <4>2. QED BY <4>1 DEF Carried, ToSet
    <3>2. CASE Finish
      <4>1. run' \in {[run EXCEPT !.phase = end] : end \in {"aborted", "done", "error"}}
        BY <3>2 DEF Finish
      <4>2. run'.carried = run.carried /\ run'.phase # "idle" /\ run'.kind = run.kind
        BY <1>1, <4>1 DEF RunRecords
      <4>3. QED BY <4>2 DEF Carried
    <3>3. QED BY <1>4, <3>1, <3>2
  <2>3. QED BY <1>2, <2>1, <2>2, ReportsStay
<1>5. ASSUME NEW n \in 0 .. Inputs, Inject(n) PROVE ReportInv'
  <2>1. /\ internals' = <<>> /\ run.phase = "running"
        /\ run' \in {[run EXCEPT !.phase = end] : end \in {"running", "error"}}
        /\ times' = [i \in DOMAIN times |->
               IF i \in SentOf(n) \cup ConfirmedOf(n) THEN times[i] + 1 ELSE times[i]]
        /\ Verdict(ConfirmedOf(n)) /\ unconfirmed' = Kept(unconfirmed, ConfirmedOf(n))
        /\ UNCHANGED <<deferred, attempts>>
    BY <1>2, <1>5 DEF Inject, SentOf, ConfirmedOf
  <2>2. run'.phase # "idle" /\ run'.carried = run.carried /\ run'.kind = run.kind
    BY <1>1, <2>1 DEF RunRecords
  <2>3. run.carried = <<>>
    BY <1>1, <2>1 DEF Places
  <2>4. Carried' = {}
    BY <2>2, <2>3 DEF Carried, ToSet
  <2>5. /\ ConfirmedOf(n) \subseteq ToSet(unconfirmed)
        /\ SentOf(n) \subseteq Messages
    BY <1>1, <1>2, MembersAreTyped
  <2>6. \A r \in Reports : times'[r] = IF r \in ConfirmedOf(n) THEN times[r] + 1 ELSE times[r]
    BY <1>1, <2>1, <2>5, SessionAssumption
  <2>7. QED BY <1>2, <2>1, <2>2, <2>4, <2>5, <2>6, ReportsAreConsumed
<1>6. CASE Settle
  <2> DEFINE list == Reclaimed
             base == IF run.phase = "done" THEN reporting ELSE reporting \ ToSet(unconfirmed)
  <2>1. PICK k \in 0 .. Len(list) :
            /\ FlushUpTo(list, k, base, faults)
            /\ IF k < Len(list) THEN UNCHANGED queueVars
               ELSE IF run.phase = "done" THEN DrainFrom(entry, disk, faults + k)
               ELSE StayIdle /\ faults' = faults + k /\ UNCHANGED queueVars
    BY <1>6 DEF Settle
  <2>2. internals' = <<>> /\ UNCHANGED times
    BY <1>6 DEF Settle
  <2>3. list \in Seq(Reports) /\ Distinct(list) /\ ToSet(list) = base
    <3>1. CASE run.phase = "done"
      BY <1>1, <1>2, <3>1, SetOfConcat DEF Reclaimed
    <3>2. CASE run.phase # "done"
      BY <1>1, <1>2, <3>2 DEF Reclaimed
    <3>3. QED BY <3>1, <3>2
  <2>4. base \subseteq reporting /\ Len(list) \in Nat
    BY <2>3, LenProperties
  <2> HIDE DEF list, base
  <2>5. k = Len(list) => Carried' \cap Reports = {} /\ run'.kind # "scheduled"
    <3>1. SUFFICES ASSUME k = Len(list)
                   PROVE  Carried' \cap Reports = {} /\ run'.kind # "scheduled"
      OBVIOUS
    <3>2. ~(k < Len(list)) /\ faults + k \in Nat
      BY <1>1, <2>4, <3>1
    <3>3. CASE run.phase = "done"
      <4>1. Drained(entry, disk, faults + k)
        BY <1>1, <2>1, <3>2, <3>3, DrainFacts
      <4>2. run' = NoRun \/ \E batch \in Seq(Messages) : run' = Started("queued", batch)
        BY <4>1 DEF Drained
      <4>3. Carried' \subseteq Messages
        BY <1>1, <4>1, EntryIsTyped DEF Drained, Sound
      <4>4. QED BY <4>2, <4>3, SessionAssumption DEF NoRun, Started
    <3>4. CASE run.phase # "done"
      <4>1. run' = NoRun
        BY <2>1, <3>2, <3>4 DEF StayIdle
      <4>2. QED BY <4>1, NothingCarried DEF Carried, NoRun
    <3>5. QED BY <3>3, <3>4
  <2>6. FlushUpTo(list, k, ToSet(list), faults)
    BY <2>1, <2>3
  <2>7. ToSet(list) \subseteq reporting
    BY <2>3, <2>4
  <2>8. \A r \in Reports : times'[r] = times[r]
    BY <2>2
  <2>9. QED BY <1>1, <2>2, <2>3, <2>5, <2>6, <2>7, <2>8, ReportsAreFlushed
<1>7. ~SettleScheduled
  BY <1>2 DEF SettleScheduled
<1>8. QED BY <1>3, <1>4, <1>5, <1>6, <1>7 DEF Driver

LEMMA ReportStep ==
    ASSUME QueueInv, ReportInv, [Next]_vars
    PROVE  ReportInv'
<1> USE DEF queueVars, runVars, boxVars, reportVars, history
<1>1. run.kind # "scheduled"
  BY DEF ReportInv
<1>2. CASE UNCHANGED vars \/ Operation
  <2>1. UNCHANGED <<run, internals, unconfirmed, deferred, attempts, reporting, reported, times>>
    BY <1>2 DEF vars, Operation
  <2>2. Carried' = Carried
    BY <2>1 DEF Carried
  <2>3. QED BY <1>1, <2>1, <2>2, ReportsStay
<1>3. CASE Crash
  <2>1. /\ internals' = <<>> /\ unconfirmed' = <<>> /\ deferred' = <<>> /\ reporting' = {}
        /\ run' = NoRun /\ UNCHANGED <<reported, times>>
    BY <1>3 DEF Crash
  <2>2. ToSet(<<>>) = {} /\ Distinct(<<>>)
    BY DEF ToSet, Distinct
  <2>3. Carried' = {} /\ run'.kind # "scheduled"
    BY <2>1, NothingCarried DEF Carried, NoRun
  <2>4. ReportsTracked'
    BY <2>1, <2>2 DEF ReportsTracked
  <2>5. \A r \in Reports :
            IF reported'[r] = "reported" THEN times'[r] = 1 /\ r \notin reporting'
            ELSE times'[r] = 0
    BY <2>1 DEF ReportInv
  <2>6. QED BY <2>1, <2>2, <2>3, <2>4, <2>5 DEF ReportInv
<1>4. ASSUME NEW r \in Reports, ChildFinished(r) PROVE ReportInv'
  BY <1>4, ReportIsDelivered DEF ChildFinished
<1>5. ASSUME NEW r \in Reports, ChildWaits(r) PROVE ReportInv'
  <2>1. /\ UNCHANGED <<run, internals, unconfirmed, deferred, attempts, reporting, times>>
        /\ reported' = [reported EXCEPT ![r] = "pending"] /\ reported[r] = "none"
        /\ reported \in [Reports -> {"none", "pending", "reported"}]
    BY <1>5 DEF ChildWaits, QueueInv, TypeOK
  <2>2. Carried' = Carried /\ ReportsTracked'
    BY <2>1 DEF Carried, ReportInv, ReportsTracked
  <2>3. \A x \in Reports :
            IF reported'[x] = "reported" THEN times'[x] = 1 /\ x \notin reporting'
            ELSE times'[x] = 0
    <3>1. \A x \in Reports :
              IF reported[x] = "reported" THEN times[x] = 1 /\ x \notin reporting
              ELSE times[x] = 0
      BY DEF ReportInv
    <3>2. QED BY <2>1, <3>1
  <2>4. QED BY <2>1, <2>2, <2>3 DEF ReportInv
<1>6. QED
  BY <1>2, <1>3, <1>4, <1>5, ReportsAreRetried, ReportsOfUser, ReportsOfDriver DEF Next

LEMMA ReportInit ==
    ASSUME Init, ~ScheduledSession
    PROVE  ReportInv
<1>1. /\ internals = <<>> /\ unconfirmed = <<>> /\ deferred = <<>> /\ reporting = {}
      /\ run = NoRun /\ reported = [r \in Reports |-> "none"]
      /\ times = [i \in Messages \cup Reports |-> 0]
  BY DEF Init
<1>2. ToSet(<<>>) = {} /\ Distinct(<<>>)
  BY DEF ToSet, Distinct
<1>3. Carried = {} /\ run.kind # "scheduled"
  BY <1>1, NothingCarried DEF Carried, NoRun
<1>4. ReportsTracked
  BY <1>1, <1>2 DEF ReportsTracked
<1>5. \A r \in Reports :
          IF reported[r] = "reported" THEN times[r] = 1 /\ r \notin reporting
          ELSE times[r] = 0
  BY <1>1
<1>6. QED BY <1>1, <1>2, <1>3, <1>4, <1>5 DEF ReportInv

\* In a session of the user, a report under way is in a run that has yet to consume
\* or give it back, or waits for the retry timer.
THEOREM ReportsHaveAnOwner ==
    ASSUME ~ScheduledSession
    PROVE  Spec => []ReportsTracked
<1>1. Init => QueueInv /\ ReportInv
  BY QueueInit, ReportInit
<1>2. QueueInv /\ ReportInv /\ [Next]_vars => (QueueInv /\ ReportInv)'
  BY QueueStep, ReportStep
<1>3. ReportInv => ReportsTracked
  BY DEF ReportInv
<1>4. QED BY <1>1, <1>2, <1>3, PTL DEF Spec

\* There the main agent gets a report at most once, and a receipt that says so is
\* right.
THEOREM ReportsAreConsumedOnce ==
    ASSUME ~ScheduledSession
    PROVE  Spec => []ReportedOnce
<1>1. Init => QueueInv /\ ReportInv
  BY QueueInit, ReportInit
<1>2. QueueInv /\ ReportInv /\ [Next]_vars => (QueueInv /\ ReportInv)'
  BY QueueStep, ReportStep
<1>3. QueueInv /\ ReportInv => ReportedOnce
  BY DEF ReportInv, ReportedOnce
<1>4. QED BY <1>1, <1>2, <1>3, PTL DEF Spec

-----------------------------------------------------------------------------
(* The queue moves on                                                       *)

\* A session that is free has sent its queue, unless it was told to wait or
\* something failed.
MovesInv ==
    /\ operation = FALSE /\ run.kind # "scheduled"
    /\ run.phase = "idle" /\ ~halted /\ faults = 0 => entry.queued = <<>>

LEMMA QueueIsSent ==
    ASSUME NEW e, NEW d, NEW f \in Nat, Drained(e, d, f), UNCHANGED operation, MovesInv
    PROVE  MovesInv'
<1>1. \/ run' = NoRun /\ (faults' = f => entry'.queued = <<>>)
      \/ \E batch \in Seq(Messages) : run' = Started("queued", batch)
  BY DEF Drained
<1>2. faults' = 0 => faults' = f
  BY DEF Drained
<1>3. CASE run' = NoRun /\ (faults' = f => entry'.queued = <<>>)
  <2>1. run'.kind # "scheduled"
    BY <1>3 DEF NoRun
  <2>2. QED BY <1>2, <1>3, <2>1 DEF MovesInv
<1>4. CASE \E batch \in Seq(Messages) : run' = Started("queued", batch)
  <2>1. run'.kind # "scheduled" /\ run'.phase = "preparing"
    BY <1>4 DEF Started
  <2>2. QED BY <2>1 DEF MovesInv
<1>5. QED BY <1>1, <1>3, <1>4

LEMMA MovesStep ==
    ASSUME QueueInv, MovesInv, ~HistoryOps, [Next]_vars
    PROVE  MovesInv'
<1> USE DEF queueVars, runVars, boxVars, reportVars, history
<1>1. /\ TypeOK /\ Places /\ Sound(entry) /\ Sound(disk) /\ faults \in Nat
      /\ run.kind # "scheduled" /\ operation = FALSE /\ run \in RunRecords
      /\ run.phase = "idle" /\ ~halted /\ faults = 0 => entry.queued = <<>>
  <2>1. TypeOK /\ Places
    BY DEF QueueInv
  <2>2. faults \in Nat /\ run \in RunRecords
    BY <2>1, SessionAssumption DEF TypeOK, RunRecords
  <2>3. QED BY <2>1, <2>2 DEF Places, MovesInv
<1>2. Busy <=> run.phase # "idle"
  BY <1>1 DEF Busy
<1>3. ASSUME run'.kind # "scheduled", run'.phase # "idle", UNCHANGED operation
      PROVE  MovesInv'
  BY <1>1, <1>3 DEF MovesInv
<1>4. ASSUME UNCHANGED <<entry, operation>>, UNCHANGED run \/ run'.phase # "idle",
             run'.kind # "scheduled",
             (halted /\ run.phase = "idle" => halted'), faults' \in Nat, faults' >= faults
      PROVE  MovesInv'
  <2>1. faults' = 0 => faults = 0
    BY <1>1, <1>4
  <2>2. QED BY <1>1, <1>4, <2>1 DEF MovesInv
<1>5. ASSUME UNCHANGED <<entry, operation, run, halted, faults>> PROVE MovesInv'
  BY <1>1, <1>4, <1>5
<1>6. ASSUME NEW e, Sound(e), DrainIfIdle(e), UNCHANGED operation PROVE MovesInv'
  <2>1. CASE Busy
    <3>1. UNCHANGED run
      BY <1>1, <1>6, <2>1, DrainIfIdleFacts
    <3>2. QED BY <1>1, <1>2, <1>3, <1>6, <2>1, <3>1
  <2>2. CASE ~Busy
    <3>1. Drained(e, e, faults)
      BY <1>1, <1>6, <2>2, DrainIfIdleFacts
    <3>2. QED BY <1>1, <1>6, <3>1, QueueIsSent
  <2>3. QED BY <2>1, <2>2
<1>7. ASSUME NEW e, Sound(e), SyncFrom(e, e, faults), UNCHANGED <<run, operation, halted>>,
             entry.queued # <<>>
      PROVE  MovesInv'
  <2>1. Synced(e, faults)
    BY <1>1, <1>7, SyncFacts
  <2>2. faults' = 0 => faults = 0
    BY <1>1, <2>1 DEF Synced
  <2>3. QED BY <1>1, <1>7, <2>2 DEF MovesInv
<1>8. \A m \in Queued(entry) : entry.queued # <<>>
  BY DEF Queued, ToSet
<1>9. ASSUME NEW m \in Messages, Enqueue(m) PROVE MovesInv'
  <2>1. DrainIfIdle(Enqueued(m)) /\ Sound(Enqueued(m)) /\ UNCHANGED operation
    BY <1>1, <1>9, EnqueuedFacts DEF Enqueue, Enqueued
  <2>2. QED BY <1>6, <2>1
<1>10. ASSUME NEW m \in Messages, Promote(m) PROVE MovesInv'
  <2>1. /\ m \in Queued(entry) /\ UNCHANGED operation
        /\ IF Active THEN UNCHANGED run ELSE DrainIfIdle(Toggled(m))
    BY <1>10 DEF Promote, Toggled, Queued
  <2>2. Sound(Toggled(m))
    BY <1>1, <2>1, ToggledFacts
  <2>3. CASE Active
    BY <1>1, <1>3, <2>1, <2>3 DEF Active
  <2>4. CASE ~Active
    BY <1>6, <2>1, <2>2, <2>4
  <2>5. QED BY <2>3, <2>4
<1>11. ASSUME NEW m \in Messages, Edit(m) PROVE MovesInv'
  <2>1. /\ SyncFrom(Edited(m), Edited(m), faults) /\ Sound(Edited(m))
        /\ UNCHANGED <<run, operation, halted>> /\ m \in Queued(entry)
    BY <1>1, <1>11, EditedFacts DEF Edit, Edited, Queued
  <2>2. QED BY <1>7, <1>8, <2>1
<1>12. ASSUME NEW m \in Messages, Withdraw(m) PROVE MovesInv'
  <2>1. /\ SyncFrom(Without(entry, {m}), Without(entry, {m}), faults)
        /\ Sound(Without(entry, {m}))
        /\ UNCHANGED <<run, operation, halted>> /\ m \in Queued(entry)
    BY <1>1, <1>12, WithoutFacts DEF Withdraw, Queued
  <2>2. QED BY <1>7, <1>8, <2>1
<1>13. CASE Refused
  <2>1. UNCHANGED <<entry, operation, run, halted>> /\ faults' = faults + 1
    BY <1>13 DEF Refused
  <2>2. QED BY <1>1, <1>4, <2>1
<1>14. CASE Resume
  <2>1. Drained(entry, disk, faults) /\ UNCHANGED operation
    BY <1>1, <1>14, DrainFacts DEF Resume
  <2>2. QED BY <1>1, <2>1, QueueIsSent
<1>15. CASE Send
  <2>1. run' = Started("user", <<>>) /\ UNCHANGED operation
    BY <1>15 DEF Send, Launch
  <2>2. run'.kind # "scheduled" /\ run'.phase # "idle"
    BY <2>1 DEF Started
  <2>3. QED BY <1>3, <2>1, <2>2
<1>16. CASE TypeDraft \/ SaveDraft \/ UNCHANGED vars
  BY <1>5, <1>16 DEF TypeDraft, SaveDraft, vars
<1>17. CASE Abort \/ Prepared \/ PrepareFails \/ Finish \/ \E n \in 0 .. Inputs : Inject(n)
  <2>1. UNCHANGED operation
    BY <1>17 DEF Abort, Prepared, PrepareFails, Finish, Inject
  <2>2. run'.kind = run.kind /\ run'.phase # "idle"
    <3>1. CASE Abort
      BY <1>1, <3>1 DEF Abort, Active, RunRecords
    <3>2. CASE Prepared
      BY <1>1, <3>2 DEF Prepared, RunRecords
    <3>3. CASE PrepareFails
      BY <1>1, <3>3 DEF PrepareFails, RunRecords
    <3>4. CASE Finish
      BY <1>1, <3>4 DEF Finish, RunRecords
    <3>5. CASE \E n \in 0 .. Inputs : Inject(n)
      BY <1>1, <3>5 DEF Inject, RunRecords
    <3>6. QED BY <1>17, <3>1, <3>2, <3>3, <3>4, <3>5
  <2>3. QED BY <1>1, <1>3, <2>1, <2>2
<1>18. ~SettleScheduled /\ ~Operation
  BY <1>1 DEF SettleScheduled, Operation
<1>19. ASSUME NEW r \in Reports, Deliver(r), halted' = halted \/ halted' = FALSE
       PROVE  MovesInv'
  <2>1. /\ UNCHANGED <<entry, operation>>
        /\ \/ UNCHANGED run /\ Busy
           \/ run' = Started("internal", <<r>>)
           \/ faults' = faults + 1 /\ UNCHANGED run
    BY <1>2, <1>19 DEF Deliver, Launch, Active
  <2>2. CASE UNCHANGED run /\ Busy
    BY <1>1, <1>2, <1>3, <2>1, <2>2
  <2>3. CASE run' = Started("internal", <<r>>)
    <3>1. run'.kind # "scheduled" /\ run'.phase # "idle"
      BY <2>3 DEF Started
    <3>2. QED BY <1>3, <2>1, <3>1
  <2>4. CASE faults' = faults + 1 /\ UNCHANGED run
    <3>1. faults' # 0
      BY <1>1, <2>4
    <3>2. QED BY <1>1, <2>1, <2>4, <3>1 DEF MovesInv
  <2>5. QED BY <2>1, <2>2, <2>3, <2>4
<1>20. ASSUME NEW r \in Reports, ReportManually(r) \/ ChildFinished(r) PROVE MovesInv'
  <2>1. Deliver(r) /\ (halted' = halted \/ halted' = FALSE)
    BY <1>20 DEF ReportManually, ChildFinished
  <2>2. QED BY <1>19, <2>1
<1>21. ASSUME NEW r \in Reports, ChildWaits(r) PROVE MovesInv'
  BY <1>5, <1>21 DEF ChildWaits
<1>22. CASE Crash
  <2>1. halted' = TRUE /\ run' = NoRun /\ operation' = FALSE
    BY <1>22 DEF Crash
  <2>2. run'.kind # "scheduled"
    BY <2>1 DEF NoRun
  <2>3. QED BY <2>1, <2>2 DEF MovesInv
<1>23. ASSUME NEW list \in Seq(Reports), NEW base \in SUBSET Reports, NEW k \in 0 .. Len(list),
              FlushUpTo(list, k, base, faults), UNCHANGED <<entry, operation>>,
              halted => halted',
              k = Len(list) => faults' = faults + k /\ (UNCHANGED run \/ (run' = NoRun /\ halted'))
       PROVE  MovesInv'
  <2>1. Len(list) \in Nat
    BY LenProperties
  <2>2. k \in Nat /\ (k < Len(list) \/ k = Len(list))
    <3>1. \A n \in Nat : \A i \in 0 .. n : i \in Nat /\ (i < n \/ i = n)
      OBVIOUS
    <3>2. QED BY <2>1, <3>1, Zenon
  <2>3. CASE k < Len(list)
    <3>1. PICK r \in Reports : run' = Started("internal", <<r>>)
      BY <1>1, <1>23, <2>3, FlushFacts
    <3>2. run'.kind # "scheduled" /\ run'.phase # "idle"
      BY <3>1 DEF Started
    <3>3. QED BY <1>3, <1>23, <3>2
  <2>4. CASE k = Len(list) /\ UNCHANGED run
    <3>1. faults' \in Nat /\ faults' >= faults
      BY <1>1, <1>23, <2>2, <2>4
    <3>2. halted /\ run.phase = "idle" => halted'
      BY <1>23
    <3>3. QED BY <1>1, <1>4, <1>23, <2>4, <3>1, <3>2
  <2>5. CASE run' = NoRun /\ halted'
    BY <1>1, <1>23, <2>5 DEF MovesInv, NoRun
  <2>6. QED BY <1>23, <2>2, <2>3, <2>4, <2>5
<1>24. CASE RetryTick
  <2>1. /\ UNCHANGED <<entry, operation, halted>>
        /\ \/ UNCHANGED <<run, faults>>
           \/ \E k \in 0 .. Len(deferred) :
                  /\ FlushUpTo(deferred, k, reporting, faults)
                  /\ k = Len(deferred) => faults' = faults + k /\ UNCHANGED runVars
    BY <1>24 DEF RetryTick, FlushIntoActive, GiveUp
  <2>2. CASE UNCHANGED <<run, faults>>
    BY <1>5, <2>1, <2>2
  <2>3. CASE \E k \in 0 .. Len(deferred) :
                 /\ FlushUpTo(deferred, k, reporting, faults)
                 /\ k = Len(deferred) => faults' = faults + k /\ UNCHANGED runVars
    <3>1. PICK k \in 0 .. Len(deferred) :
              /\ FlushUpTo(deferred, k, reporting, faults)
              /\ k = Len(deferred) => faults' = faults + k /\ UNCHANGED runVars
      BY <2>3
    <3>2. deferred \in Seq(Reports) /\ reporting \in SUBSET Reports
      BY <1>1 DEF TypeOK
    <3>3. QED BY <1>23, <2>1, <3>1, <3>2
  <2>4. QED BY <2>1, <2>2, <2>3
<1>25. CASE Settle
  <2> DEFINE list == Reclaimed
             base == IF run.phase = "done" THEN reporting ELSE reporting \ ToSet(unconfirmed)
  <2>1. PICK k \in 0 .. Len(list) :
            /\ FlushUpTo(list, k, base, faults)
            /\ IF k < Len(list) THEN UNCHANGED queueVars
               ELSE IF run.phase = "done" THEN DrainFrom(entry, disk, faults + k)
               ELSE StayIdle /\ faults' = faults + k /\ UNCHANGED queueVars
    BY <1>25 DEF Settle
  <2>2. UNCHANGED operation /\ halted' = (halted \/ run.phase # "done")
    BY <1>25 DEF Settle
  <2>3. list \in Seq(Reports) /\ base \in SUBSET Reports
    <3>1. /\ unconfirmed \in Seq(Reports) /\ deferred \in Seq(Reports)
          /\ reporting \subseteq Reports
      BY <1>1 DEF TypeOK
    <3>2. QED BY <3>1, ConcatProperties DEF Reclaimed
  <2>4. Len(list) \in Nat
    BY <2>3, LenProperties
  <2> HIDE DEF list, base
  <2>5. k \in Nat /\ (k = Len(list) <=> ~(k < Len(list)))
    <3>1. \A n \in Nat : \A i \in 0 .. n : i \in Nat /\ (i = n <=> ~(i < n))
      OBVIOUS
    <3>2. QED BY <2>4, <3>1, Zenon
  <2>6. CASE k = Len(list) /\ run.phase = "done"
    <3>1. faults + k \in Nat
      BY <1>1, <2>5
    <3>2. Drained(entry, disk, faults + k)
      BY <1>1, <2>1, <2>5, <2>6, <3>1, DrainFacts
    <3>3. QED BY <2>2, <3>1, <3>2, QueueIsSent
  <2>7. CASE ~(k = Len(list) /\ run.phase = "done")
    <3>1. halted => halted'
      BY <2>2
    <3>2. UNCHANGED entry
      BY <2>1, <2>5, <2>7
    <3>3. k = Len(list) => faults' = faults + k /\ run' = NoRun /\ halted'
      BY <2>1, <2>2, <2>5, <2>7 DEF StayIdle
    <3>4. QED BY <1>23, <2>1, <2>2, <2>3, <3>1, <3>2, <3>3
  <2>8. QED BY <2>6, <2>7
<1>26. QED
  <2>1. User => MovesInv'
    BY <1>9, <1>10, <1>11, <1>12, <1>13, <1>14, <1>15, <1>16, <1>17, <1>20 DEF User
  <2>2. Driver => MovesInv'
    BY <1>17, <1>18, <1>25 DEF Driver
  <2>3. QED BY <1>16, <1>18, <1>20, <1>21, <1>22, <1>24, <2>1, <2>2 DEF Next

\* Without the scheduler and without a compaction that holds the session, the queue
\* of a free session is empty as long as nothing failed and nobody stopped it.
THEOREM FreeSessionHasSent ==
    ASSUME ~ScheduledSession, ~HistoryOps
    PROVE  Spec => []QueueMovesOn
<1>1. Init => QueueInv /\ MovesInv
  <2>1. Init => operation = FALSE /\ run = NoRun /\ entry = Empty
    BY DEF Init
  <2>2. NoRun.kind # "scheduled" /\ Empty.queued = <<>>
    BY DEF NoRun, Empty
  <2>3. QED BY <2>1, <2>2, QueueInit DEF MovesInv
<1>2. QueueInv /\ MovesInv /\ [Next]_vars => (QueueInv /\ MovesInv)'
  BY QueueStep, MovesStep
<1>3. MovesInv => QueueMovesOn
  BY DEF MovesInv, QueueMovesOn, Busy
<1>4. QED BY <1>1, <1>2, <1>3, PTL DEF Spec
=============================================================================
