------------------------- MODULE HostStartup_proofs -------------------------
(***************************************************************************)
(* What a build accepts is complete, for every document and every order of *)
(* builder calls, and the bindings agree with the builder on every         *)
(* document and every set of callbacks. The argument counts: attachments   *)
(* and pending definitions of one id are matched in order, so a build      *)
(* without a fault matches them one to one, and ids that differ make the   *)
(* registrations as many as the definitions.                               *)
(*                                                                         *)
(* A host that is up has what each stage of its startup found, and a tool's *)
(* schema admits what validation admits, param by param.                   *)
(***************************************************************************)
EXTENDS HostStartup, FiniteSetTheorems, FunctionTheorems, WellFoundedInduction, TLAPS

IsSeq(s) == Len(s) \in Nat /\ s = [k \in 1 .. Len(s) |-> s[k]]

(* A builder as its methods leave it.                                       *)
Wired(b) ==
  /\ b = [blocks |-> b.blocks, pending |-> b.pending,
          attachments |-> b.attachments, actions |-> b.actions, context_params |-> b.context_params]
  /\ IsSeq(b.blocks) /\ IsSeq(b.pending) /\ IsSeq(b.attachments) /\ IsSeq(b.actions)
  /\ \A k \in DOMAIN b.pending : b.pending[k].mutates \in BOOLEAN
  /\ \A a \in DOMAIN b.attachments : b.attachments[a].dry_run \in BOOLEAN
  /\ \A i \in DOMAIN b.actions :
       /\ b.actions[i].def.mutates \in BOOLEAN /\ b.actions[i].dry_run \in BOOLEAN
       /\ b.actions[i].async = FALSE

-----------------------------------------------------------------------------
(* Sequences.                                                               *)

(* A sequence over its own elements is what its positions say.              *)
LEMMA SeqIs ==
  ASSUME NEW s, s \in Seq({s[k] : k \in DOMAIN s})
  PROVE  IsSeq(s) /\ DOMAIN s = 1 .. Len(s)
<1> DEFINE S == {s[k] : k \in DOMAIN s}
<1>1. s \in Seq(S)
  OBVIOUS
<1> HIDE DEF S
<1>2. Len(s) \in Nat /\ DOMAIN s = 1 .. Len(s) /\ s = [k \in 1 .. Len(s) |-> s[k]]
  BY <1>1
<1> QED
  BY <1>2 DEF IsSeq

(* A function on the first numbers is a sequence.                           *)
LEMMA FunctionIsSeq ==
  ASSUME NEW n \in Nat, NEW s, s = [k \in 1 .. n |-> s[k]]
  PROVE  IsSeq(s) /\ Len(s) = n /\ DOMAIN s = 1 .. n
<1> DEFINE S == {s[k] : k \in 1 .. n}
<1>1. s \in [1 .. n -> S]
  OBVIOUS
<1> HIDE DEF S
<1>2. s \in Seq(S)
  BY <1>1
<1>3. Len(s) = n /\ DOMAIN s = 1 .. n
  BY <1>1, <1>2
<1> QED
  BY <1>3 DEF IsSeq

(* The elements of two sequences in a row.                                  *)
LEMMA ConcatIs ==
  ASSUME NEW s, NEW t, IsSeq(s), IsSeq(t)
  PROVE  /\ IsSeq(s \o t) /\ Len(s \o t) = Len(s) + Len(t)
         /\ DOMAIN (s \o t) = 1 .. Len(s) + Len(t)
         /\ \A i \in 1 .. Len(s) : (s \o t)[i] = s[i]
         /\ \A i \in 1 .. Len(t) : (s \o t)[Len(s) + i] = t[i]
<1> DEFINE S == {s[k] : k \in 1 .. Len(s)} \cup {t[k] : k \in 1 .. Len(t)}
<1>1. s \in Seq(S) /\ t \in Seq(S)
  <2>1. s \in [1 .. Len(s) -> S] /\ t \in [1 .. Len(t) -> S] /\ Len(s) \in Nat /\ Len(t) \in Nat
    BY DEF IsSeq
  <2> HIDE DEF S
  <2> QED
    BY <2>1
<1> HIDE DEF S
<1>2. /\ s \o t \in Seq(S) /\ Len(s \o t) = Len(s) + Len(t)
      /\ \A i \in 1 .. Len(s) : (s \o t)[i] = s[i]
      /\ \A i \in 1 .. Len(t) : (s \o t)[Len(s) + i] = t[i]
  BY <1>1
<1>3. IsSeq(s \o t) /\ DOMAIN (s \o t) = 1 .. Len(s \o t)
  <2> DEFINE u == s \o t
  <2>1. u \in Seq(S)
    BY <1>2
  <2> HIDE DEF u
  <2>2. Len(u) \in Nat /\ u = [k \in 1 .. Len(u) |-> u[k]] /\ DOMAIN u = 1 .. Len(u)
    BY <2>1
  <2>3. IsSeq(u)
    BY <2>2 DEF IsSeq
  <2> QED
    BY <2>2, <2>3 DEF u
<1> QED
  BY <1>2, <1>3

(* One element more.                                                        *)
LEMMA AppendIs ==
  ASSUME NEW s, IsSeq(s), NEW e
  PROVE  /\ IsSeq(Append(s, e)) /\ DOMAIN Append(s, e) = 1 .. Len(s) + 1
         /\ \A i \in 1 .. Len(s) : Append(s, e)[i] = s[i]
         /\ Append(s, e)[Len(s) + 1] = e
<1> DEFINE S == {s[k] : k \in 1 .. Len(s)} \cup {e}
<1>1. s \in Seq(S) /\ e \in S
  <2>1. s \in [1 .. Len(s) -> S] /\ Len(s) \in Nat
    BY DEF IsSeq
  <2> QED
    BY <2>1
<1> HIDE DEF S
<1> DEFINE u == Append(s, e)
<1>2. /\ u \in Seq(S) /\ Len(u) = Len(s) + 1
      /\ \A i \in 1 .. Len(s) : u[i] = s[i]
      /\ u[Len(s) + 1] = e
  BY <1>1
<1> HIDE DEF u
<1>3. Len(u) \in Nat /\ u = [k \in 1 .. Len(u) |-> u[k]] /\ DOMAIN u = 1 .. Len(u)
  BY <1>2
<1>4. IsSeq(u) /\ DOMAIN u = 1 .. Len(s) + 1
  BY <1>2, <1>3 DEF IsSeq
<1> QED
  BY <1>2, <1>4 DEF u

-----------------------------------------------------------------------------

(* A set of numbers has a least one: of the initial intervals they end, one *)
(* contains no other.                                                       *)
LEMMA Least ==
  ASSUME NEW S, S \subseteq Nat, S # {}
  PROVE  \E i \in S : \A j \in S : i <= j
<1> DEFINE Upto(i) == 1 .. i
           T == {Upto(i) : i \in S}
           R == StrictSubsetOrdering(Nat)
<1>1. T # {} /\ T \subseteq FiniteSubsetsOf(Nat)
  <2>1. \A i \in S : IsFiniteSet(1 .. i)
    BY FS_Interval
  <2>2. \A i \in S : 1 .. i \in SUBSET Nat
    OBVIOUS
  <2> QED
    BY <2>1, <2>2 DEF FiniteSubsetsOf
<1>2. PICK u \in T : \A v \in T : ~(<<v, u>> \in R)
  <2> HIDE DEF T, R
  <2>1. IsWellFoundedOn(R, FiniteSubsetsOf(Nat))
    BY FS_StrictSubsetOrderingWellFounded DEF R
  <2> QED
    BY <1>1, <2>1, WFMin
<1>3. PICK i \in S : u = 1 .. i
  BY <1>2
<1>4. ASSUME NEW j \in S, ~(i <= j)
      PROVE  FALSE
  <2>1. 1 .. j \subseteq 1 .. i /\ i \in 1 .. i /\ i \notin 1 .. j
    BY <1>4
  <2>2. 1 .. j \in SUBSET Nat /\ 1 .. i \in SUBSET Nat
    OBVIOUS
  <2>3. <<1 .. j, 1 .. i>> \in R
    BY <2>1, <2>2 DEF StrictSubsetOrdering
  <2> QED
    BY <1>2, <1>3, <2>3
<1> QED
  BY <1>4

(* A loop that found no fault met none.                                     *)
LEMMA FirstFaultOk ==
  ASSUME NEW f, DOMAIN f \subseteq Nat
  PROVE  FirstFault(f) = "ok" <=> \A i \in DOMAIN f : f[i] = "ok"
<1> DEFINE Bad == {i \in DOMAIN f : f[i] # "ok"}
           Found(i) == f[i] # "ok" /\ \A j \in DOMAIN f : f[j] # "ok" => i <= j
<1>1. CASE Bad = {}
  BY <1>1 DEF FirstFault
<1>2. CASE Bad # {}
  <2>1. PICK i \in Bad : \A j \in Bad : i <= j
    <3>1. Bad \subseteq Nat
      OBVIOUS
    <3> HIDE DEF Bad
    <3> QED
      BY <1>2, <3>1, Least
  <2>3. i \in DOMAIN f /\ Found(i)
    BY <2>1
  <2>4. FirstFault(f) = f[CHOOSE k \in DOMAIN f : Found(k)]
    BY <1>2 DEF FirstFault
  <2>5. Found(CHOOSE k \in DOMAIN f : Found(k))
    BY <2>3
  <2> QED
    BY <1>2, <2>4, <2>5
<1> QED
  BY <1>1, <1>2

-----------------------------------------------------------------------------
(* Matching attachments with definitions.                                   *)

(* Later occurrences of an id have more before them.                        *)
LEMMA BeforeGrows ==
  ASSUME NEW s, NEW i \in Nat, NEW j \in Nat, 1 <= i, i < j, s[i].id = s[j].id
  PROVE  Before(s, i) # Before(s, j)
<1> DEFINE S(n) == {m \in 1 .. (n - 1) : s[m].id = s[n].id}
<1>1. S(i) \in SUBSET S(j) /\ i \in S(j) /\ i \notin S(i)
  OBVIOUS
<1>2. IsFiniteSet(S(j))
  <2>1. IsFiniteSet(1 .. (j - 1))
    BY FS_Interval
  <2>2. S(j) \in SUBSET (1 .. (j - 1))
    OBVIOUS
  <2> HIDE DEF S
  <2> QED
    BY <2>1, <2>2, FS_Subset
<1>3. Cardinality(S(j)) # Cardinality(S(i))
  <2> HIDE DEF S
  <2> QED
    BY <1>1, <1>2, FS_Subset
<1> QED
  BY <1>3 DEF Before

(* An attachment takes one definition at most, and no other takes that.     *)
LEMMA TakesOnce ==
  ASSUME NEW b, Wired(b)
  PROVE  /\ \A a \in DOMAIN b.attachments : \A k, l \in DOMAIN b.pending :
              Takes(b, a, k) /\ Takes(b, a, l) => k = l
         /\ \A k \in DOMAIN b.pending : \A a, c \in DOMAIN b.attachments :
              Takes(b, a, k) /\ Takes(b, c, k) => a = c
<1>0. /\ Len(b.pending) \in Nat /\ DOMAIN b.pending = 1 .. Len(b.pending)
      /\ Len(b.attachments) \in Nat /\ DOMAIN b.attachments = 1 .. Len(b.attachments)
  BY FunctionIsSeq DEF Wired, IsSeq
<1>1. ASSUME NEW s, NEW n \in Nat, NEW i \in 1 .. n, NEW j \in 1 .. n,
             s[i].id = s[j].id, Before(s, i) = Before(s, j)
      PROVE  i = j
  <2>1. CASE i < j
    BY <1>1, <2>1, BeforeGrows
  <2>2. CASE j < i
    BY <1>1, <2>2, BeforeGrows
  <2> QED
    BY <2>1, <2>2
<1>2. ASSUME NEW a \in DOMAIN b.attachments, NEW k \in DOMAIN b.pending, NEW l \in DOMAIN b.pending,
             Takes(b, a, k), Takes(b, a, l)
      PROVE  k = l
  <2>1. b.pending[k].id = b.pending[l].id /\ Before(b.pending, k) = Before(b.pending, l)
    BY <1>2 DEF Takes
  <2> QED
    BY <1>0, <1>1, <2>1
<1>3. ASSUME NEW k \in DOMAIN b.pending, NEW a \in DOMAIN b.attachments, NEW c \in DOMAIN b.attachments,
             Takes(b, a, k), Takes(b, c, k)
      PROVE  a = c
  <2>1. b.attachments[a].id = b.attachments[c].id /\ Before(b.attachments, a) = Before(b.attachments, c)
    BY <1>3 DEF Takes
  <2> QED
    BY <1>0, <1>1, <2>1
<1> QED
  BY <1>2, <1>3

Taken(b, a) == CHOOSE k \in DOMAIN b.pending : Takes(b, a, k)

(* If every attachment takes a definition and every definition is taken,    *)
(* there are as many of the one as of the other.                            *)
LEMMA OneToOne ==
  ASSUME NEW b, Wired(b), \A a \in DOMAIN b.attachments : \E k \in DOMAIN b.pending : Takes(b, a, k),
         Unattached(b) = {}
  PROVE  /\ Len(b.attachments) = Len(b.pending)
         /\ \A a \in DOMAIN b.attachments : Taken(b, a) \in DOMAIN b.pending /\ Takes(b, a, Taken(b, a))
         /\ \A k \in DOMAIN b.pending : \E a \in DOMAIN b.attachments : k = Taken(b, a)
<1> DEFINE A == DOMAIN b.attachments
           K == DOMAIN b.pending
           f == [a \in A |-> Taken(b, a)]
<1>0. Len(b.pending) \in Nat /\ K = 1 .. Len(b.pending) /\ Len(b.attachments) \in Nat /\ A = 1 .. Len(b.attachments)
  BY FunctionIsSeq DEF Wired, IsSeq
<1>1. \A a \in A : Taken(b, a) \in K /\ Takes(b, a, Taken(b, a))
  BY DEF Taken
<1>2. \A k \in K : \E a \in A : k = Taken(b, a)
  BY <1>1, TakesOnce DEF Unattached
<1>3. f \in Bijection(A, K)
  <2>1. f \in [A -> K]
    BY <1>1
  <2>2. \A a, c \in A : f[a] = f[c] => a = c
    BY <1>1, TakesOnce
  <2>3. \A k \in K : \E a \in A : f[a] = k
    BY <1>2
  <2> HIDE DEF f, A, K
  <2> QED
    BY <2>1, <2>2, <2>3, Fun_IsBij
<1>4. Cardinality(A) = Len(b.attachments) /\ Cardinality(K) = Len(b.pending) /\ IsFiniteSet(A)
  <2>1. ASSUME NEW n \in Nat
        PROVE  Cardinality(1 .. n) = n /\ IsFiniteSet(1 .. n)
    BY FS_Interval
  <2> DEFINE p == Len(b.attachments)
             q == Len(b.pending)
  <2>2. p \in Nat /\ q \in Nat /\ A = 1 .. p /\ K = 1 .. q
    BY <1>0
  <2> HIDE DEF A, K, p, q
  <2>3. Cardinality(A) = p /\ IsFiniteSet(A)
    BY <2>1, <2>2
  <2>4. Cardinality(K) = q
    BY <2>1, <2>2
  <2> QED
    BY <2>3, <2>4 DEF p, q
<1>5. Cardinality(K) = Cardinality(A)
  <2>1. ExistsBijection(A, K)
    BY <1>3 DEF ExistsBijection
  <2> HIDE DEF A, K
  <2> QED
    BY <1>4, <2>1, FS_Bijection
<1> QED
  BY <1>1, <1>2, <1>4, <1>5

-----------------------------------------------------------------------------
(* What a build without a fault says of its builder.                        *)

(* The registrations: those of the program, then the attached ones.         *)
LEMMA RegistrationsAre ==
  ASSUME NEW b, Wired(b)
  PROVE  /\ Len(b.actions) \in Nat /\ Len(b.attachments) \in Nat
         /\ DOMAIN b.actions = 1 .. Len(b.actions)
         /\ DOMAIN b.attachments = 1 .. Len(b.attachments)
         /\ DOMAIN Registrations(b) = 1 .. Len(b.actions) + Len(b.attachments)
         /\ \A i \in 1 .. Len(b.actions) : Registrations(b)[i] = b.actions[i]
         /\ \A a \in 1 .. Len(b.attachments) : Registrations(b)[Len(b.actions) + a] = Attached(b, a)
<1> DEFINE t == [a \in DOMAIN b.attachments |-> Attached(b, a)]
           n == Len(b.attachments)
<1>1. /\ IsSeq(b.actions) /\ Len(b.actions) \in Nat /\ n \in Nat
      /\ DOMAIN b.actions = 1 .. Len(b.actions) /\ DOMAIN b.attachments = 1 .. n
  BY FunctionIsSeq DEF Wired, IsSeq
<1>2. t = [a \in 1 .. n |-> t[a]] /\ \A a \in 1 .. n : t[a] = Attached(b, a)
  BY <1>1
<1>3. Registrations(b) = b.actions \o t
  BY DEF Registrations
<1> HIDE DEF t, n
<1>4. IsSeq(t) /\ Len(t) = n
  BY <1>1, <1>2, FunctionIsSeq
<1>5. /\ DOMAIN (b.actions \o t) = 1 .. Len(b.actions) + n
      /\ \A i \in 1 .. Len(b.actions) : (b.actions \o t)[i] = b.actions[i]
      /\ \A i \in 1 .. n : (b.actions \o t)[Len(b.actions) + i] = t[i]
  BY <1>1, <1>4, ConcatIs
<1> QED
  BY <1>1, <1>2, <1>3, <1>5 DEF n

(* No loop of the build met a fault.                                        *)
LEMMA NoFault ==
  ASSUME NEW b, Wired(b), BuildFault(b) = "ok"
  PROVE  /\ \A a \in DOMAIN b.attachments : AttachFault(b, a) = "ok"
         /\ Unattached(b) = {}
         /\ \A i \in DOMAIN b.blocks : BlockFault(b, i) = "ok"
         /\ \A i \in DOMAIN Registrations(b) : RegistrationFault(b, i) = "ok"
<1> DEFINE attaching == [a \in DOMAIN b.attachments |-> AttachFault(b, a)]
           blocks == [i \in DOMAIN b.blocks |-> BlockFault(b, i)]
           registering == [i \in DOMAIN Registrations(b) |-> RegistrationFault(b, i)]
<1>1. /\ FirstFault(attaching) = "ok" /\ Unattached(b) = {} /\ FirstFault(blocks) = "ok"
      /\ FirstFault(registering) = "ok"
  BY Zenon DEF BuildFault
<1>2. DOMAIN attaching \subseteq Nat /\ DOMAIN blocks \subseteq Nat /\ DOMAIN registering \subseteq Nat
  <2>1. Len(b.blocks) \in Nat /\ DOMAIN b.blocks = 1 .. Len(b.blocks)
    BY FunctionIsSeq DEF Wired, IsSeq
  <2>2. ASSUME NEW n \in Nat, NEW m \in Nat
        PROVE  1 .. n \subseteq Nat /\ 1 .. n + m \subseteq Nat
    OBVIOUS
  <2>3. DOMAIN b.attachments \subseteq Nat /\ DOMAIN Registrations(b) \subseteq Nat
    BY <2>2, RegistrationsAre
  <2>4. DOMAIN b.blocks \subseteq Nat
    BY <2>1, <2>2
  <2> QED
    BY <2>3, <2>4
<1>3. \A i \in DOMAIN attaching : attaching[i] = "ok"
  <2> HIDE DEF attaching
  <2> QED
    BY <1>1, <1>2, FirstFaultOk
<1>4. \A i \in DOMAIN blocks : blocks[i] = "ok"
  <2> HIDE DEF blocks
  <2> QED
    BY <1>1, <1>2, FirstFaultOk
<1>5. \A i \in DOMAIN registering : registering[i] = "ok"
  <2> HIDE DEF registering
  <2> QED
    BY <1>1, <1>2, FirstFaultOk
<1> QED
  BY <1>1, <1>3, <1>4, <1>5

(* Then attachments and definitions match one to one.                       *)
LEMMA Matched ==
  ASSUME NEW b, Wired(b), BuildFault(b) = "ok"
  PROVE  /\ Len(b.attachments) = Len(b.pending)
         /\ \A a \in DOMAIN b.attachments :
              /\ Taken(b, a) \in DOMAIN b.pending /\ Takes(b, a, Taken(b, a))
              /\ ~(b.attachments[a].slots /\ b.attachments[a].async)
              /\ Attached(b, a) = ActionRegistration(b.pending[Taken(b, a)], b.attachments[a].dry_run,
                                                     b.attachments[a].slots, b.attachments[a].async)
         /\ \A k \in DOMAIN b.pending : \E a \in DOMAIN b.attachments : k = Taken(b, a)
<1>1. ASSUME NEW a \in DOMAIN b.attachments
      PROVE  /\ \E k \in DOMAIN b.pending : Takes(b, a, k)
             /\ ~(b.attachments[a].slots /\ b.attachments[a].async)
  <2>1. AttachFault(b, a) = "ok"
    BY NoFault
  <2>2. "DuplicateAttachment" # "ok" /\ "UnknownAttachment" # "ok" /\ "MissingHandler" # "ok" /\ "ConflictingSlotBuilders" # "ok"
    OBVIOUS
  <2> QED
    BY <2>1, <2>2, Zenon DEF AttachFault
<1>2. Unattached(b) = {}
  BY NoFault
<1>3. \A a \in DOMAIN b.attachments :
        Attached(b, a) = ActionRegistration(b.pending[Taken(b, a)], b.attachments[a].dry_run,
                                            b.attachments[a].slots, b.attachments[a].async)
  BY Zenon DEF Attached, Taken
<1> QED
  BY <1>1, <1>2, <1>3, OneToOne

(* Each registration has its block, a dry run exactly if it mutates, one    *)
(* slot builder at most, and an id of its own.                              *)
LEMMA Registered ==
  ASSUME NEW b, Wired(b), BuildFault(b) = "ok", NEW i \in DOMAIN Registrations(b)
  PROVE  LET reg == Registrations(b)[i]
         IN /\ reg.dry_run = reg.def.mutates
            /\ ~(reg.slots /\ reg.async)
            /\ \E k \in DOMAIN b.blocks : b.blocks[k].type = reg.def.block
            /\ \A j \in DOMAIN Registrations(b) : Registrations(b)[j].def.id = reg.def.id => i = j
<1> DEFINE R == Registrations(b)
           m == Len(b.actions)
           n == Len(b.attachments)
<1>0. /\ m \in Nat /\ n \in Nat
      /\ DOMAIN b.actions = 1 .. m /\ DOMAIN b.attachments = 1 .. n
      /\ DOMAIN R = 1 .. m + n /\ i \in DOMAIN R
      /\ \A k \in 1 .. m : R[k] = b.actions[k]
      /\ \A a \in 1 .. n : R[m + a] = Attached(b, a)
  BY RegistrationsAre
<1>1. ASSUME NEW j \in DOMAIN R
      PROVE  /\ \E k \in DOMAIN b.blocks : b.blocks[k].type = R[j].def.block
             /\ DryRunFault(R[j]) = "ok"
             /\ ~\E k \in 1 .. (j - 1) : R[k].def.id = R[j].def.id
  <2>1. RegistrationFault(b, j) = "ok"
    BY NoFault
  <2>2. "UnknownBlockType" # "ok" /\ "DuplicateAction" # "ok"
    OBVIOUS
  <2> QED
    BY <2>1, <2>2, Zenon DEF RegistrationFault
<1>2. /\ R[i].dry_run \in BOOLEAN /\ R[i].def.mutates \in BOOLEAN
      /\ ~(R[i].slots /\ R[i].async)
  <2>1. CASE i \in 1 .. m
    BY <1>0, <2>1 DEF Wired
  <2>2. CASE i \notin 1 .. m
    <3>1. PICK a \in 1 .. n : i = m + a
      <4> HIDE DEF R, m, n
      <4>1. i - m \in 1 .. n /\ i = m + (i - m)
        BY <1>0, <2>2
      <4> QED
        BY <4>1
    <3>2. R[i] = ActionRegistration(b.pending[Taken(b, a)], b.attachments[a].dry_run,
                                    b.attachments[a].slots, b.attachments[a].async)
      BY <1>0, <3>1, Matched
    <3>3. Taken(b, a) \in DOMAIN b.pending /\ ~(b.attachments[a].slots /\ b.attachments[a].async)
      BY <1>0, <3>1, Matched
    <3> QED
      BY <1>0, <3>1, <3>2, <3>3 DEF Wired, ActionRegistration
  <2> QED
    BY <2>1, <2>2
<1>3. R[i].dry_run = R[i].def.mutates
  BY <1>1, <1>2 DEF DryRunFault
<1>4. ASSUME NEW j \in DOMAIN R, R[j].def.id = R[i].def.id
      PROVE  i = j
  <2> HIDE DEF R, m, n
  <2>0. i \in Int /\ j \in Int /\ 1 <= i /\ 1 <= j
    BY <1>0
  <2>1. CASE i < j
    <3>1. i \in 1 .. (j - 1)
      BY <2>0, <2>1
    <3> QED
      BY <1>1, <1>4, <3>1
  <2>2. CASE j < i
    <3>1. j \in 1 .. (i - 1)
      BY <2>0, <2>2
    <3> QED
      BY <1>0, <1>1, <1>4, <3>1
  <2> QED
    BY <2>0, <2>1, <2>2
<1> QED
  BY <1>1, <1>2, <1>3, <1>4

(* What an accepted builder freezes: one registration for each definition,  *)
(* and the definitions as they were declared.                               *)
Complete(b, reg) ==
  /\ \A r, s \in reg.regs : r.def.id = s.def.id => r = s
  /\ \A r \in reg.regs :
       /\ r.dry_run = r.def.mutates
       /\ ~(r.slots /\ r.async)
       /\ \E k \in reg.blocks : k.type = r.def.block
  /\ \A k, l \in reg.blocks : k.type = l.type => k = l
  /\ Cardinality(reg.regs) = Len(b.actions) + Len(b.pending)
  /\ Schema(reg) =
       [actions |-> {b.actions[i].def : i \in DOMAIN b.actions}
                    \cup {b.pending[i] : i \in DOMAIN b.pending},
        blocks  |-> {b.blocks[i] : i \in DOMAIN b.blocks},
        context_params |-> b.context_params]

(* No registration is lost in the set: their ids differ.                    *)
LEMMA AllCounted ==
  ASSUME NEW b, Wired(b), BuildFault(b) = "ok"
  PROVE  Cardinality(Frozen(b).regs) = Len(b.actions) + Len(b.pending)
<1> DEFINE R == Registrations(b)
           D == DOMAIN R
           V == {R[i] : i \in D}
           n == Len(b.actions) + Len(b.pending)
<1>1. n \in Nat /\ D = 1 .. n
  <2>1. /\ Len(b.actions) \in Nat /\ Len(b.attachments) \in Nat
        /\ D = 1 .. Len(b.actions) + Len(b.attachments)
    BY RegistrationsAre
  <2>2. Len(b.attachments) = Len(b.pending)
    BY Matched
  <2>3. \A p, q \in Nat : p + q \in Nat
    OBVIOUS
  <2>4. n = Len(b.actions) + Len(b.attachments)
    BY <2>2
  <2> HIDE DEF D, n
  <2> QED
    BY <2>1, <2>3, <2>4
<1>2. \A i, j \in D : R[i] = R[j] => i = j
  BY Registered
<1>3. Frozen(b).regs = V
  BY DEF Frozen
<1>4. [i \in D |-> R[i]] \in Bijection(D, V)
  <2> DEFINE f == [i \in D |-> R[i]]
  <2>1. f \in [D -> V]
    OBVIOUS
  <2>2. \A i, j \in D : f[i] = f[j] => i = j
    BY <1>2
  <2>3. \A v \in V : \E i \in D : f[i] = v
    OBVIOUS
  <2> HIDE DEF f, D, V
  <2>4. f \in Bijection(D, V)
    BY <2>1, <2>2, <2>3, Fun_IsBij
  <2> QED
    BY <2>4 DEF f
<1>5. Cardinality(D) = n /\ IsFiniteSet(D)
  <2> HIDE DEF n, D
  <2> QED
    BY <1>1, FS_Interval
<1>6. Cardinality(V) = Cardinality(D)
  <2>1. ExistsBijection(D, V)
    BY <1>4 DEF ExistsBijection
  <2> HIDE DEF D, V
  <2> QED
    BY <1>5, <2>1, FS_Bijection
<1> QED
  BY <1>3, <1>5, <1>6

(* The definitions of the registrations are those declared.                 *)
LEMMA SchemaKept ==
  ASSUME NEW b, Wired(b), BuildFault(b) = "ok"
  PROVE  {r.def : r \in Frozen(b).regs} =
           {b.actions[i].def : i \in DOMAIN b.actions} \cup {b.pending[i] : i \in DOMAIN b.pending}
<1> DEFINE R == Registrations(b)
           m == Len(b.actions)
           n == Len(b.attachments)
<1>0. /\ m \in Nat /\ n \in Nat /\ DOMAIN b.actions = 1 .. m /\ DOMAIN b.attachments = 1 .. n
      /\ DOMAIN R = 1 .. m + n
      /\ \A i \in 1 .. m : R[i] = b.actions[i]
      /\ \A a \in 1 .. n : R[m + a] = Attached(b, a)
  BY RegistrationsAre
<1>1. \A a \in 1 .. n : R[m + a].def = b.pending[Taken(b, a)]
  <2>1. \A a \in 1 .. n : R[m + a] = ActionRegistration(b.pending[Taken(b, a)], b.attachments[a].dry_run,
                                                         b.attachments[a].slots, b.attachments[a].async)
    BY <1>0, Matched
  <2>2. ASSUME NEW d, NEW dry_run, NEW slots, NEW async
        PROVE  ActionRegistration(d, dry_run, slots, async).def = d
    BY DEF ActionRegistration
  <2> HIDE DEF R, m, n
  <2> QED
    BY <2>1, <2>2
<1>2. ASSUME NEW i \in DOMAIN R
      PROVE  R[i].def \in {b.actions[k].def : k \in DOMAIN b.actions} \cup {b.pending[k] : k \in DOMAIN b.pending}
  <2>1. i \in 1 .. m \/ \E a \in 1 .. n : i = m + a
    <3> HIDE DEF R, m, n
    <3>1. i \in 1 .. m + n
      BY <1>0
    <3>2. CASE i \notin 1 .. m
      <4>1. i - m \in 1 .. n /\ i = m + (i - m)
        BY <1>0, <3>1, <3>2
      <4> QED
        BY <4>1
    <3> QED
      BY <3>2
  <2>2. CASE i \in 1 .. m
    <3>1. R[i] = b.actions[i] /\ i \in DOMAIN b.actions
      BY <1>0, <2>2
    <3> QED
      BY <3>1
  <2>3. ASSUME NEW a \in 1 .. n, i = m + a
        PROVE  R[i].def = b.pending[Taken(b, a)] /\ Taken(b, a) \in DOMAIN b.pending
    <3>1. R[i].def = b.pending[Taken(b, a)]
      BY <1>1, <2>3
    <3>2. a \in DOMAIN b.attachments
      BY <1>0
    <3>3. Taken(b, a) \in DOMAIN b.pending
      BY <3>2, Matched
    <3> QED
      BY <3>1, <3>3
  <2> QED
    BY <2>1, <2>2, <2>3
<1>3. ASSUME NEW k \in DOMAIN b.actions
      PROVE  \E i \in DOMAIN R : R[i].def = b.actions[k].def
  <2>1. k \in 1 .. m + n
    <3> HIDE DEF m, n
    <3> QED
      BY <1>0
  <2> QED
    BY <1>0, <2>1
<1>4. ASSUME NEW k \in DOMAIN b.pending
      PROVE  \E i \in DOMAIN R : R[i].def = b.pending[k]
  <2>1. PICK a \in 1 .. n : k = Taken(b, a)
    BY <1>0, Matched
  <2>2. m + a \in 1 .. m + n
    <3> HIDE DEF m, n
    <3> QED
      BY <1>0
  <2> QED
    BY <1>0, <1>1, <2>1, <2>2
<1>5. {r.def : r \in Frozen(b).regs} = {R[i].def : i \in DOMAIN R}
  BY DEF Frozen
<1> HIDE DEF R, m, n
<1>6. \A d \in {R[i].def : i \in DOMAIN R} :
        d \in {b.actions[k].def : k \in DOMAIN b.actions} \cup {b.pending[k] : k \in DOMAIN b.pending}
  BY <1>2
<1>7. \A d \in {b.actions[k].def : k \in DOMAIN b.actions} \cup {b.pending[k] : k \in DOMAIN b.pending} :
        d \in {R[i].def : i \in DOMAIN R}
  BY <1>3, <1>4
<1> QED
  BY <1>5, <1>6, <1>7

(* So what is frozen is complete.                                           *)
LEMMA FrozenComplete ==
  ASSUME NEW b, Wired(b), BuildFault(b) = "ok"
  PROVE  Complete(b, Frozen(b))
<1> DEFINE R == Registrations(b)
<1>0. Frozen(b).regs = {R[i] : i \in DOMAIN R} /\ Frozen(b).blocks = {b.blocks[k] : k \in DOMAIN b.blocks}
  BY DEF Frozen
<1>1. \A i \in DOMAIN R : /\ R[i].dry_run = R[i].def.mutates /\ ~(R[i].slots /\ R[i].async)
                          /\ \E k \in DOMAIN b.blocks : b.blocks[k].type = R[i].def.block
                          /\ \A j \in DOMAIN R : R[j].def.id = R[i].def.id => i = j
  BY Registered
<1>2. \A r, s \in Frozen(b).regs : r.def.id = s.def.id => r = s
  <2> HIDE DEF R
  <2> QED
    BY <1>0, <1>1
<1>3. \A r \in Frozen(b).regs : /\ r.dry_run = r.def.mutates /\ ~(r.slots /\ r.async)
                                /\ \E k \in Frozen(b).blocks : k.type = r.def.block
  <2> HIDE DEF R
  <2> QED
    BY <1>0, <1>1
<1>4. \A k, l \in DOMAIN b.blocks : b.blocks[k].type = b.blocks[l].type => k = l
  <2>1. Len(b.blocks) \in Nat /\ DOMAIN b.blocks = 1 .. Len(b.blocks)
    BY FunctionIsSeq DEF Wired, IsSeq
  <2>2. ASSUME NEW k \in DOMAIN b.blocks, NEW l \in DOMAIN b.blocks, b.blocks[k].type = b.blocks[l].type, k < l
        PROVE  FALSE
    <3>1. BlockFault(b, l) = "ok"
      BY NoFault
    <3>2. k \in 1 .. (l - 1)
      BY <2>1, <2>2
    <3> QED
      BY <2>2, <3>1, <3>2 DEF BlockFault
  <2>3. \A k, l \in DOMAIN b.blocks : k < l \/ l < k \/ k = l
    BY <2>1
  <2> QED
    BY <2>2, <2>3
<1>5. Cardinality(Frozen(b).regs) = Len(b.actions) + Len(b.pending)
  BY AllCounted
<1>6. Schema(Frozen(b)) = [actions |-> {b.actions[i].def : i \in DOMAIN b.actions}
                                       \cup {b.pending[i] : i \in DOMAIN b.pending},
                           blocks  |-> {b.blocks[i] : i \in DOMAIN b.blocks},
                           context_params |-> b.context_params]
  <2>1. Frozen(b).context_params = b.context_params
    BY DEF Frozen
  <2> QED
    BY <1>0, <2>1, SchemaKept DEF Schema
<1> QED
  BY <1>0, <1>2, <1>3, <1>4, <1>5, <1>6 DEF Complete

-----------------------------------------------------------------------------
(* The builders of the hosts are wired.                                     *)

(* A document as InputsAssumption has it.                                   *)
Read(d) ==
  /\ IsSeq(d.actions) /\ IsSeq(d.blocks)
  /\ DOMAIN d.actions = 1 .. Len(d.actions)
  /\ \A k \in DOMAIN d.actions : d.actions[k].mutates \in BOOLEAN

(* Each host reads such a document.                                         *)
LEMMA DocumentsRead ==
  ASSUME NEW h \in Hosts, NEW i \in Inputs(h)
  PROVE  Read(i.doc)
<1>1. /\ i.doc.actions \in Seq({i.doc.actions[k] : k \in DOMAIN i.doc.actions})
      /\ i.doc.blocks \in Seq({i.doc.blocks[k] : k \in DOMAIN i.doc.blocks})
      /\ \A k \in DOMAIN i.doc.actions : i.doc.actions[k].mutates \in BOOLEAN
  BY InputsAssumption
<1> QED
  BY <1>1, SeqIs DEF Read

(* The empty sequence.                                                      *)
LEMMA EmptyIs == IsSeq(<<>>) /\ Len(<<>>) = 0 /\ DOMAIN <<>> = {}
<1>1. <<>> \in Seq({}) /\ Len(<<>>) = 0 /\ DOMAIN <<>> = {}
  OBVIOUS
<1>2. {<<>>[k] : k \in DOMAIN <<>>} = {}
  BY <1>1
<1> QED
  BY <1>1, <1>2, SeqIs

(* The builder of a document holds its definitions, not yet attached.       *)
LEMMA FromSchemaWired ==
  ASSUME NEW d, Read(d)
  PROVE  /\ FromSchema(d) = [blocks |-> d.blocks, pending |-> d.actions, attachments |-> <<>>, actions |-> <<>>,
                             context_params |-> d.paths]
         /\ Wired(FromSchema(d)) /\ Wired(EmptyBuilder)
<1>1. FromSchema(d) = [blocks |-> d.blocks, pending |-> d.actions, attachments |-> <<>>, actions |-> <<>>,
                       context_params |-> d.paths]
  <2> DEFINE empty == <<>>
             blank == [blocks |-> empty, pending |-> empty, attachments |-> empty, actions |-> empty,
                       context_params |-> empty]
             listed == [blank EXCEPT !.blocks = d.blocks]
             full == [listed EXCEPT !.pending = d.actions]
             mapped == [full EXCEPT !.context_params = d.paths]
  <2>1. FromSchema(d) = [blank EXCEPT !.blocks = d.blocks, !.pending = d.actions, !.context_params = d.paths]
    BY DEF FromSchema, EmptyBuilder
  <2>2. ASSUME NEW r, NEW x, NEW y, NEW z
        PROVE  [r EXCEPT !.blocks = x, !.pending = y, !.context_params = z]
                 = [[[r EXCEPT !.blocks = x] EXCEPT !.pending = y] EXCEPT !.context_params = z]
    OBVIOUS
  <2>3. FromSchema(d) = mapped
    BY <2>1, <2>2
  <2> HIDE DEF empty
  <2>4. /\ blank.pending = empty /\ blank.attachments = empty /\ blank.actions = empty
        /\ blank.context_params = empty
        /\ blank = [blocks |-> blank.blocks, pending |-> blank.pending, attachments |-> blank.attachments,
                    actions |-> blank.actions, context_params |-> blank.context_params]
    OBVIOUS
  <2> HIDE DEF blank
  <2>5. listed = [blocks |-> d.blocks, pending |-> empty, attachments |-> empty, actions |-> empty,
                  context_params |-> empty]
    BY <2>4
  <2>6. /\ listed.blocks = d.blocks /\ listed.attachments = empty /\ listed.actions = empty
        /\ listed.context_params = empty
        /\ listed = [blocks |-> listed.blocks, pending |-> listed.pending, attachments |-> listed.attachments,
                     actions |-> listed.actions, context_params |-> listed.context_params]
    BY <2>5
  <2> HIDE DEF listed
  <2>7. full = [blocks |-> d.blocks, pending |-> d.actions, attachments |-> empty, actions |-> empty,
                context_params |-> empty]
    BY <2>6
  <2>8. /\ full.blocks = d.blocks /\ full.pending = d.actions
        /\ full.attachments = empty /\ full.actions = empty
        /\ full = [blocks |-> full.blocks, pending |-> full.pending, attachments |-> full.attachments,
                   actions |-> full.actions, context_params |-> full.context_params]
    BY <2>7
  <2> HIDE DEF full
  <2>9. mapped = [blocks |-> d.blocks, pending |-> d.actions, attachments |-> empty, actions |-> empty,
                  context_params |-> d.paths]
    BY <2>8
  <2> QED
    BY <2>3, <2>9 DEF empty
<1>2. Wired(FromSchema(d))
  <2> DEFINE b == [blocks |-> d.blocks, pending |-> d.actions, attachments |-> <<>>, actions |-> <<>>,
                   context_params |-> d.paths]
  <2>1. b.blocks = d.blocks /\ b.pending = d.actions /\ b.attachments = <<>> /\ b.actions = <<>>
    OBVIOUS
  <2>2. b = [blocks |-> b.blocks, pending |-> b.pending, attachments |-> b.attachments, actions |-> b.actions,
             context_params |-> b.context_params]
    OBVIOUS
  <2> HIDE DEF b
  <2>3. Wired(b)
    BY <2>1, <2>2, EmptyIs DEF Wired, Read
  <2> QED
    BY <1>1, <2>3 DEF b
<1>3. Wired(EmptyBuilder)
  <2>1. /\ EmptyBuilder.blocks = <<>> /\ EmptyBuilder.pending = <<>>
        /\ EmptyBuilder.attachments = <<>> /\ EmptyBuilder.actions = <<>>
        /\ EmptyBuilder.context_params = <<>>
        /\ EmptyBuilder = [blocks |-> <<>>, pending |-> <<>>, attachments |-> <<>>, actions |-> <<>>,
                           context_params |-> <<>>]
    BY DEF EmptyBuilder
  <2> QED
    BY <2>1, EmptyIs DEF Wired
<1> QED
  BY <1>1, <1>2, <1>3

(* New attachments, each with a dry run or without.                         *)
LEMMA AttachmentsWired ==
  ASSUME NEW b, Wired(b), NEW s, IsSeq(s), \A a \in DOMAIN s : s[a].dry_run \in BOOLEAN
  PROVE  /\ Wired([b EXCEPT !.attachments = s])
         /\ [b EXCEPT !.attachments = s].attachments = s
         /\ [b EXCEPT !.attachments = s].blocks = b.blocks
         /\ [b EXCEPT !.attachments = s].pending = b.pending
         /\ [b EXCEPT !.attachments = s].actions = b.actions
<1> DEFINE c == [b EXCEPT !.attachments = s]
<1>1. c = [blocks |-> b.blocks, pending |-> b.pending, attachments |-> s, actions |-> b.actions,
           context_params |-> b.context_params]
  BY DEF Wired
<1>2. /\ c.blocks = b.blocks /\ c.pending = b.pending /\ c.attachments = s /\ c.actions = b.actions
      /\ c.context_params = b.context_params
  BY <1>1
<1> HIDE DEF c
<1>3. Wired(c)
  BY <1>1, <1>2 DEF Wired
<1> QED
  BY <1>2, <1>3 DEF c

(* A builder call leaves the builder wired.                                 *)
LEMMA CallsWired ==
  ASSUME NEW b, Wired(b)
  PROVE  /\ \A id, dry_run, slots : dry_run \in BOOLEAN => Wired(Attach(b, id, dry_run, slots))
         /\ \A id : \A binding \in Bindings : Wired(Bind(b, id, binding))
         /\ \A def \in Extras.actions : \A dry_run \in BOOLEAN : Wired(Action(b, def, dry_run, FALSE))
         /\ \A def : Wired(Block(b, def))
         /\ \A param, path : Wired(ContextParam(b, param, path))
<1>1. ASSUME NEW e, e.dry_run \in BOOLEAN
      PROVE  Wired([b EXCEPT !.attachments = Append(@, e)])
  <2> DEFINE s == Append(b.attachments, e)
             n == Len(b.attachments)
  <2>1. /\ IsSeq(b.attachments) /\ n \in Nat /\ DOMAIN b.attachments = 1 .. n
        /\ \A a \in DOMAIN b.attachments : b.attachments[a].dry_run \in BOOLEAN
    BY FunctionIsSeq DEF Wired, IsSeq
  <2>2. IsSeq(s) /\ DOMAIN s = 1 .. n + 1 /\ (\A i \in 1 .. n : s[i] = b.attachments[i]) /\ s[n + 1] = e
    BY <2>1, AppendIs
  <2> HIDE DEF s, n
  <2>3. \A a \in DOMAIN s : a \in 1 .. n \/ a = n + 1
    BY <2>1, <2>2
  <2>4. \A a \in DOMAIN s : s[a].dry_run \in BOOLEAN
    BY <1>1, <2>1, <2>2, <2>3
  <2>5. Wired([b EXCEPT !.attachments = s])
    BY <2>2, <2>4, AttachmentsWired
  <2> QED
    BY <2>5 DEF s
<1>2. ASSUME NEW id, NEW dry_run \in BOOLEAN, NEW slots
      PROVE  Wired(Attach(b, id, dry_run, slots))
  <2> DEFINE e == [id |-> id, handler |-> TRUE, dry_run |-> dry_run, slots |-> slots, async |-> FALSE]
  <2>1. e.dry_run \in BOOLEAN
    OBVIOUS
  <2>2. Attach(b, id, dry_run, slots) = [b EXCEPT !.attachments = Append(@, e)]
    BY DEF Attach
  <2> HIDE DEF e
  <2> QED
    BY <1>1, <2>1, <2>2
<1>3. ASSUME NEW id, NEW binding \in Bindings
      PROVE  Wired(Bind(b, id, binding))
  <2> DEFINE e == [id |-> id, handler |-> binding.handler, dry_run |-> binding.dry_run,
                   slots |-> binding.slots, async |-> binding.async]
  <2>1. e.dry_run \in BOOLEAN
    BY ProgramAssumption
  <2>2. Bind(b, id, binding) = [b EXCEPT !.attachments = Append(@, e)]
    BY DEF Bind
  <2> HIDE DEF e
  <2> QED
    BY <1>1, <2>1, <2>2
<1>4. ASSUME NEW def \in Extras.actions, NEW dry_run \in BOOLEAN
      PROVE  Wired(Action(b, def, dry_run, FALSE))
  <2> DEFINE e == ActionRegistration(def, dry_run, FALSE, FALSE)
             s == Append(b.actions, e)
             n == Len(b.actions)
             c == [b EXCEPT !.actions = s]
  <2>0. e.def.mutates \in BOOLEAN /\ e.dry_run \in BOOLEAN /\ e.async = FALSE
    BY ProgramAssumption DEF ActionRegistration
  <2>1. IsSeq(b.actions) /\ n \in Nat /\ DOMAIN b.actions = 1 .. n
    BY FunctionIsSeq DEF Wired, IsSeq
  <2>2. IsSeq(s) /\ DOMAIN s = 1 .. n + 1 /\ (\A i \in 1 .. n : s[i] = b.actions[i]) /\ s[n + 1] = e
    <3> HIDE DEF e
    <3> QED
      BY <2>1, AppendIs
  <2>3. Action(b, def, dry_run, FALSE) = c
    BY DEF Action
  <2> HIDE DEF e, s, n
  <2>4. \A a \in DOMAIN s : a \in 1 .. n \/ a = n + 1
    BY <2>1, <2>2
  <2>5. \A a \in DOMAIN s : s[a].def.mutates \in BOOLEAN /\ s[a].dry_run \in BOOLEAN /\ s[a].async = FALSE
    BY <2>0, <2>1, <2>2, <2>4 DEF Wired
  <2>6. c = [blocks |-> b.blocks, pending |-> b.pending, attachments |-> b.attachments, actions |-> s,
             context_params |-> b.context_params]
    BY DEF Wired
  <2>7. /\ c.blocks = b.blocks /\ c.pending = b.pending /\ c.attachments = b.attachments /\ c.actions = s
        /\ c.context_params = b.context_params
    BY <2>6
  <2> HIDE DEF c
  <2>8. Wired(c)
    BY <2>2, <2>5, <2>6, <2>7 DEF Wired
  <2> QED
    BY <2>3, <2>8
<1>5. ASSUME NEW def
      PROVE  Wired(Block(b, def))
  <2> DEFINE s == Append(b.blocks, def)
             c == [b EXCEPT !.blocks = s]
  <2>1. IsSeq(s)
    BY AppendIs DEF Wired
  <2>2. Block(b, def) = c
    BY DEF Block
  <2> HIDE DEF s
  <2>3. c = [blocks |-> s, pending |-> b.pending, attachments |-> b.attachments, actions |-> b.actions,
             context_params |-> b.context_params]
    BY DEF Wired
  <2>4. /\ c.blocks = s /\ c.pending = b.pending /\ c.attachments = b.attachments /\ c.actions = b.actions
        /\ c.context_params = b.context_params
    BY <2>3
  <2> HIDE DEF c
  <2>5. Wired(c)
    BY <2>1, <2>3, <2>4 DEF Wired
  <2> QED
    BY <2>2, <2>5
<1>6. ASSUME NEW param, NEW path
      PROVE  Wired(ContextParam(b, param, path))
  <2> DEFINE paths == Mapped(b.context_params, param, path)
             c == [b EXCEPT !.context_params = paths]
  <2>1. ContextParam(b, param, path) = c
    BY DEF ContextParam
  <2> HIDE DEF paths
  <2>2. c = [blocks |-> b.blocks, pending |-> b.pending, attachments |-> b.attachments, actions |-> b.actions,
             context_params |-> paths]
    BY DEF Wired
  <2>3. /\ c.blocks = b.blocks /\ c.pending = b.pending /\ c.attachments = b.attachments /\ c.actions = b.actions
        /\ c.context_params = paths
    BY <2>2
  <2> HIDE DEF c
  <2>4. Wired(c)
    BY <2>2, <2>3 DEF Wired
  <2> QED
    BY <2>1, <2>4
<1> QED
  BY <1>2, <1>3, <1>4, <1>5, <1>6

(* A binding attaches to each definition of the document, in its order.     *)
LEMMA WithMapsWired ==
  ASSUME NEW d, Read(d), NEW maps
  PROVE  LET w == WithMaps(d, maps)
         IN /\ Wired(w) /\ w.blocks = d.blocks /\ w.pending = d.actions /\ w.actions = <<>>
            /\ DOMAIN w.attachments = DOMAIN d.actions
            /\ \A i \in DOMAIN d.actions :
                 /\ w.attachments[i].id = d.actions[i].id
                 /\ w.attachments[i].dry_run = (d.actions[i].id \in maps.dry_runs)
<1> DEFINE s == [i \in DOMAIN d.actions |->
                   [id |-> d.actions[i].id, handler |-> TRUE, dry_run |-> d.actions[i].id \in maps.dry_runs,
                    slots |-> d.actions[i].id \in maps.slot_builders, async |-> FALSE]]
           n == Len(d.actions)
<1>1. n \in Nat /\ DOMAIN d.actions = 1 .. n
  BY DEF Read, IsSeq
<1>2. /\ s = [i \in 1 .. n |-> s[i]] /\ DOMAIN s = DOMAIN d.actions
      /\ \A i \in DOMAIN d.actions : s[i].id = d.actions[i].id /\ s[i].dry_run = (d.actions[i].id \in maps.dry_runs)
  BY <1>1
<1>3. WithMaps(d, maps) = [FromSchema(d) EXCEPT !.attachments = s]
  BY DEF WithMaps
<1> HIDE DEF s, n
<1>4. IsSeq(s) /\ \A i \in DOMAIN s : s[i].dry_run \in BOOLEAN
  <2>1. IsSeq(s)
    BY <1>1, <1>2, FunctionIsSeq
  <2>2. ASSUME NEW i \in DOMAIN s
        PROVE  s[i].dry_run \in BOOLEAN
    <3>1. s[i].dry_run = (d.actions[i].id \in maps.dry_runs)
      BY <1>2
    <3>2. (d.actions[i].id \in maps.dry_runs) \in BOOLEAN
      OBVIOUS
    <3> QED
      BY <3>1, <3>2
  <2> QED
    BY <2>1, <2>2
<1>5. /\ Wired([FromSchema(d) EXCEPT !.attachments = s])
      /\ [FromSchema(d) EXCEPT !.attachments = s].attachments = s
      /\ [FromSchema(d) EXCEPT !.attachments = s].blocks = FromSchema(d).blocks
      /\ [FromSchema(d) EXCEPT !.attachments = s].pending = FromSchema(d).pending
      /\ [FromSchema(d) EXCEPT !.attachments = s].actions = FromSchema(d).actions
  BY <1>4, FromSchemaWired, AttachmentsWired
<1>6. FromSchema(d).blocks = d.blocks /\ FromSchema(d).pending = d.actions /\ FromSchema(d).actions = <<>>
  BY FromSchemaWired
<1> QED
  BY <1>2, <1>3, <1>5, <1>6

-----------------------------------------------------------------------------
(* The bindings and the builder.                                            *)

(* A binding's own checks refuse what the builder would refuse and nothing  *)
(* else, for every document and every set of callback ids: with one handler *)
(* for each action the i-th attachment takes the i-th definition, so the    *)
(* builder sees the same dry runs and the same repeated ids.                *)
LEMMA AssembleAgrees ==
  ASSUME NEW d, Read(d), NEW maps
  PROVE  LET ids == {d.actions[i].id : i \in DOMAIN d.actions}
         IN (AssembleRegistry(d, maps) = "ok") <=>
              (/\ maps.handlers = ids /\ maps.dry_runs \cup maps.slot_builders \subseteq ids
               /\ BuildFault(WithMaps(d, maps)) = "ok")
<1> DEFINE ids == {d.actions[i].id : i \in DOMAIN d.actions}
           w == WithMaps(d, maps)
           checks == [i \in DOMAIN d.actions |-> AssembleFault(d, maps, i)]
<1>0. Len(d.actions) \in Nat /\ DOMAIN d.actions = 1 .. Len(d.actions)
  BY DEF Read, IsSeq
<1>1. /\ Wired(w) /\ w.pending = d.actions /\ w.actions = <<>>
      /\ DOMAIN w.attachments = DOMAIN d.actions
      /\ \A i \in DOMAIN d.actions :
           /\ w.attachments[i].id = d.actions[i].id
           /\ w.attachments[i].dry_run = (d.actions[i].id \in maps.dry_runs)
  BY WithMapsWired
<1>2. (AssembleRegistry(d, maps) = "ok") <=>
        (FirstFault(checks) = "ok" /\ ~UnknownKey(d, maps) /\ BuildFault(w) = "ok")
  <2> DEFINE c == FirstFault(checks)
             f == BuildFault(w)
             u == UnknownKey(d, maps)
  <2>1. AssembleRegistry(d, maps) = IF c # "ok" THEN c ELSE IF u THEN "UnknownKey" ELSE f
    BY Zenon DEF AssembleRegistry
  <2>2. "UnknownKey" # "ok"
    OBVIOUS
  <2> HIDE DEF c, f, u
  <2>3. (AssembleRegistry(d, maps) = "ok") <=> (c = "ok" /\ ~u /\ f = "ok")
    BY <2>1, <2>2
  <2> QED
    BY <2>3 DEF c, f, u
<1>3. FirstFault(checks) = "ok" <=> \A i \in DOMAIN d.actions : AssembleFault(d, maps, i) = "ok"
  <2>1. DOMAIN checks \subseteq Nat /\ DOMAIN checks = DOMAIN d.actions
    BY <1>0
  <2>2. \A i \in DOMAIN d.actions : checks[i] = AssembleFault(d, maps, i)
    OBVIOUS
  <2> HIDE DEF checks
  <2> QED
    BY <2>1, <2>2, FirstFaultOk
<1>4. UnknownKey(d, maps) <=> ~((maps.handlers \cup maps.dry_runs \cup maps.slot_builders) \subseteq ids)
  BY DEF UnknownKey
<1>5. ASSUME AssembleRegistry(d, maps) = "ok"
      PROVE  /\ maps.handlers = ids /\ maps.dry_runs \cup maps.slot_builders \subseteq ids
             /\ BuildFault(w) = "ok"
  <2>1. \A i \in DOMAIN d.actions : d.actions[i].id \in maps.handlers
    <3>1. \A i \in DOMAIN d.actions : AssembleFault(d, maps, i) = "ok"
      BY <1>2, <1>3, <1>5
    <3>2. "NoHandler" # "ok"
      OBVIOUS
    <3> QED
      BY <3>1, <3>2, Zenon DEF AssembleFault
  <2>2. (maps.handlers \cup maps.dry_runs \cup maps.slot_builders) \subseteq ids /\ BuildFault(w) = "ok"
    BY <1>2, <1>4, <1>5
  <2>3. ids \subseteq maps.handlers
    BY <2>1
  <2> HIDE DEF ids
  <2> QED
    BY <2>2, <2>3
<1>6. ASSUME maps.handlers = ids, maps.dry_runs \cup maps.slot_builders \subseteq ids,
             BuildFault(w) = "ok"
      PROVE  AssembleRegistry(d, maps) = "ok"
  <2> DEFINE R == Registrations(w)
  <2>1. ~UnknownKey(d, maps)
    <3>1. (maps.handlers \cup maps.dry_runs \cup maps.slot_builders) \subseteq ids
      <4> HIDE DEF ids
      <4> QED
        BY <1>6
    <3> QED
      BY <1>4, <3>1
  <2>2. \A i \in DOMAIN d.actions : Taken(w, i) = i
    <3> SUFFICES ASSUME NEW i \in DOMAIN d.actions
                 PROVE  Taken(w, i) = i
      OBVIOUS
    <3>1. Takes(w, i, i)
      <4>1. i \in 1 .. Len(d.actions)
        BY <1>0
      <4>2. {j \in 1 .. (i - 1) : w.attachments[j].id = w.attachments[i].id}
              = {j \in 1 .. (i - 1) : w.pending[j].id = w.pending[i].id}
        <5>1. \A j \in 1 .. (i - 1) : j \in DOMAIN d.actions
          BY <1>0, <4>1
        <5> QED
          BY <1>1, <5>1
      <4>3. Before(w.pending, i) = Before(w.attachments, i)
        BY <4>2 DEF Before
      <4> HIDE DEF w
      <4> QED
        BY <1>1, <4>3 DEF Takes
    <3>2. Taken(w, i) \in DOMAIN w.pending /\ Takes(w, i, Taken(w, i))
      BY <1>1, <1>6, Matched
    <3> HIDE DEF w
    <3> QED
      BY <1>1, <3>1, <3>2, TakesOnce
  <2>3. /\ DOMAIN R = DOMAIN d.actions
        /\ \A i \in DOMAIN d.actions : R[i] = Attached(w, i)
    <3>1. /\ Len(w.actions) = 0
          /\ DOMAIN w.attachments = 1 .. Len(w.attachments) /\ Len(w.attachments) \in Nat
          /\ DOMAIN R = 1 .. Len(w.actions) + Len(w.attachments)
          /\ \A a \in 1 .. Len(w.attachments) : R[Len(w.actions) + a] = Attached(w, a)
      BY <1>1, EmptyIs, RegistrationsAre
    <3> DEFINE n == Len(w.attachments)
               m == Len(w.actions)
    <3>2. m = 0 /\ n \in Nat /\ DOMAIN d.actions = 1 .. n /\ DOMAIN R = 1 .. m + n
          /\ \A a \in 1 .. n : R[m + a] = Attached(w, a)
      BY <1>1, <3>1
    <3> HIDE DEF n, m, R, w
    <3>3. m + n = n /\ \A a \in 1 .. n : m + a = a
      BY <3>2
    <3> QED
      BY <3>2, <3>3
  <2>4. ASSUME NEW i \in DOMAIN d.actions
        PROVE  /\ R[i].def = d.actions[i]
               /\ (d.actions[i].id \in maps.dry_runs) = d.actions[i].mutates
               /\ \A j \in DOMAIN d.actions : d.actions[j].id = d.actions[i].id => i = j
    <3>1. \A j \in DOMAIN d.actions : /\ R[j].def = d.actions[j]
                                      /\ R[j].dry_run = (d.actions[j].id \in maps.dry_runs)
      <4>1. ASSUME NEW j \in DOMAIN d.actions
            PROVE  R[j] = ActionRegistration(d.actions[j], w.attachments[j].dry_run,
                                             w.attachments[j].slots, w.attachments[j].async)
        BY <1>1, <1>6, <2>2, <2>3, Matched
      <4>2. ASSUME NEW e, NEW dry_run, NEW slots, NEW async
            PROVE  /\ ActionRegistration(e, dry_run, slots, async).def = e
                   /\ ActionRegistration(e, dry_run, slots, async).dry_run = dry_run
        BY DEF ActionRegistration
      <4> HIDE DEF R, w
      <4> QED
        BY <1>1, <4>1, <4>2
    <3>2. /\ R[i].dry_run = R[i].def.mutates
          /\ \A j \in DOMAIN R : R[j].def.id = R[i].def.id => i = j
      BY <1>1, <1>6, <2>3, Registered
    <3> HIDE DEF R
    <3> QED
      BY <2>3, <3>1, <3>2
  <2>5. ASSUME NEW i \in DOMAIN d.actions
        PROVE  AssembleFault(d, maps, i) = "ok"
    <3>1. \A j \in 1 .. (i - 1) : j \in DOMAIN d.actions /\ j # i
      BY <1>0
    <3>2. ~\E j \in 1 .. (i - 1) : d.actions[j].id = d.actions[i].id
      BY <2>4, <3>1
    <3>3. d.actions[i].id \in maps.handlers
      BY <1>6
    <3> QED
      BY <2>4, <3>2, <3>3 DEF AssembleFault
  <2> QED
    BY <1>2, <1>3, <1>6, <2>1, <2>5
<1> QED
  BY <1>5, <1>6

-----------------------------------------------------------------------------
(* The startup of a host.                                                   *)

Building == {"building", "attach", "assemble", "build"}

(* Once there is a registry it is what the builder, found without fault,    *)
(* freezes to, and no stage that could change either lies ahead.            *)
Sealed ==
  registry # NoRegistry =>
    /\ BuildFault(builder) = "ok" /\ registry = Frozen(builder)
    /\ \A k \in DOMAIN Stages : Stages[k] \in Building => k < stage

StartupInv ==
  /\ host \in Hosts /\ input \in Inputs(host)
  /\ stage \in Nat
  /\ Wired(builder)
  /\ Sealed

(* The stages of each host, and the last that builds.                       *)
LEMMA StagesAre ==
  ASSUME host \in Hosts
  PROVE  \A k, l \in DOMAIN Stages :
           /\ Stages[k] \in {"assemble", "build"} /\ Stages[l] \in Building => l <= k
           /\ k \in Nat
<1>0. host \in {"rust", "node", "python", "serve"}
  BY InputsAssumption
<1>1. CASE host = "rust"
  BY <1>1 DEF Stages, Building
<1>2. CASE host = "node"
  BY <1>2 DEF Stages, Building
<1>3. CASE host = "python"
  BY <1>3 DEF Stages, Building
<1>4. CASE host = "serve"
  BY <1>4 DEF Stages, Building
<1> QED
  BY <1>0, <1>1, <1>2, <1>3, <1>4

(* A host that has not started keeps the invariant.                         *)
LEMMA StartupInit == Init => StartupInv
<1> SUFFICES ASSUME Init PROVE StartupInv
  OBVIOUS
<1>1. host \in Hosts /\ input \in Inputs(host) /\ stage \in Nat
  BY DEF Init
<1>2. Wired(builder)
  <2>1. Read(doc)
    BY <1>1, DocumentsRead DEF doc
  <2>2. Wired(FromSchema(doc)) /\ Wired(EmptyBuilder)
    BY <2>1, FromSchemaWired
  <2> QED
    BY <2>2 DEF Init
<1>3. Sealed
  BY DEF Init, Sealed
<1> QED
  BY <1>1, <1>2, <1>3 DEF StartupInv

(* A stage that leaves builder and registry alone seals nothing and breaks  *)
(* no seal: the stage only grows.                                           *)
LEMMA StagePasses ==
  ASSUME StartupInv, NEW found, Checked(found), UNCHANGED <<host, input, builder, registry>>
  PROVE  StartupInv'
<1>1. stage' \in Nat /\ \A k \in Nat : k < stage => k < stage'
  BY DEF StartupInv, Checked
<1>2. Stages' = Stages
  BY DEF Stages
<1>3. Sealed'
  <2> SUFFICES ASSUME registry # NoRegistry
               PROVE  /\ BuildFault(builder) = "ok" /\ registry = Frozen(builder)
                      /\ \A k \in DOMAIN Stages : Stages[k] \in Building => k < stage'
    BY <1>2 DEF Sealed
  <2>1. \A k \in DOMAIN Stages : k \in Nat
    BY StagesAre DEF StartupInv
  <2> QED
    BY <1>1, <2>1 DEF StartupInv, Sealed
<1> QED
  BY <1>1, <1>3 DEF StartupInv

(* Where a stage still builds, nothing is sealed.                           *)
LEMMA NotSealed ==
  ASSUME StartupInv, NEW name \in Building, At(name)
  PROVE  registry = NoRegistry
<1>1. stage \in DOMAIN Stages /\ Stages[stage] \in Building
  BY DEF At
<1>2. stage \in Nat /\ ~(stage < stage)
  BY DEF StartupInv
<1> QED
  BY <1>1, <1>2 DEF StartupInv, Sealed

(* While there is no registry the builder may change.                       *)
LEMMA BuilderChanges ==
  ASSUME StartupInv, registry' = NoRegistry, Wired(builder'), stage' \in Nat, UNCHANGED <<host, input>>
  PROVE  StartupInv'
BY DEF StartupInv, Sealed

(* The last building stage seals what it accepts.                           *)
LEMMA LastBuilds ==
  ASSUME StartupInv, NEW name \in {"assemble", "build"}, At(name), NEW found, Checked(found),
         UNCHANGED <<host, input>>, Wired(builder'),
         found = "ok" => BuildFault(builder') = "ok",
         registry' = IF found = "ok" THEN Frozen(builder') ELSE NoRegistry
  PROVE  StartupInv'
<1>1. stage' \in Nat
  BY DEF StartupInv, Checked
<1>2. CASE found # "ok"
  BY <1>1, <1>2, BuilderChanges
<1>3. CASE found = "ok"
  <2>1. Stages' = Stages
    BY DEF Stages
  <2>2. /\ stage \in DOMAIN Stages /\ Stages[stage] \in {"assemble", "build"}
        /\ stage \in Nat /\ stage' = stage + 1
    BY <1>3 DEF At, Checked, StartupInv
  <2>3. \A k \in DOMAIN Stages : Stages[k] \in Building => k < stage'
    <3>1. ASSUME NEW k \in DOMAIN Stages, Stages[k] \in Building
          PROVE  k < stage'
      <4>1. k <= stage /\ k \in Nat
        BY <2>2, <3>1, StagesAre DEF StartupInv
      <4> QED
        BY <2>2, <4>1
    <3> QED
      BY <3>1
  <2>4. Sealed'
    BY <1>3, <2>1, <2>3 DEF Sealed
  <2> QED
    BY <1>1, <2>4 DEF StartupInv
<1> QED
  BY <1>2, <1>3

(* A builder call keeps it.                                                 *)
LEMMA CallsKeep ==
  ASSUME StartupInv, CallFromSchema \/ CallAttach \/ CallBind \/ CallAction \/ CallBlock \/ CallContextParam
  PROVE  StartupInv'
<1>1. At("building") /\ UNCHANGED <<host, input, stage, registry>>
  BY DEF CallFromSchema, CallAttach, CallBind, CallAction, CallBlock, CallContextParam, Call
<1>2. registry = NoRegistry
  BY <1>1, NotSealed DEF Building
<1>3. Wired(builder) /\ stage \in Nat
  BY DEF StartupInv
<1>4. Wired(builder')
  <2>1. CASE CallFromSchema
    <3>1. Read(doc)
      BY DocumentsRead DEF StartupInv, doc
    <3> QED
      BY <2>1, <3>1, FromSchemaWired DEF CallFromSchema
  <2>2. CASE CallAttach
    BY <1>3, <2>2, CallsWired DEF CallAttach, Call
  <2>3. CASE CallBind
    BY <1>3, <2>3, CallsWired DEF CallBind, Call
  <2>4. CASE CallAction
    BY <1>3, <2>4, CallsWired DEF CallAction, Call
  <2>5. CASE CallBlock
    BY <1>3, <2>5, CallsWired DEF CallBlock, Call
  <2>6. CASE CallContextParam
    BY <1>3, <2>6, CallsWired DEF CallContextParam, Call
  <2> QED
    BY <2>1, <2>2, <2>3, <2>4, <2>5, <2>6
<1> QED
  BY <1>1, <1>2, <1>3, <1>4, BuilderChanges

(* A build that nothing follows keeps it.                                   *)
LEMMA BuildKeeps ==
  ASSUME StartupInv, Build
  PROVE  StartupInv'
<1> DEFINE found == BuildFault(builder)
<1>1. /\ At("build") /\ Checked(found) /\ UNCHANGED <<host, input, builder>>
      /\ registry' = IF found = "ok" THEN Frozen(builder) ELSE NoRegistry
  BY DEF Build
<1>2. Wired(builder') /\ builder' = builder
  BY <1>1 DEF StartupInv
<1>3. found = "ok" => BuildFault(builder') = "ok"
  BY <1>2
<1>4. registry' = IF found = "ok" THEN Frozen(builder') ELSE NoRegistry
  BY <1>1, <1>2
<1> HIDE DEF found
<1> QED
  BY <1>1, <1>2, <1>3, <1>4, LastBuilds

(* Assembling the host keeps it.                                            *)
LEMMA AssembleKeeps ==
  ASSUME StartupInv, Assemble
  PROVE  StartupInv'
<1> DEFINE maps == input.binding.maps
           found == AssembleRegistry(doc, maps)
<1>1. /\ At("assemble") /\ Checked(found) /\ UNCHANGED <<host, input>>
      /\ builder' = WithMaps(doc, maps)
      /\ registry' = IF found = "ok" THEN Frozen(WithMaps(doc, maps)) ELSE NoRegistry
  BY DEF Assemble
<1>2. Read(doc)
  BY DocumentsRead DEF StartupInv, doc
<1>3. Wired(builder')
  BY <1>1, <1>2, WithMapsWired
<1>4. found = "ok" => BuildFault(builder') = "ok"
  BY <1>1, <1>2, AssembleAgrees
<1>5. registry' = IF found = "ok" THEN Frozen(builder') ELSE NoRegistry
  BY <1>1
<1> HIDE DEF found
<1> QED
  BY <1>1, <1>3, <1>4, <1>5, LastBuilds

(* Attaching from a document keeps it.                                      *)
LEMMA AttachKeeps ==
  ASSUME StartupInv, AttachRoutes
  PROVE  StartupInv'
<1> DEFINE s == [i \in DOMAIN doc.actions |-> RouteAttachment(doc.actions[i].id, resolved.actions[doc.actions[i].id])]
           n == Len(doc.actions)
<1>1. /\ At("attach") /\ Checked("ok") /\ UNCHANGED <<host, input, registry>>
      /\ builder' = [builder EXCEPT !.attachments = s]
  BY Zenon DEF AttachRoutes
<1>2. registry = NoRegistry
  BY <1>1, NotSealed DEF Building
<1>3. Read(doc)
  BY DocumentsRead DEF StartupInv, doc
<1>4. n \in Nat /\ DOMAIN doc.actions = 1 .. n
  BY <1>3 DEF Read, IsSeq
<1>5. s = [i \in 1 .. n |-> s[i]] /\ \A i \in 1 .. n : s[i].dry_run \in BOOLEAN
  <2>1. \A id, routes : RouteAttachment(id, routes).dry_run \in BOOLEAN
    BY DEF RouteAttachment
  <2> QED
    BY <1>4, <2>1
<1> HIDE DEF s, n
<1>6. IsSeq(s) /\ DOMAIN s = 1 .. n
  BY <1>4, <1>5, FunctionIsSeq
<1>7. Wired(builder')
  BY <1>1, <1>5, <1>6, AttachmentsWired DEF StartupInv
<1>8. stage' \in Nat
  BY <1>1 DEF Checked, StartupInv
<1> QED
  BY <1>1, <1>2, <1>7, <1>8, BuilderChanges

(* Every step keeps it.                                                     *)
LEMMA StartupNext == StartupInv /\ [Next]_vars => StartupInv'
<1> SUFFICES ASSUME StartupInv, [Next]_vars PROVE StartupInv'
  OBVIOUS
<1>1. CASE CallFromSchema \/ CallAttach \/ CallBind \/ CallAction \/ CallBlock \/ CallContextParam
  BY <1>1, CallsKeep
<1>2. CASE Build
  BY <1>2, BuildKeeps
<1>3. CASE Assemble
  BY <1>3, AssembleKeeps
<1>4. CASE AttachRoutes
  BY <1>4, AttachKeeps
<1>5. CASE \/ StartBuild \/ LoadSchema \/ BuildResolver \/ ChooseLlm \/ ParseAgentConfig \/ ParseSlotTables
           \/ ParseConfig \/ InitTelemetry \/ ResolveConfig \/ ResolveLlm \/ BuildClient \/ Listen
  <2>1. UNCHANGED <<host, input, builder, registry>>
    BY <1>5 DEF StartBuild, LoadSchema, BuildResolver, ChooseLlm, ParseAgentConfig, ParseSlotTables,
                ParseConfig, InitTelemetry, ResolveConfig, ResolveLlm, BuildClient, Listen
  <2>2. \E found : Checked(found)
    BY <1>5, Zenon DEF StartBuild, LoadSchema, BuildResolver, ChooseLlm, ParseAgentConfig, ParseSlotTables,
                       ParseConfig, InitTelemetry, ResolveConfig, ResolveLlm, BuildClient, Listen
  <2> QED
    BY <2>1, <2>2, StagePasses
<1>6. CASE UNCHANGED vars
  BY <1>6 DEF vars, StartupInv, Sealed, Stages
<1> QED
  BY <1>1, <1>2, <1>3, <1>4, <1>5, <1>6 DEF Next

(* The invariant gives the property of the run.                             *)
LEMMA StartupSays == StartupInv => AcceptedComplete
<1> SUFFICES ASSUME StartupInv, registry # NoRegistry PROVE Complete(builder, registry)
  BY DEF AcceptedComplete, Complete
<1> QED
  BY FrozenComplete DEF StartupInv, Sealed

(* Whatever a host froze is complete: no two actions of one id, a block for *)
(* each, a dry run exactly where it mutates, one slot builder at most, and  *)
(* nothing lost of what was declared, for every document, config, set of    *)
(* callbacks and order of builder calls (RegistryBuilder::build).           *)
THEOREM AcceptedIsComplete == Spec => []AcceptedComplete
<1>1. Spec => []StartupInv
  BY StartupInit, StartupNext, PTL DEF Spec
<1> QED
  BY <1>1, StartupSays, PTL

(* A binding's checks in front of the builder refuse no document the        *)
(* builder would take and hide no fault of it (assemble_registry).          *)
THEOREM BindingsAgree == Spec => []HostsAgree
<1>1. Spec => []StartupInv
  BY StartupInit, StartupNext, PTL DEF Spec
<1>2. StartupInv => HostsAgree
  <2> SUFFICES ASSUME StartupInv PROVE HostsAgree
    OBVIOUS
  <2>1. Read(doc)
    BY DocumentsRead DEF StartupInv, doc
  <2> DEFINE maps == input.binding.maps
             ids == {doc.actions[i].id : i \in DOMAIN doc.actions}
             taken == AssembleRegistry(doc, maps) = "ok"
             content == /\ maps.handlers = ids /\ maps.dry_runs \cup maps.slot_builders \subseteq ids
                        /\ BuildFault(WithMaps(doc, maps)) = "ok"
  <2>2. taken <=> content
    BY <2>1, AssembleAgrees
  <2>3. taken \in BOOLEAN /\ content \in BOOLEAN
    OBVIOUS
  <2>4. taken = content
    <3> HIDE DEF taken, content
    <3> QED
      BY <2>2, <2>3
  <2> QED
    BY <2>4, Zenon DEF HostsAgree
<1> QED
  BY <1>1, <1>2, PTL

-----------------------------------------------------------------------------
(* What a host has checked by the time it listens.                          *)

Passed(name) == \E k \in DOMAIN Stages : Stages[k] = name /\ k < stage

(* The stages a host has passed found no fault, and what they left behind   *)
(* is still there.                                                          *)
Found ==
  /\ Passed("schema") => FromJson(doc) = "ok"
  /\ Passed("resolver") => (HasCallback \/ Unmapped(doc) = {})
  /\ Passed("resolve") => ResolveFault = "ok" /\ resolved = Resolved
  /\ Passed("client") => ClientFault = "ok"

(* A host that reads a document builds of it and nothing else.              *)
Declared ==
  host # "rust" => builder.blocks = doc.blocks /\ builder.pending = doc.actions /\ builder.actions = <<>>

ReadyInv == StartupInv /\ Declared /\ Found

(* Only a Rust program has the stage in which the builder is called.        *)
LEMMA BuildingIsRust ==
  ASSUME host \in Hosts, At("building")
  PROVE  host = "rust"
<1>0. host \in {"rust", "node", "python", "serve"}
  BY InputsAssumption
<1>1. stage \in DOMAIN Stages /\ Stages[stage] = "building"
  BY DEF At
<1>2. CASE host = "node"
  BY <1>1, <1>2 DEF Stages
<1>3. CASE host = "python"
  BY <1>1, <1>3 DEF Stages
<1>4. CASE host = "serve"
  BY <1>1, <1>4 DEF Stages
<1> QED
  BY <1>0, <1>2, <1>3, <1>4

(* A stage becomes a passed one by the step that checks it and finds no     *)
(* fault.                                                                   *)
LEMMA PassedNext ==
  ASSUME StartupInv, NEW at, At(at), NEW found, Checked(found), UNCHANGED host, NEW name, Passed(name)'
  PROVE  Passed(name) \/ (name = at /\ found = "ok")
<1>1. Stages' = Stages
  BY DEF Stages
<1>2. PICK k \in DOMAIN Stages : Stages[k] = name /\ k < stage'
  BY <1>1 DEF Passed
<1>3. stage \in Nat /\ Stages[stage] = at /\ k \in Nat
  BY StagesAre DEF StartupInv, At
<1>4. CASE found # "ok"
  BY <1>2, <1>4 DEF Checked, Passed
<1>5. CASE found = "ok"
  <2>1. stage' = stage + 1
    BY <1>5 DEF Checked
  <2>2. k < stage \/ k = stage
    BY <1>2, <1>3, <2>1
  <2> QED
    BY <1>2, <1>3, <1>5, <2>2 DEF Passed
<1> QED
  BY <1>4, <1>5

(* What a stage checks is a matter of the input alone.                      *)
LEMMA InputSays ==
  ASSUME UNCHANGED <<host, input>>
  PROVE  /\ doc' = doc /\ config' = config /\ HasCallback' = HasCallback /\ Stages' = Stages
         /\ ResolveFault' = ResolveFault /\ Resolved' = Resolved /\ ClientFault' = ClientFault
<1>1. /\ doc' = doc /\ config' = config /\ HasCallback' = HasCallback /\ Stages' = Stages
  BY DEF doc, config, HasCallback, Stages
<1>2. ResolveFault' = ResolveFault /\ Resolved' = Resolved /\ ClientFault' = ClientFault
  <2>1. input' = input
    OBVIOUS
  <2>2. ClientFault' = ClientFault
    BY <2>1 DEF ClientFault, doc, config
  <2>3. ResolveFault' = ResolveFault
    <3>1. doc' = doc /\ config' = config
      BY <1>1
    <3>2. ASSUME NEW id, NEW field
          PROVE  Template(id, field)' = Template(id, field)
      BY <3>1 DEF Template
    <3>3. ASSUME NEW def
          PROVE  Uncovered(def)' = Uncovered(def)
      <4>1. RequiredSlots(def)' = RequiredSlots(def)
        BY <3>1 DEF RequiredSlots
      <4>2. Slots(def.id)' = Slots(def.id)
        BY <3>1 DEF Slots
      <4>3. Template(def.id, "build_slots")' = Template(def.id, "build_slots")
        BY <3>2
      <4> QED
        BY <4>1, <4>2, <4>3 DEF Uncovered
    <3>4. ASSUME NEW i
          PROVE  ActionFault(i)' = ActionFault(i)
      BY <3>1, <3>2, <3>3, Zenon DEF ActionFault
    <3>5. FirstFault([i \in DOMAIN doc.actions |-> ActionFault(i)])' = FirstFault([i \in DOMAIN doc.actions |-> ActionFault(i)])
      <4>1. [i \in DOMAIN doc.actions |-> ActionFault(i)]' = [i \in DOMAIN doc.actions |-> ActionFault(i)]
        BY <3>1, <3>4, Zenon
      <4> QED
        BY <4>1, Zenon DEF FirstFault
    <3> QED
      BY <2>1, <3>1, <3>5 DEF ResolveFault, Parses
  <2>4. Resolved' = Resolved
    BY <2>1 DEF Resolved, Template, Slots, doc, config
  <2> QED
    BY <2>2, <2>3, <2>4
<1> QED
  BY <1>1, <1>2

(* A stage that leaves the input alone keeps what was found, if it finds    *)
(* what it stands for.                                                      *)
LEMMA FoundKept ==
  ASSUME StartupInv, Found, NEW at, At(at), NEW found, Checked(found), UNCHANGED <<host, input>>,
         resolved' = resolved \/ (at = "resolve" /\ (found # "ok" => resolved' = resolved)),
         at = "schema" /\ found = "ok" => FromJson(doc) = "ok",
         at = "resolver" /\ found = "ok" => (HasCallback \/ Unmapped(doc) = {}),
         at = "resolve" /\ found = "ok" => ResolveFault = "ok" /\ resolved' = Resolved,
         at = "client" /\ found = "ok" => ClientFault = "ok"
  PROVE  Found'
<1>1. \A name : Passed(name)' => Passed(name) \/ (name = at /\ found = "ok")
  BY PassedNext
<1>2. doc' = doc /\ HasCallback' = HasCallback
  BY InputSays
<1>3. ResolveFault' = ResolveFault /\ Resolved' = Resolved /\ ClientFault' = ClientFault
  BY InputSays
<1>4. (Passed("schema") => FromJson(doc) = "ok")'
  BY <1>1, <1>2 DEF Found
<1>5. (Passed("resolver") => (HasCallback \/ Unmapped(doc) = {}))'
  BY <1>1, <1>2 DEF Found
<1>6. (Passed("resolve") => ResolveFault = "ok" /\ resolved = Resolved)'
  <2>1. CASE at = "resolve" /\ found = "ok"
    BY <1>3, <2>1
  <2>2. CASE ~(at = "resolve" /\ found = "ok")
    <3>1. resolved' = resolved
      BY <2>2
    <3> QED
      BY <1>1, <1>3, <2>2, <3>1 DEF Found
  <2> QED
    BY <2>1, <2>2
<1>7. (Passed("client") => ClientFault = "ok")'
  BY <1>1, <1>3 DEF Found
<1> QED
  BY <1>4, <1>5, <1>6, <1>7 DEF Found

(* At the start nothing is passed and the builder is the document's.        *)
LEMMA ReadyInit == Init => ReadyInv
<1> SUFFICES ASSUME Init PROVE ReadyInv
  OBVIOUS
<1>1. StartupInv
  BY StartupInit
<1>2. Declared
  <2>1. Read(doc)
    BY <1>1, DocumentsRead DEF StartupInv, doc
  <2> QED
    BY <2>1, FromSchemaWired DEF Init, Declared
<1>3. Found
  <2>1. stage = 1 /\ \A k \in DOMAIN Stages : k \in Nat
    BY <1>1, StagesAre DEF Init, StartupInv
  <2>2. \A k \in DOMAIN Stages : ~(k < stage)
    <3>1. DOMAIN Stages \subseteq 1 .. 10
      <4>1. host \in {"rust", "node", "python", "serve"}
        BY <1>1, InputsAssumption DEF StartupInv
      <4>2. CASE host = "rust"
        BY <4>2 DEF Stages
      <4>3. CASE host = "node"
        BY <4>3 DEF Stages
      <4>4. CASE host = "python"
        BY <4>4 DEF Stages
      <4>5. CASE host = "serve"
        BY <4>5 DEF Stages
      <4> QED
        BY <4>1, <4>2, <4>3, <4>4, <4>5
    <3> QED
      BY <2>1, <3>1
  <2> QED
    BY <2>2 DEF Found, Passed
<1> QED
  BY <1>1, <1>2, <1>3 DEF ReadyInv

(* A stage that only checks keeps the builder.                              *)
LEMMA DeclaredKept ==
  ASSUME Declared, UNCHANGED <<host, input, builder>>
  PROVE  Declared'
BY DEF Declared, doc

(* A stage that finds what no property speaks of.                           *)
LEMMA OtherStage ==
  ASSUME ReadyInv, NEW at, At(at), at \notin {"schema", "resolver", "resolve", "client"},
         NEW found, Checked(found), UNCHANGED <<host, input, resolved>>
  PROVE  Found'
BY FoundKept DEF ReadyInv

(* Every stage keeps what was found before it.                              *)
LEMMA ReadyNext == ReadyInv /\ [Next]_vars => ReadyInv'
<1> SUFFICES ASSUME ReadyInv, [Next]_vars PROVE ReadyInv'
  OBVIOUS
<1>0. StartupInv /\ Declared /\ Found /\ StartupInv'
  BY StartupNext DEF ReadyInv
<1>1. CASE CallFromSchema \/ CallAttach \/ CallBind \/ CallAction \/ CallBlock \/ CallContextParam
  <2>1. At("building") /\ UNCHANGED <<host, input, stage, resolved>>
    BY <1>1 DEF CallFromSchema, CallAttach, CallBind, CallAction, CallBlock, CallContextParam, Call
  <2>2. host = "rust" /\ host' = host
    BY <1>0, <2>1, BuildingIsRust DEF StartupInv
  <2>3. Declared'
    BY <2>2 DEF Declared
  <2>4. Found'
    <3>1. \A name : ~Passed(name)'
      <4>1. DOMAIN Stages = {1, 2} /\ Stages[1] = "building" /\ Stages[2] = "build"
        BY <2>2 DEF Stages
      <4>2. stage = 1
        BY <2>1, <4>1 DEF At
      <4>3. Stages' = Stages
        BY <2>2 DEF Stages
      <4> QED
        BY <2>1, <4>1, <4>2, <4>3 DEF Passed
    <3> QED
      BY <3>1 DEF Found
  <2> QED
    BY <1>0, <2>3, <2>4 DEF ReadyInv
<1>2. CASE Build
  <2>1. At("build") /\ Checked(BuildFault(builder)) /\ UNCHANGED <<host, input, builder, resolved>>
    BY <1>2 DEF Build
  <2> QED
    BY <1>0, <2>1, OtherStage, DeclaredKept DEF ReadyInv
<1>3. CASE Assemble
  <2>1. /\ At("assemble") /\ Checked(AssembleRegistry(doc, input.binding.maps)) /\ UNCHANGED <<host, input, resolved>>
        /\ builder' = WithMaps(doc, input.binding.maps)
    BY <1>3 DEF Assemble
  <2>2. Read(doc)
    BY <1>0, DocumentsRead DEF StartupInv, doc
  <2>3. Declared'
    <3>1. builder'.blocks = doc.blocks /\ builder'.pending = doc.actions /\ builder'.actions = <<>>
      BY <2>1, <2>2, WithMapsWired
    <3> QED
      BY <2>1, <3>1 DEF Declared, doc
  <2> QED
    BY <1>0, <2>1, <2>3, OtherStage DEF ReadyInv
<1>4. CASE AttachRoutes
  <2>1. At("attach") /\ Checked("ok") /\ UNCHANGED <<host, input, resolved>>
    BY <1>4 DEF AttachRoutes
  <2>2. \E s : builder' = [builder EXCEPT !.attachments = s]
    BY <1>4, Zenon DEF AttachRoutes
  <2>3. builder'.blocks = builder.blocks /\ builder'.pending = builder.pending /\ builder'.actions = builder.actions
    BY <1>0, <2>2 DEF StartupInv, Wired
  <2>4. Declared'
    BY <1>0, <2>1, <2>3 DEF Declared, doc
  <2> QED
    BY <1>0, <2>1, <2>4, OtherStage DEF ReadyInv
<1>5. CASE \/ StartBuild \/ ChooseLlm \/ ParseAgentConfig \/ ParseSlotTables
           \/ ParseConfig \/ InitTelemetry \/ ResolveLlm \/ Listen
  <2>1. UNCHANGED <<host, input, builder, resolved>>
    BY <1>5 DEF StartBuild, ChooseLlm, ParseAgentConfig, ParseSlotTables, ParseConfig, InitTelemetry, ResolveLlm, Listen
  <2>2. \E at : at \notin {"schema", "resolver", "resolve", "client"} /\ At(at) /\ \E found : Checked(found)
    <3>1. CASE StartBuild
      BY <3>1, Zenon DEF StartBuild
    <3>2. CASE ChooseLlm
      BY <3>2, Zenon DEF ChooseLlm
    <3>3. CASE ParseAgentConfig
      BY <3>3, Zenon DEF ParseAgentConfig
    <3>4. CASE ParseSlotTables
      BY <3>4, Zenon DEF ParseSlotTables
    <3>5. CASE ParseConfig
      BY <3>5, Zenon DEF ParseConfig
    <3>6. CASE InitTelemetry
      BY <3>6, Zenon DEF InitTelemetry
    <3>7. CASE ResolveLlm
      BY <3>7, Zenon DEF ResolveLlm
    <3>8. CASE Listen
      BY <3>8, Zenon DEF Listen
    <3> QED
      BY <1>5, <3>1, <3>2, <3>3, <3>4, <3>5, <3>6, <3>7, <3>8
  <2> QED
    BY <1>0, <2>1, <2>2, OtherStage, DeclaredKept DEF ReadyInv
<1>6. CASE LoadSchema
  <2>1. At("schema") /\ Checked(FromJson(doc)) /\ UNCHANGED <<host, input, builder, resolved>>
    BY <1>6 DEF LoadSchema
  <2>2. Found'
    BY <1>0, <2>1, FoundKept
  <2> QED
    BY <1>0, <2>1, <2>2, DeclaredKept DEF ReadyInv
<1>7. CASE BuildResolver
  <2> DEFINE found == IF HasCallback \/ Unmapped(doc) = {} THEN "ok" ELSE "UnmappedContextParam"
  <2>1. At("resolver") /\ Checked(found) /\ UNCHANGED <<host, input, builder, resolved>>
    BY <1>7 DEF BuildResolver
  <2>2. found = "ok" => (HasCallback \/ Unmapped(doc) = {})
    OBVIOUS
  <2> HIDE DEF found
  <2>3. Found'
    BY <1>0, <2>1, <2>2, FoundKept
  <2> QED
    BY <1>0, <2>1, <2>3, DeclaredKept DEF ReadyInv
<1>8. CASE ResolveConfig
  <2>1. /\ At("resolve") /\ Checked(ResolveFault) /\ UNCHANGED <<host, input, builder>>
        /\ resolved' = IF ResolveFault = "ok" THEN Resolved ELSE resolved
    BY <1>8 DEF ResolveConfig
  <2>2. Found'
    BY <1>0, <2>1, FoundKept
  <2> QED
    BY <1>0, <2>1, <2>2, DeclaredKept DEF ReadyInv
<1>9. CASE BuildClient
  <2>1. At("client") /\ Checked(ClientFault) /\ UNCHANGED <<host, input, builder, resolved>>
    BY <1>9 DEF BuildClient
  <2>2. Found'
    BY <1>0, <2>1, FoundKept
  <2> QED
    BY <1>0, <2>1, <2>2, DeclaredKept DEF ReadyInv
<1>10. CASE UNCHANGED vars
  <2>1. Declared'
    BY <1>0, <1>10, DeclaredKept DEF vars
  <2>2. Found'
    <3>1. /\ doc' = doc /\ HasCallback' = HasCallback /\ Stages' = Stages
          /\ ResolveFault' = ResolveFault /\ Resolved' = Resolved /\ ClientFault' = ClientFault
      BY <1>10, InputSays DEF vars
    <3>2. \A name : Passed(name)' => Passed(name)
      BY <1>10, <3>1 DEF vars, Passed
    <3>3. resolved' = resolved
      BY <1>10 DEF vars
    <3> QED
      BY <1>0, <3>1, <3>2, <3>3 DEF Found
  <2> QED
    BY <1>0, <2>1, <2>2 DEF ReadyInv
<1> QED
  BY <1>1, <1>2, <1>3, <1>4, <1>5, <1>6, <1>7, <1>8, <1>9, <1>10 DEF Next

(* A valid path of the documents resolves in some context.                  *)
LEMMA PathResolves ==
  ASSUME host \in Hosts, input \in Inputs(host), NEW name \in DOMAIN doc.paths,
         context_path_is_valid(doc.paths[name])
  PROVE  \E c \in Contexts : MappedResolve(doc.paths, name, c) # None
<1> DEFINE path == doc.paths[name]
<1>1. CASE path.key = None /\ path.head \in {"route", "selected_record_id", "view_type"}
  <2>1. PICK c \in Contexts : c.fields[path.head] # None
    BY <1>1, ContextsAssumption
  <2>2. MappedResolve(doc.paths, name, c) = c.fields[path.head]
    BY <1>1, Zenon DEF MappedResolve
  <2> QED
    BY <2>1, <2>2
<1>2. CASE path.key # None /\ path.key # "" /\ path.head \in {"params", "extensions"}
  <2>1. /\ \E c \in Contexts : c.params[path.key] # None
        /\ \E c \in Contexts : c.extensions[path.key] # None
    BY <1>2, ContextsAssumption DEF doc
  <2>2. ASSUME NEW c
        PROVE  /\ path.head = "params" => MappedResolve(doc.paths, name, c) = c.params[path.key]
               /\ path.head = "extensions" => MappedResolve(doc.paths, name, c) = c.extensions[path.key]
    <3>1. MappedResolve(doc.paths, name, c) =
            CASE path.head = "params" -> c.params[path.key]
              [] path.head = "extensions" -> c.extensions[path.key]
              [] OTHER -> None
      BY <1>2, Zenon DEF MappedResolve
    <3> HIDE DEF path
    <3> QED
      BY <3>1
  <2> QED
    BY <1>2, <2>1, <2>2
<1> QED
  BY <1>1, <1>2 DEF context_path_is_valid

(* A host that is up has passed all its stages.                             *)
LEMMA UpPassed ==
  ASSUME StartupInv, Up, NEW name, \E k \in DOMAIN Stages : Stages[k] = name
  PROVE  Passed(name)
<1>1. host \in {"rust", "node", "python", "serve"}
  BY InputsAssumption DEF StartupInv
<1>2. \A k \in DOMAIN Stages : k < stage
  <2>1. stage \in Nat /\ stage > Len(Stages)
    BY DEF StartupInv, Up
  <2>2. CASE host = "rust"
    <3>1. DOMAIN Stages = 1 .. 2 /\ Len(Stages) = 2
      BY <2>2 DEF Stages
    <3> QED
      BY <2>1, <3>1
  <2>3. CASE host = "node"
    <3>1. DOMAIN Stages = 1 .. 6 /\ Len(Stages) = 6
      BY <2>3 DEF Stages
    <3> QED
      BY <2>1, <3>1
  <2>4. CASE host = "python"
    <3>1. DOMAIN Stages = 1 .. 5 /\ Len(Stages) = 5
      BY <2>4 DEF Stages
    <3> QED
      BY <2>1, <3>1
  <2>5. CASE host = "serve"
    <3>1. DOMAIN Stages = 1 .. 10 /\ Len(Stages) = 10
      BY <2>5 DEF Stages
    <3> QED
      BY <2>1, <3>1
  <2> QED
    BY <1>1, <2>2, <2>3, <2>4, <2>5
<1> QED
  BY <1>2 DEF Passed

(* The registry of a host that reads a document has its definitions.        *)
LEMMA RegistryOfDocument ==
  ASSUME ReadyInv, host # "rust", NEW r \in registry.regs
  PROVE  /\ \E i \in DOMAIN doc.actions : r.def = doc.actions[i]
         /\ registry.blocks = {doc.blocks[k] : k \in DOMAIN doc.blocks}
         /\ \A k, l \in DOMAIN doc.blocks : doc.blocks[k].type = doc.blocks[l].type => doc.blocks[k] = doc.blocks[l]
<1>1. registry # NoRegistry
  BY DEF NoRegistry
<1>2. Wired(builder) /\ BuildFault(builder) = "ok" /\ registry = Frozen(builder)
  BY <1>1 DEF ReadyInv, StartupInv, Sealed
<1>3. builder.blocks = doc.blocks /\ builder.pending = doc.actions /\ builder.actions = <<>>
  BY DEF ReadyInv, Declared
<1>4. \E i \in DOMAIN doc.actions : r.def = doc.actions[i]
  <2>1. {x.def : x \in registry.regs} =
          {builder.actions[i].def : i \in DOMAIN builder.actions} \cup {builder.pending[i] : i \in DOMAIN builder.pending}
    BY <1>2, SchemaKept
  <2>2. DOMAIN builder.actions = {}
    BY <1>3, EmptyIs
  <2>3. r.def \in {builder.pending[i] : i \in DOMAIN builder.pending}
    BY <2>1, <2>2
  <2> QED
    BY <1>3, <2>3
<1>5. registry.blocks = {doc.blocks[k] : k \in DOMAIN doc.blocks}
  BY <1>2, <1>3 DEF Frozen
<1>6. \A b, c \in registry.blocks : b.type = c.type => b = c
  BY <1>2, FrozenComplete DEF Complete
<1> QED
  BY <1>4, <1>5, <1>6

(* Each context param of an action resolves in some context.                *)
LEMMA ParamsResolve ==
  ASSUME ReadyInv, Up, host # "rust", ~HasCallback, NEW r \in registry.regs, NEW j \in DOMAIN r.def.params,
         r.def.params[j].source = "context"
  PROVE  \E c \in Contexts : MappedResolve(doc.paths, r.def.params[j].name, c) # None
<1>0. StartupInv /\ Found /\ host \in Hosts /\ input \in Inputs(host)
  BY DEF ReadyInv, StartupInv
<1>1. FromJson(doc) = "ok" /\ Unmapped(doc) = {}
  <2>1. \E k, l \in DOMAIN Stages : Stages[k] = "schema" /\ Stages[l] = "resolver"
    <3>1. host \in {"node", "python", "serve"}
      BY <1>0, InputsAssumption
    <3>2. CASE host = "node"
      <4>1. DOMAIN Stages = 1 .. 6 /\ Stages[1] = "schema" /\ Stages[5] = "resolver"
        BY <3>2 DEF Stages
      <4> QED
        BY <4>1
    <3>3. CASE host = "python"
      <4>1. DOMAIN Stages = 1 .. 5 /\ Stages[1] = "schema" /\ Stages[2] = "resolver"
        BY <3>3 DEF Stages
      <4> QED
        BY <4>1
    <3>4. CASE host = "serve"
      <4>1. DOMAIN Stages = 1 .. 10 /\ Stages[1] = "schema" /\ Stages[9] = "resolver"
        BY <3>4 DEF Stages
      <4> QED
        BY <4>1
    <3> QED
      BY <3>1, <3>2, <3>3, <3>4
  <2>2. Passed("schema") /\ Passed("resolver")
    BY <1>0, <2>1, UpPassed
  <2> QED
    BY <1>0, <2>2 DEF Found
<1>2. PICK i \in DOMAIN doc.actions : r.def = doc.actions[i]
  BY RegistryOfDocument
<1> DEFINE p == r.def.params[j]
<1>3. p \in UNION {{doc.actions[k].params[l] : l \in DOMAIN doc.actions[k].params} : k \in DOMAIN doc.actions}
  BY <1>2
<1>4. p.name \in DOMAIN doc.paths
  BY <1>1, <1>3 DEF Unmapped
<1>5. context_path_is_valid(doc.paths[p.name])
  <2>1. ~\E q \in DOMAIN doc.paths : ~context_path_is_valid(doc.paths[q])
    <3>1. "Parse" # "ok" /\ "UnsupportedVersion" # "ok" /\ "InvalidContextPath" # "ok"
      OBVIOUS
    <3> QED
      BY <1>1, <3>1, Zenon DEF FromJson
  <2> QED
    BY <1>4, <2>1
<1> QED
  BY <1>0, <1>4, <1>5, PathResolves

(* A configuration without a fault accepts every action.                    *)
LEMMA ActionsAccepted ==
  ASSUME host \in Hosts, input \in Inputs(host), ResolveFault = "ok"
  PROVE  \A i \in DOMAIN doc.actions : ActionFault(i) = "ok"
<1> DEFINE f == [i \in DOMAIN doc.actions |-> ActionFault(i)]
<1>1. FirstFault(f) = "ok"
  <2>1. "MissingEnv" # "ok"
    OBVIOUS
  <2> QED
    BY <2>1, Zenon DEF ResolveFault
<1>2. DOMAIN f \subseteq Nat
  <2>1. Read(doc)
    BY DocumentsRead DEF doc
  <2>2. DOMAIN doc.actions = 1 .. Len(doc.actions) /\ Len(doc.actions) \in Nat
    BY <2>1 DEF Read, IsSeq
  <2> QED
    BY <2>2
<1>3. \A i \in DOMAIN f : f[i] = "ok"
  <2> HIDE DEF f
  <2> QED
    BY <1>1, <1>2, FirstFaultOk
<1> QED
  BY <1>3

(* The routes of an action are those of its template.                       *)
LEMMA ResolvedRoutes ==
  ASSUME NEW i \in DOMAIN doc.actions, resolved = Resolved
  PROVE  LET id == doc.actions[i].id
             routes == resolved.actions[id]
         IN /\ routes.execute = Template(id, "execute") /\ routes.dry_run = Template(id, "dry_run")
            /\ routes.build_slots = Template(id, "build_slots") /\ routes.slots = Slots(id)
<1> DEFINE id == doc.actions[i].id
           routes == resolved.actions[id]
           ids == {doc.actions[j].id : j \in DOMAIN doc.actions}
           all == [x \in ids |-> [execute |-> Template(x, "execute"), dry_run |-> Template(x, "dry_run"),
                                  build_slots |-> Template(x, "build_slots"), slots |-> Slots(x)]]
<1>1. resolved.actions = all
  <2>1. resolved = [actions |-> all]
    BY DEF Resolved
  <2> HIDE DEF all
  <2> QED
    BY <2>1
<1>2. id \in ids
  OBVIOUS
<1>3. routes = [execute |-> Template(id, "execute"), dry_run |-> Template(id, "dry_run"),
                build_slots |-> Template(id, "build_slots"), slots |-> Slots(id)]
  <2> HIDE DEF ids, id
  <2> QED
    BY <1>1, <1>2
<1> HIDE DEF routes, id
<1>4. /\ routes.execute = Template(id, "execute") /\ routes.dry_run = Template(id, "dry_run")
      /\ routes.build_slots = Template(id, "build_slots") /\ routes.slots = Slots(id)
  BY <1>3
<1> QED
  BY <1>4 DEF routes, id

(* What the service has checked before it listens.                          *)
LEMMA ServeChecked ==
  ASSUME ReadyInv, Up, host = "serve"
  PROVE  /\ ResolveFault = "ok" /\ resolved = Resolved /\ ClientFault = "ok"
         /\ \A i \in DOMAIN doc.actions : ActionFault(i) = "ok"
<1>0. StartupInv /\ Found /\ host \in Hosts /\ input \in Inputs(host)
  BY DEF ReadyInv, StartupInv
<1>1. DOMAIN Stages = 1 .. 10 /\ Stages[4] = "resolve" /\ Stages[6] = "client"
  BY DEF Stages
<1>2. Passed("resolve") /\ Passed("client")
  BY <1>0, <1>1, UpPassed
<1>3. ResolveFault = "ok" /\ resolved = Resolved /\ ClientFault = "ok"
  BY <1>0, <1>2 DEF Found
<1> QED
  BY <1>0, <1>3, ActionsAccepted

(* Nothing goes out in plaintext to a remote host, nor without a secret,    *)
(* unless the config says so.                                               *)
LEMMA UpstreamGuarded ==
  ASSUME ClientFault = "ok"
  PROVE  /\ config.base_url = "remote_http" => config.danger_allow_remote_http
         /\ "secret" \in input.env \/ config.danger_allow_missing_secret
<1>1. "InvalidBaseUrl" # "ok" /\ "RemotePlaintext" # "ok" /\ "MissingSecret" # "ok"
  OBVIOUS
<1> QED
  BY <1>1, Zenon DEF ClientFault

(* The entries of a config as ConfigAssumption has them.                    *)
LEMMA EntriesAre ==
  ASSUME host = "serve", host \in Hosts, input \in Inputs(host)
  PROVE  /\ \A id \in DOMAIN config.actions : \A field \in {"execute", "dry_run", "build_slots"} :
              config.actions[id][field] = None \/ IsRoute(config.actions[id][field])
         /\ \A id \in DOMAIN config.actions : config.actions[id].slots # None =>
              \A n \in DOMAIN config.actions[id].slots :
                /\ config.actions[id].slots[n].k \in {"const", "param", "preview"}
                /\ config.actions[id].slots[n].k = "const" => config.actions[id].slots[n].of # None
BY ConfigAssumption, Zenon DEF doc, config

(* A route has {action} in it only if the action's own entry has, and names *)
(* another action only if the text it was made of does.                     *)
LEMMA TemplateMeant ==
  ASSUME host = "serve", host \in Hosts, input \in Inputs(host), NEW id,
         NEW field \in {"execute", "dry_run", "build_slots"}, NEW route, route = Template(id, field), route # None
  PROVE  LET texts == {config.actions[e][field] : e \in DOMAIN config.actions \cap {id, "*"}} \ {None}
         IN /\ route.form = "template" => id \in DOMAIN config.actions /\ route = config.actions[id][field]
            /\ route.of \in {None, id} \cup {text.of : text \in texts}
<1> DEFINE own == config.actions[id][field]
           any == config.actions["*"][field]
           texts == {config.actions[e][field] : e \in DOMAIN config.actions \cap {id, "*"}} \ {None}
<1>1. CASE id \in DOMAIN config.actions /\ own # None
  <2>1. route = own
    BY <1>1, Zenon DEF Template
  <2>2. own \in texts
    BY <1>1
  <2> QED
    BY <1>1, <2>1, <2>2
<1>2. CASE ~(id \in DOMAIN config.actions /\ own # None)
  <2>1. "*" \in DOMAIN config.actions /\ any # None /\ route = Substitute(any, id)
    BY <1>2, Zenon DEF Template
  <2>2. any \in texts /\ IsRoute(any)
    BY <2>1, EntriesAre
  <2>3. CASE any.form = "template"
    <3>1. route = [any EXCEPT !.form = "ok", !.of = id]
      BY <2>1, <2>3 DEF Substitute
    <3>2. route.form = "ok" /\ route.of = id
      <4> HIDE DEF any
      <4> QED
        BY <2>2, <3>1 DEF IsRoute
    <3> QED
      BY <3>2
  <2>4. CASE any.form # "template"
    <3>1. route = any
      BY <2>1, <2>4 DEF Substitute
    <3> QED
      BY <2>2, <2>4, <3>1
  <2> QED
    BY <2>3, <2>4
<1> QED
  BY <1>1, <1>2

(* The routes of an accepted action: an execute, a dry run if it mutates,   *)
(* and none that does not parse.                                            *)
LEMMA RoutesAccepted ==
  ASSUME NEW i \in DOMAIN doc.actions, ActionFault(i) = "ok"
  PROVE  LET def == doc.actions[i]
         IN /\ Template(def.id, "execute") # None
            /\ def.mutates => Template(def.id, "dry_run") # None
            /\ Uncovered(def) = {}
            /\ \A field \in {"execute", "dry_run", "build_slots"} :
                 Template(def.id, field) # None => Parses(Template(def.id, field))
<1> DEFINE def == doc.actions[i]
           routes == {Template(def.id, f) : f \in {"execute", "dry_run", "build_slots"}} \ {None}
<1>1. /\ Template(def.id, "execute") # None
      /\ def.mutates => Template(def.id, "dry_run") # None
      /\ Uncovered(def) = {}
      /\ \A r \in routes : Parses(r)
  <2>1. "NoExecuteRoute" # "ok" /\ "NoDryRunRoute" # "ok" /\ "UncoveredSlot" # "ok" /\ "Route" # "ok"
    OBVIOUS
  <2> QED
    BY <2>1, Zenon DEF ActionFault
<1>2. ASSUME NEW field \in {"execute", "dry_run", "build_slots"}, Template(def.id, field) # None
      PROVE  Parses(Template(def.id, field))
  <2>1. Template(def.id, field) \in routes
    BY <1>2
  <2> QED
    BY <1>1, <2>1
<1> QED
  BY <1>1, <1>2

(* The slots a table fills when validation filled every param and the dry   *)
(* run answered.                                                            *)
Filled(def, table) ==
  DeclarativeSlots(table, [n \in {def.params[i].name : i \in DOMAIN def.params} |-> [k |-> "string", v |-> "p"]],
                   [k |-> "string", v |-> "s"])

(* A table of sources that exist fills each slot it has.                    *)
LEMMA TableFills ==
  ASSUME host = "serve", host \in Hosts, input \in Inputs(host), NEW id \in DOMAIN config.actions,
         config.actions[id].slots # None, NEW def, SourcesExist(def, config.actions[id].slots),
         NEW n \in DOMAIN config.actions[id].slots
  PROVE  n \in DOMAIN Filled(def, config.actions[id].slots)
<1> DEFINE table == config.actions[id].slots
           names == {def.params[i].name : i \in DOMAIN def.params}
           p == [k |-> "string", v |-> "p"]
           s == [k |-> "string", v |-> "s"]
           params == [m \in names |-> p]
<1>0. None # p /\ None # s
  BY NoneAssumption
<1>1. table[n].k \in {"const", "param", "preview"} /\ (table[n].k = "const" => table[n].of # None)
  BY EntriesAre
<1>2. /\ table[n].k = "param" => \E i \in DOMAIN def.params : def.params[i].name = table[n].of
      /\ table[n].k = "preview" => table[n].of = "summary"
  <2>1. (CASE table[n].k = "const" -> TRUE
           [] table[n].k = "param" -> \E i \in DOMAIN def.params : def.params[i].name = table[n].of
           [] OTHER -> def.mutates /\ table[n].of = "summary")
    BY Zenon DEF SourcesExist
  <2> HIDE DEF table
  <2> QED
    BY <2>1
<1>3. SlotValue(table[n], params, s) # None
  <2>1. CASE table[n].k = "const"
    <3>1. SlotValue(table[n], params, s) = table[n].of
      <4> HIDE DEF table, params, s
      <4> QED
        BY <2>1 DEF SlotValue
    <3> QED
      BY <1>1, <2>1, <3>1
  <2>2. CASE table[n].k = "param"
    <3>1. table[n].of \in names
      BY <1>2, <2>2
    <3>2. DOMAIN params = names /\ params[table[n].of] = p
      <4> HIDE DEF names, p, table
      <4> QED
        BY <3>1
    <3>3. SlotValue(table[n], params, s) = params[table[n].of]
      <4> HIDE DEF table, params, s, names
      <4> QED
        BY <2>2, <3>1, <3>2 DEF SlotValue
    <3> QED
      BY <1>0, <3>2, <3>3
  <2>3. CASE table[n].k = "preview"
    <3>1. table[n].of = "summary"
      BY <1>2, <2>3
    <3>2. SlotValue(table[n], params, s) = s
      <4> HIDE DEF table, params, s
      <4> QED
        BY <2>3, <3>1 DEF SlotValue
    <3> QED
      BY <1>0, <3>2
  <2> QED
    BY <1>1, <2>1, <2>2, <2>3
<1>4. n \in {m \in DOMAIN table : SlotValue(table[m], params, s) # None}
  BY <1>3
<1>5. DOMAIN DeclarativeSlots(table, params, s) = {m \in DOMAIN table : SlotValue(table[m], params, s) # None}
  <2> HIDE DEF table, params, s
  <2> QED
    BY DEF DeclarativeSlots
<1>6. Filled(def, table) = DeclarativeSlots(table, params, s)
  BY DEF Filled
<1> QED
  BY <1>4, <1>5, <1>6

(* The required slots are those of the action's block: the first of its     *)
(* type is the only one.                                                    *)
LEMMA RequiredAre ==
  ASSUME ReadyInv, NEW def, NEW k \in DOMAIN doc.blocks, doc.blocks[k].type = def.block,
         \A i, j \in DOMAIN doc.blocks : doc.blocks[i].type = doc.blocks[j].type => doc.blocks[i] = doc.blocks[j],
         NEW l \in DOMAIN doc.blocks[k].slots, doc.blocks[k].slots[l].required
  PROVE  doc.blocks[k].slots[l].name \in RequiredSlots(def)
<1> DEFINE blocks == {i \in DOMAIN doc.blocks : doc.blocks[i].type = def.block}
           IsFirst(i) == \A j \in blocks : i <= j
           least == CHOOSE i \in blocks : IsFirst(i)
           first == doc.blocks[least]
<1>1. least \in blocks
  <2>1. k \in blocks /\ blocks \subseteq Nat
    <3>1. Read(doc)
      BY DocumentsRead DEF ReadyInv, StartupInv, doc
    <3>2. DOMAIN doc.blocks = 1 .. Len(doc.blocks) /\ Len(doc.blocks) \in Nat
      BY <3>1, FunctionIsSeq DEF Read, IsSeq
    <3> QED
      BY <3>2
  <2>2. \E i \in blocks : IsFirst(i)
    <3> HIDE DEF blocks
    <3> QED
      BY <2>1, Least
  <2> QED
    BY <2>2
<1>2. first = doc.blocks[k]
  <2>1. least \in DOMAIN doc.blocks /\ doc.blocks[least].type = doc.blocks[k].type
    <3> HIDE DEF least
    <3> QED
      BY <1>1
  <2> HIDE DEF least
  <2> QED
    BY <2>1
<1>3. blocks # {}
  OBVIOUS
<1>4. RequiredSlots(def) = {p.name : p \in {q \in {first.slots[i] : i \in DOMAIN first.slots} : q.required}}
  BY <1>3, Zenon DEF RequiredSlots
<1> HIDE DEF first
<1> QED
  BY <1>2, <1>4

(* A covering table whose sources exist leaves no required slot empty.      *)
LEMMA SlotsFilled ==
  ASSUME ReadyInv, host = "serve", NEW def, Uncovered(def) = {}, Template(def.id, "build_slots") = None,
         \A i, j \in DOMAIN doc.blocks : doc.blocks[i].type = doc.blocks[j].type => doc.blocks[i] = doc.blocks[j],
         NEW table, table = IF Slots(def.id) = None THEN <<>> ELSE Slots(def.id), SourcesExist(def, table),
         NEW k \in DOMAIN doc.blocks, doc.blocks[k].type = def.block,
         NEW slots, slots = Filled(def, table)
  PROVE  {f \in SlotFaults(doc.blocks[k], slots) : f.reason = "missing"} = {}
<1> DEFINE b == doc.blocks[k]
<1>1. ASSUME NEW l \in DOMAIN b.slots, b.slots[l].required
      PROVE  b.slots[l].name \in DOMAIN slots
  <2>1. b.slots[l].name \in RequiredSlots(def)
    BY <1>1, RequiredAre
  <2>2. RequiredSlots(def) \ (IF Slots(def.id) = None THEN {} ELSE DOMAIN Slots(def.id)) = {}
    BY DEF Uncovered
  <2>3. Slots(def.id) # None /\ b.slots[l].name \in DOMAIN Slots(def.id)
    BY <2>1, <2>2
  <2>4. def.id \in DOMAIN config.actions /\ Slots(def.id) = config.actions[def.id].slots
    BY <2>3 DEF Slots
  <2>5. table = config.actions[def.id].slots
    BY <2>3, <2>4
  <2> DEFINE n == b.slots[l].name
  <2>6. host \in Hosts /\ input \in Inputs(host)
    BY DEF ReadyInv, StartupInv
  <2>7. /\ def.id \in DOMAIN config.actions /\ config.actions[def.id].slots # None
        /\ SourcesExist(def, config.actions[def.id].slots) /\ n \in DOMAIN config.actions[def.id].slots
    BY <2>3, <2>4, <2>5
  <2> HIDE DEF n
  <2>8. n \in DOMAIN Filled(def, config.actions[def.id].slots)
    BY <2>6, <2>7, TableFills
  <2>9. n \in DOMAIN slots
    BY <2>5, <2>8
  <2> QED
    BY <2>9 DEF n
<1>2. ASSUME NEW f \in SlotFaults(b, slots), f.reason = "missing"
      PROVE  FALSE
  <2> DEFINE specs == {b.slots[l] : l \in DOMAIN b.slots}
             missing == {q \in specs : q.required /\ q.name \notin DOMAIN slots}
  <2>1. f \in {[slot |-> p.name, reason |-> "missing"] : p \in missing}
    <3>1. \/ f \in {[slot |-> p.name, reason |-> "mistyped"] :
                      p \in {q \in specs : q.name \in DOMAIN slots /\ ~Checks(q.type, slots[q.name])}}
          \/ f \in {[slot |-> p.name, reason |-> "missing"] : p \in missing}
          \/ f \in {[slot |-> n, reason |-> "unknown"] : n \in DOMAIN slots \ {p.name : p \in specs}}
      BY Zenon DEF SlotFaults
    <3> HIDE DEF specs, missing
    <3> QED
      BY <1>2, <3>1
  <2>2. PICK p \in missing : TRUE
    <3> HIDE DEF missing
    <3> QED
      BY <2>1
  <2>3. PICK l \in DOMAIN b.slots : p = b.slots[l]
    BY <2>2
  <2> QED
    BY <1>1, <2>2, <2>3
<1> QED
  BY <1>2

(* What the service says of each action it registered.                      *)
LEMMA ServeReady ==
  ASSUME ReadyInv, Up, host = "serve", NEW r \in registry.regs
  PROVE  LET routes == resolved.actions[r.def.id]
             blocks == {b \in registry.blocks : b.type = r.def.block}
             params == [n \in {r.def.params[i].name : i \in DOMAIN r.def.params} |-> [k |-> "string", v |-> "p"]]
         IN /\ routes.execute # None /\ (r.def.mutates => routes.dry_run # None)
            /\ \A field \in {"execute", "dry_run", "build_slots"} : RouteMeant(r.def.id, field)
            /\ routes.build_slots = None =>
                 LET table == IF routes.slots = None THEN <<>> ELSE routes.slots
                 IN SourcesExist(r.def, table) => \A b \in blocks :
                      {f \in SlotFaults(b, DeclarativeSlots(table, params, [k |-> "string", v |-> "s"])) :
                         f.reason = "missing"} = {}
<1> DEFINE def == r.def
           routes == resolved.actions[def.id]
<1>0. host \in Hosts /\ input \in Inputs(host)
  BY DEF ReadyInv, StartupInv
<1>1. PICK i \in DOMAIN doc.actions : def = doc.actions[i]
  BY RegistryOfDocument
<1>2. /\ registry.blocks = {doc.blocks[k] : k \in DOMAIN doc.blocks}
      /\ \A k, l \in DOMAIN doc.blocks : doc.blocks[k].type = doc.blocks[l].type => doc.blocks[k] = doc.blocks[l]
  BY RegistryOfDocument
<1>3. /\ routes.execute = Template(def.id, "execute") /\ routes.dry_run = Template(def.id, "dry_run")
      /\ routes.build_slots = Template(def.id, "build_slots") /\ routes.slots = Slots(def.id)
  BY <1>1, ServeChecked, ResolvedRoutes
<1>4. /\ Template(def.id, "execute") # None
      /\ def.mutates => Template(def.id, "dry_run") # None
      /\ Uncovered(def) = {}
      /\ \A field \in {"execute", "dry_run", "build_slots"} :
           Template(def.id, field) # None => Parses(Template(def.id, field))
  <2>1. ActionFault(i) = "ok"
    BY ServeChecked
  <2> QED
    BY <1>1, <2>1, RoutesAccepted
<1>5. ASSUME NEW table, table = IF Slots(def.id) = None THEN <<>> ELSE Slots(def.id), SourcesExist(def, table),
             Template(def.id, "build_slots") = None, NEW b \in registry.blocks, b.type = def.block
      PROVE  {f \in SlotFaults(b, Filled(def, table)) : f.reason = "missing"} = {}
  <2>1. PICK k \in DOMAIN doc.blocks : b = doc.blocks[k]
    BY <1>2
  <2> QED
    BY <1>2, <1>4, <1>5, <2>1, SlotsFilled
<1>6. ASSUME NEW field \in {"execute", "dry_run", "build_slots"}
      PROVE  RouteMeant(def.id, field)
  <2> DEFINE route == routes[field]
  <2>1. route = Template(def.id, field)
    BY <1>3
  <2>2. route # None => Parses(route)
    BY <1>4, <2>1
  <2> HIDE DEF route, def
  <2>3. route # None =>
          LET texts == {config.actions[e][field] : e \in DOMAIN config.actions \cap {def.id, "*"}} \ {None}
          IN /\ route.form = "template" => def.id \in DOMAIN config.actions /\ route = config.actions[def.id][field]
             /\ route.of \in {None, def.id} \cup {text.of : text \in texts}
    BY <1>0, <2>1, TemplateMeant
  <2> QED
    BY <2>2, <2>3, Zenon DEF RouteMeant, route
<1> HIDE DEF routes
<1> QED
  BY <1>3, <1>4, <1>5, <1>6 DEF routes, Filled

(* A builder that has for each definition, at its position, an attachment   *)
(* of its id without a conflict and with the dry run it needs, and blocks   *)
(* and ids without a repetition, is built.                                  *)
LEMMA Buildable ==
  ASSUME NEW b, Wired(b), b.actions = <<>>, Len(b.attachments) = Len(b.pending),
         \A i \in DOMAIN b.pending :
           /\ b.attachments[i].id = b.pending[i].id
           /\ b.attachments[i].handler /\ ~(b.attachments[i].slots /\ b.attachments[i].async)
           /\ b.attachments[i].dry_run = b.pending[i].mutates
           /\ \E k \in DOMAIN b.blocks : b.blocks[k].type = b.pending[i].block,
         \A i, j \in DOMAIN b.pending : b.pending[i].id = b.pending[j].id => i = j,
         \A i, j \in DOMAIN b.blocks : b.blocks[i].type = b.blocks[j].type => i = j
  PROVE  BuildFault(b) = "ok"
<1> DEFINE n == Len(b.pending)
           R == Registrations(b)
<1>0. /\ n \in Nat /\ Len(b.attachments) = n /\ DOMAIN b.pending = 1 .. n /\ DOMAIN b.attachments = 1 .. n
      /\ Len(b.blocks) \in Nat /\ DOMAIN b.blocks = 1 .. Len(b.blocks)
  BY FunctionIsSeq DEF Wired, IsSeq
<1>1. ASSUME NEW i \in 1 .. n
      PROVE  Takes(b, i, i)
  <2>1. \A j \in 1 .. (i - 1) : j \in 1 .. n
    <3> HIDE DEF n
    <3> QED
      BY <1>0
  <2>2. {j \in 1 .. (i - 1) : b.attachments[j].id = b.attachments[i].id}
          = {j \in 1 .. (i - 1) : b.pending[j].id = b.pending[i].id}
    BY <1>0, <2>1
  <2>3. Before(b.pending, i) = Before(b.attachments, i)
    BY <2>2 DEF Before
  <2> QED
    BY <1>0, <2>3 DEF Takes
<1>2. \A i \in 1 .. n : Taken(b, i) = i
  <2>1. ASSUME NEW i \in 1 .. n
        PROVE  Taken(b, i) = i
    <3>1. Taken(b, i) \in DOMAIN b.pending /\ Takes(b, i, Taken(b, i))
      BY <1>0, <1>1 DEF Taken
    <3> QED
      BY <1>0, <1>1, <3>1, TakesOnce
  <2> QED
    BY <2>1
<1>3. \A a \in DOMAIN b.attachments : AttachFault(b, a) = "ok"
  <2>1. ASSUME NEW a \in DOMAIN b.attachments
        PROVE  AttachFault(b, a) = "ok"
    <3>1. \E k \in DOMAIN b.pending : Takes(b, a, k)
      BY <1>0, <1>1
    <3>2. b.attachments[a].handler /\ ~(b.attachments[a].slots /\ b.attachments[a].async)
      BY <1>0
    <3> QED
      BY <3>1, <3>2, Zenon DEF AttachFault
  <2> QED
    BY <2>1
<1>4. Unattached(b) = {}
  BY <1>0, <1>1 DEF Unattached
<1>5. \A i \in DOMAIN b.blocks : BlockFault(b, i) = "ok"
  <2>1. ASSUME NEW i \in DOMAIN b.blocks
        PROVE  BlockFault(b, i) = "ok"
    <3>1. \A j \in 1 .. (i - 1) : j \in DOMAIN b.blocks /\ j # i
      BY <1>0
    <3>2. ~\E j \in 1 .. (i - 1) : b.blocks[j].type = b.blocks[i].type
      BY <3>1
    <3> QED
      BY <3>2 DEF BlockFault
  <2> QED
    BY <2>1
<1>6. DOMAIN R = 1 .. n /\ \A i \in 1 .. n : R[i] = Attached(b, i)
  <2> DEFINE m == Len(b.actions)
  <2>1. m = 0
    BY EmptyIs
  <2>2. DOMAIN R = 1 .. m + n /\ \A a \in 1 .. n : R[m + a] = Attached(b, a)
    <3>1. /\ DOMAIN R = 1 .. m + Len(b.attachments)
          /\ \A a \in 1 .. Len(b.attachments) : R[m + a] = Attached(b, a)
      BY RegistrationsAre
    <3>2. Len(b.attachments) = n
      BY <1>0
    <3> HIDE DEF m, n, R
    <3> QED
      BY <3>1, <3>2
  <2> HIDE DEF m, n, R
  <2>3. m + n = n /\ \A a \in 1 .. n : m + a = a
    BY <1>0, <2>1
  <2> QED
    BY <2>2, <2>3
<1>7. \A i \in 1 .. n : R[i].def = b.pending[i] /\ R[i].dry_run = b.attachments[i].dry_run
  <2>1. \A i \in 1 .. n : R[i] = ActionRegistration(b.pending[i], b.attachments[i].dry_run,
                                                    b.attachments[i].slots, b.attachments[i].async)
    <3>1. \A i \in 1 .. n : Attached(b, i) = ActionRegistration(b.pending[Taken(b, i)], b.attachments[i].dry_run,
                                                               b.attachments[i].slots, b.attachments[i].async)
      BY Zenon DEF Attached, Taken
    <3> HIDE DEF R, n
    <3> QED
      BY <1>2, <1>6, <3>1
  <2>2. ASSUME NEW e, NEW dry_run, NEW slots, NEW async
        PROVE  /\ ActionRegistration(e, dry_run, slots, async).def = e
               /\ ActionRegistration(e, dry_run, slots, async).dry_run = dry_run
    BY DEF ActionRegistration
  <2> HIDE DEF R, n
  <2> QED
    BY <2>1, <2>2
<1>8. \A i \in DOMAIN R : RegistrationFault(b, i) = "ok"
  <2>1. ASSUME NEW i \in 1 .. n
        PROVE  RegistrationFault(b, i) = "ok"
    <3> HIDE DEF R
    <3>1. \E k \in DOMAIN b.blocks : b.blocks[k].type = R[i].def.block
      BY <1>0, <1>7
    <3>2. DryRunFault(R[i]) = "ok"
      <4>1. R[i].dry_run = R[i].def.mutates
        BY <1>0, <1>7
      <4> QED
        BY <4>1, Zenon DEF DryRunFault
    <3>3. ~\E j \in 1 .. (i - 1) : R[j].def.id = R[i].def.id
      <4>1. \A j \in 1 .. (i - 1) : j \in 1 .. n /\ j # i
        <5> HIDE DEF n
        <5> QED
          BY <1>0
      <4>2. \A k \in 1 .. n : R[k].def.id = b.pending[k].id
        <5> HIDE DEF n
        <5> QED
          BY <1>7
      <4>3. \A k \in 1 .. n : \A l \in 1 .. n : b.pending[k].id = b.pending[l].id => k = l
        BY <1>0
      <4> HIDE DEF n
      <4> QED
        BY <4>1, <4>2, <4>3
    <3> QED
      BY <3>1, <3>2, <3>3, Zenon DEF RegistrationFault, R
  <2> QED
    BY <1>6, <2>1
<1> DEFINE attaching == [a \in DOMAIN b.attachments |-> AttachFault(b, a)]
           blocks == [i \in DOMAIN b.blocks |-> BlockFault(b, i)]
           registering == [i \in DOMAIN R |-> RegistrationFault(b, i)]
<1>9. FirstFault(attaching) = "ok" /\ FirstFault(blocks) = "ok" /\ FirstFault(registering) = "ok"
  <2>1. ASSUME NEW f, \A i \in DOMAIN f : f[i] = "ok"
        PROVE  FirstFault(f) = "ok"
    BY <2>1, Zenon DEF FirstFault
  <2>2. \A i \in DOMAIN attaching : attaching[i] = "ok"
    BY <1>3
  <2>3. \A i \in DOMAIN blocks : blocks[i] = "ok"
    BY <1>5
  <2>4. \A i \in DOMAIN registering : registering[i] = "ok"
    BY <1>8
  <2> HIDE DEF attaching, blocks, registering
  <2> QED
    BY <2>1, <2>2, <2>3, <2>4
<1> QED
  BY <1>4, <1>9, Zenon DEF BuildFault

(* What a service has attached, and that it refuses only at a stage of its  *)
(* startup, at the build for a fault of the builder.                        *)
RouteAttachments ==
  [i \in DOMAIN doc.actions |-> RouteAttachment(doc.actions[i].id, resolved.actions[doc.actions[i].id])]

RefusalInv ==
  host = "serve" =>
    /\ Passed("attach") => builder.attachments = RouteAttachments
    /\ fault # "ok" => stage \in DOMAIN Stages /\ (Stages[stage] = "build" => BuildFault(builder) # "ok")

(* A stage other than the two that attach and build keeps it.               *)
LEMMA RefusalKept ==
  ASSUME StartupInv, RefusalInv, host = "serve", NEW at, At(at), at \notin {"attach", "build"},
         NEW found, Checked(found), UNCHANGED <<host, input, builder>>,
         resolved' = resolved \/ at = "resolve"
  PROVE  RefusalInv'
<1>1. Stages' = Stages /\ doc' = doc
  BY InputSays
<1>2. (fault # "ok" => stage \in DOMAIN Stages /\ (Stages[stage] = "build" => BuildFault(builder) # "ok"))'
  <2> SUFFICES ASSUME found # "ok"
               PROVE  stage \in DOMAIN Stages /\ Stages[stage] # "build" /\ stage' = stage
    BY <1>1 DEF Checked
  <2> QED
    BY DEF Checked, At
<1>3. (Passed("attach") => builder.attachments = RouteAttachments)'
  <2> SUFFICES ASSUME Passed("attach")'
               PROVE  builder.attachments = RouteAttachments /\ RouteAttachments' = RouteAttachments
    OBVIOUS
  <2>1. Passed("attach")
    BY PassedNext
  <2>2. at # "resolve"
    <3>1. DOMAIN Stages = 1 .. 10 /\ Stages[4] = "resolve" /\ \A k \in 1 .. 10 : (Stages[k] = "resolve" => k = 4) /\ (Stages[k] = "attach" => k = 7)
      BY DEF Stages
    <3>2. stage > 7
      BY <2>1, <3>1 DEF Passed, StartupInv
    <3> QED
      BY <3>1, <3>2 DEF At, StartupInv
  <2>3. RouteAttachments' = RouteAttachments
    BY <1>1, <2>2 DEF RouteAttachments
  <2> QED
    BY <2>1, <2>3 DEF RefusalInv
<1> QED
  BY <1>2, <1>3 DEF RefusalInv

(* At the start nothing is attached and nothing refused.                    *)
LEMMA RefusalInit == Init => RefusalInv
<1> SUFFICES ASSUME Init, host = "serve" PROVE ~Passed("attach") /\ fault = "ok"
  BY DEF RefusalInv
<1>1. DOMAIN Stages = 1 .. 10
  BY DEF Stages
<1> QED
  BY <1>1 DEF Init, Passed

(* No step is another host's.                                              *)
LEMMA HostKept == [Next]_vars => host' = host
<1> SUFFICES ASSUME [Next]_vars PROVE host' = host
  OBVIOUS
<1>1. CASE CallFromSchema \/ CallAttach \/ CallBind \/ CallAction \/ CallBlock \/ CallContextParam
  BY <1>1 DEF CallFromSchema, CallAttach, CallBind, CallAction, CallBlock, CallContextParam, Call
<1>2. CASE StartBuild \/ LoadSchema \/ BuildResolver \/ Build \/ ChooseLlm \/ ParseAgentConfig \/ ParseSlotTables
  BY <1>2 DEF StartBuild, LoadSchema, BuildResolver, Build, ChooseLlm, ParseAgentConfig, ParseSlotTables
<1>3. CASE \/ Assemble \/ ParseConfig \/ InitTelemetry \/ ResolveConfig \/ ResolveLlm \/ BuildClient
           \/ AttachRoutes \/ Listen
  BY <1>3 DEF Assemble, ParseConfig, InitTelemetry, ResolveConfig, ResolveLlm, BuildClient, AttachRoutes, Listen
<1>4. CASE UNCHANGED vars
  BY <1>4 DEF vars
<1> QED
  BY <1>1, <1>2, <1>3, <1>4 DEF Next

(* Every step keeps it.                                                     *)
LEMMA RefusalNext == ReadyInv /\ RefusalInv /\ [Next]_vars => RefusalInv'
<1> SUFFICES ASSUME ReadyInv, RefusalInv, [Next]_vars, host = "serve" PROVE RefusalInv'
  BY HostKept DEF RefusalInv
<1>0. StartupInv /\ host \in Hosts
  BY DEF ReadyInv, StartupInv
<1>1. CASE CallFromSchema \/ CallAttach \/ CallBind \/ CallAction \/ CallBlock \/ CallContextParam
  <2>1. At("building")
    BY <1>1 DEF CallFromSchema, CallAttach, CallBind, CallAction, CallBlock, CallContextParam, Call
  <2> QED
    BY <1>0, <2>1, BuildingIsRust
<1>2. CASE Assemble
  <2>1. At("assemble")
    BY <1>2 DEF Assemble
  <2> QED
    BY <2>1 DEF At, Stages
<1>3. CASE Build
  <2>1. At("build") /\ Checked(BuildFault(builder)) /\ UNCHANGED <<host, input, builder, resolved>>
    BY <1>3 DEF Build
  <2>2. Stages' = Stages /\ doc' = doc
    BY <2>1, InputSays
  <2>3. Passed("attach")' => Passed("attach")
    BY <1>0, <2>1, PassedNext
  <2>4. RouteAttachments' = RouteAttachments
    BY <2>1, <2>2 DEF RouteAttachments
  <2>5. fault' # "ok" => stage' \in DOMAIN Stages /\ BuildFault(builder) # "ok"
    BY <2>1 DEF Checked, At
  <2> QED
    BY <2>1, <2>2, <2>3, <2>4, <2>5 DEF RefusalInv
<1>4. CASE AttachRoutes
  <2>1. /\ At("attach") /\ Checked("ok") /\ UNCHANGED <<host, input, resolved>>
        /\ builder' = [builder EXCEPT !.attachments = RouteAttachments]
    BY <1>4, Zenon DEF AttachRoutes, RouteAttachments
  <2>2. builder'.attachments = RouteAttachments
    <3> DEFINE s == RouteAttachments
    <3>1. builder' = [builder EXCEPT !.attachments = s]
      BY <2>1
    <3> HIDE DEF s
    <3>2. builder'.attachments = s
      BY <1>0, <3>1 DEF StartupInv, Wired
    <3> QED
      BY <3>2 DEF s
  <2>3. doc' = doc
    BY <2>1, InputSays
  <2>4. RouteAttachments' = RouteAttachments
    BY <2>1, <2>3 DEF RouteAttachments
  <2>5. fault' = "ok"
    BY <2>1 DEF Checked
  <2> QED
    BY <2>2, <2>4, <2>5 DEF RefusalInv
<1>5. CASE \/ StartBuild \/ LoadSchema \/ BuildResolver \/ ChooseLlm \/ ParseAgentConfig \/ ParseSlotTables
           \/ ParseConfig \/ InitTelemetry \/ ResolveLlm \/ BuildClient \/ Listen
  <2>1. UNCHANGED <<host, input, builder, resolved>>
    BY <1>5 DEF StartBuild, LoadSchema, BuildResolver, ChooseLlm, ParseAgentConfig, ParseSlotTables,
                ParseConfig, InitTelemetry, ResolveLlm, BuildClient, Listen
  <2>2. \E at : at \notin {"attach", "build"} /\ At(at) /\ \E found : Checked(found)
    <3>1. CASE StartBuild \/ LoadSchema \/ BuildResolver \/ ChooseLlm
      BY <3>1, Zenon DEF StartBuild, LoadSchema, BuildResolver, ChooseLlm
    <3>2. CASE ParseAgentConfig \/ ParseSlotTables \/ ParseConfig \/ InitTelemetry
      BY <3>2, Zenon DEF ParseAgentConfig, ParseSlotTables, ParseConfig, InitTelemetry
    <3>3. CASE ResolveLlm \/ BuildClient \/ Listen
      BY <3>3, Zenon DEF ResolveLlm, BuildClient, Listen
    <3> QED
      BY <1>5, <3>1, <3>2, <3>3
  <2> QED
    BY <1>0, <2>1, <2>2, RefusalKept
<1>6. CASE ResolveConfig
  <2>1. At("resolve") /\ Checked(ResolveFault) /\ UNCHANGED <<host, input, builder>>
    BY <1>6 DEF ResolveConfig
  <2> QED
    BY <1>0, <2>1, RefusalKept
<1>7. CASE UNCHANGED vars
  <2>1. UNCHANGED <<host, input, stage, fault, builder, resolved>>
    BY <1>7 DEF vars
  <2>2. Stages' = Stages /\ doc' = doc
    BY <2>1, InputSays
  <2>3. RouteAttachments' = RouteAttachments /\ Passed("attach")' = Passed("attach")
    BY <2>1, <2>2 DEF RouteAttachments, Passed
  <2> QED
    BY <2>1, <2>2, <2>3 DEF RefusalInv
<1> QED
  BY <1>1, <1>2, <1>3, <1>4, <1>5, <1>6, <1>7 DEF Next

(* A resolved configuration and a document without repetitions or unknown   *)
(* blocks are built, unless a dry run route reaches an action that does not *)
(* mutate.                                                                  *)
LEMMA RefusalHasCause == ReadyInv /\ RefusalInv => RefusedForCause
<1> SUFFICES ASSUME ReadyInv, RefusalInv, host = "serve", fault # "ok", Stages[stage] = "build",
                    \A i, j \in DOMAIN doc.actions : doc.actions[i].id = doc.actions[j].id => i = j,
                    \A i, j \in DOMAIN doc.blocks : doc.blocks[i].type = doc.blocks[j].type => i = j,
                    \A i \in DOMAIN doc.actions :
                      /\ \E j \in DOMAIN doc.blocks : doc.blocks[j].type = doc.actions[i].block
                      /\ doc.actions[i].mutates \/ Template(doc.actions[i].id, "dry_run") = None
             PROVE  FALSE
  BY Zenon DEF RefusedForCause
<1>0. /\ StartupInv /\ Found /\ Wired(builder) /\ host \in Hosts /\ input \in Inputs(host)
      /\ builder.blocks = doc.blocks /\ builder.pending = doc.actions /\ builder.actions = <<>>
  BY DEF ReadyInv, StartupInv, Declared
<1>1. Passed("resolve") /\ Passed("attach") /\ BuildFault(builder) # "ok"
  <2>1. /\ DOMAIN Stages = 1 .. 10 /\ Stages[4] = "resolve" /\ Stages[7] = "attach"
        /\ \A k \in 1 .. 10 : Stages[k] = "build" => k = 8
    BY DEF Stages
  <2>2. stage \in DOMAIN Stages /\ BuildFault(builder) # "ok"
    BY DEF RefusalInv
  <2>3. stage = 8
    BY <2>1, <2>2
  <2> QED
    BY <2>1, <2>2, <2>3 DEF Passed
<1>2. ResolveFault = "ok" /\ resolved = Resolved /\ builder.attachments = RouteAttachments
  BY <1>0, <1>1 DEF Found, RefusalInv
<1>3. Read(doc)
  BY <1>0, DocumentsRead DEF doc
<1>4. Len(doc.actions) \in Nat /\ DOMAIN doc.actions = 1 .. Len(doc.actions)
  BY <1>3 DEF Read, IsSeq
<1>5. ASSUME NEW i \in DOMAIN doc.actions
      PROVE  LET at == builder.attachments[i]
             IN /\ at.id = doc.actions[i].id /\ at.handler /\ ~(at.slots /\ at.async)
                /\ at.dry_run = doc.actions[i].mutates
  <2> DEFINE id == doc.actions[i].id
             routes == resolved.actions[id]
  <2>1. builder.attachments[i] = RouteAttachment(id, routes)
    BY <1>2 DEF RouteAttachments
  <2>2. routes.dry_run = Template(id, "dry_run")
    BY <1>2, ResolvedRoutes
  <2>3. doc.actions[i].mutates => Template(id, "dry_run") # None
    <3>1. ActionFault(i) = "ok"
      BY <1>0, <1>2, ActionsAccepted
    <3> QED
      BY <3>1, RoutesAccepted
  <2>4. doc.actions[i].mutates \in BOOLEAN
    BY <1>3 DEF Read
  <2>5. doc.actions[i].mutates = (routes.dry_run # None)
    BY <2>2, <2>3, <2>4
  <2> HIDE DEF routes, id
  <2>6. /\ RouteAttachment(id, routes).id = id /\ RouteAttachment(id, routes).handler
        /\ RouteAttachment(id, routes).dry_run = (routes.dry_run # None)
        /\ ~(RouteAttachment(id, routes).slots /\ RouteAttachment(id, routes).async)
    BY DEF RouteAttachment
  <2> QED
    BY <2>1, <2>5, <2>6 DEF id
<1>6. Len(builder.attachments) = Len(builder.pending)
  <2> DEFINE n == Len(doc.actions)
             s == RouteAttachments
  <2>1. s = [i \in 1 .. n |-> s[i]]
    BY <1>4 DEF RouteAttachments
  <2> HIDE DEF n, s
  <2>2. Len(s) = n
    BY <1>4, <2>1, FunctionIsSeq DEF n
  <2> QED
    BY <1>0, <1>2, <2>2 DEF n, s
<1>7. BuildFault(builder) = "ok"
  <2> DEFINE b == builder
  <2>1. Wired(b) /\ b.actions = <<>> /\ Len(b.attachments) = Len(b.pending)
    BY <1>0, <1>6
  <2>2. \A i \in DOMAIN b.pending :
          /\ b.attachments[i].id = b.pending[i].id
          /\ b.attachments[i].handler /\ ~(b.attachments[i].slots /\ b.attachments[i].async)
          /\ b.attachments[i].dry_run = b.pending[i].mutates
          /\ \E k \in DOMAIN b.blocks : b.blocks[k].type = b.pending[i].block
    BY <1>0, <1>5
  <2>3. /\ \A i, j \in DOMAIN b.pending : b.pending[i].id = b.pending[j].id => i = j
        /\ \A i, j \in DOMAIN b.blocks : b.blocks[i].type = b.blocks[j].type => i = j
    BY <1>0
  <2> QED
    BY <2>1, <2>2, <2>3, Buildable
<1> QED
  BY <1>1, <1>7

(* A host that is up can propose every action it registered: its context    *)
(* params can resolve, and a service gives each action an execute route, a  *)
(* mutating one a dry run, no route of another action unless its config     *)
(* says so, fills every required slot, and is not reachable in plaintext or *)
(* without its secret by accident. Where the registry refuses what the      *)
(* configuration accepted, the cause is in the document or a dry run route  *)
(* too many (resolve: "every failure names its cause before the service     *)
(* binds"). For every document, config, environment and set of callbacks.   *)
THEOREM ReadyWhenUp == Spec => []ServiceReady
<1>1. Spec => []ReadyInv
  BY ReadyInit, ReadyNext, PTL DEF Spec
<1>2. Spec => []RefusalInv
  BY <1>1, RefusalInit, RefusalNext, PTL DEF Spec
<1>3. ReadyInv => UpIsReady
  <2> SUFFICES ASSUME ReadyInv, Up, host # "rust" PROVE UpIsReady
    BY DEF UpIsReady
  <2>1. ~HasCallback => \A r \in registry.regs : \A i \in DOMAIN r.def.params :
          r.def.params[i].source = "context" =>
            \E c \in Contexts : MappedResolve(doc.paths, r.def.params[i].name, c) # None
    BY ParamsResolve
  <2>2. CASE host # "serve"
    BY <2>1, <2>2 DEF UpIsReady
  <2>3. CASE host = "serve"
    <3>1. /\ config.base_url = "remote_http" => config.danger_allow_remote_http
          /\ "secret" \in input.env \/ config.danger_allow_missing_secret
      BY <2>3, ServeChecked, UpstreamGuarded
    <3> QED
      BY <2>1, <2>3, <3>1, ServeReady DEF UpIsReady
  <2> QED
    BY <2>2, <2>3
<1>4. ReadyInv /\ RefusalInv => ServiceReady
  BY <1>3, RefusalHasCause DEF ServiceReady
<1> QED
  BY <1>1, <1>2, <1>4, PTL

-----------------------------------------------------------------------------
(* The tools and the checks.                                                *)

(* A value that passes a param's check is one its schema admits, and the    *)
(* reverse but for a float without a fraction.                              *)
LEMMA SchemaTells ==
  ASSUME NEW type, type.k \in {"string", "integer", "number", "boolean", "enum", "json"},
         type.k = "enum" => type.allowed # None, NEW v
  PROVE  /\ Checks(type, v) => Conforms(json_schema(type), v)
         /\ Conforms(json_schema(type), v) /\ ~Checks(type, v) => type.k = "integer" /\ v.k = "integral"
<1>1. CASE type.k = "enum"
  <2>1. json_schema(type).type = "string" /\ json_schema(type).enum = type.allowed
    BY <1>1 DEF json_schema
  <2>2. Conforms(json_schema(type), v) <=> (v.k = "string" /\ v.v \in type.allowed)
    BY <1>1, <2>1 DEF Conforms
  <2>3. Checks(type, v) <=> (v.k = "string" /\ v.v \in type.allowed)
    BY <1>1 DEF Checks
  <2> QED
    BY <2>2, <2>3
<1>2. CASE type.k = "json"
  <2>1. json_schema(type).type = "any" /\ json_schema(type).enum = None
    BY <1>2 DEF json_schema
  <2> QED
    BY <1>2, <2>1 DEF Conforms, Checks
<1>3. CASE type.k \in {"string", "integer", "number", "boolean"}
  <2>1. json_schema(type).type = type.k /\ json_schema(type).enum = None
    BY <1>3 DEF json_schema
  <2>2. CASE type.k = "string"
    BY <2>1, <2>2 DEF Conforms, Checks
  <2>3. CASE type.k = "integer"
    BY <2>1, <2>3 DEF Conforms, Checks
  <2>4. CASE type.k = "number"
    BY <2>1, <2>4 DEF Conforms, Checks
  <2>5. CASE type.k = "boolean"
    BY <2>1, <2>5 DEF Conforms, Checks
  <2> QED
    BY <1>3, <2>2, <2>3, <2>4, <2>5
<1> QED
  BY <1>1, <1>2, <1>3

(* Positions of a sequence have a last one.                                 *)
LEMMA Greatest ==
  ASSUME NEW N \in Nat, NEW S, S \subseteq 1 .. N, S # {}
  PROVE  \E i \in S : \A j \in S : j <= i
<1> DEFINE T == {N - i : i \in S}
<1>1. T \subseteq Nat /\ T # {}
  <2>1. PICK i \in S : TRUE
    OBVIOUS
  <2>2. N - i \in T
    OBVIOUS
  <2>3. \A j \in S : N - j \in Nat
    OBVIOUS
  <2> QED
    BY <2>2, <2>3
<1>2. PICK k \in T : \A l \in T : k <= l
  <2> HIDE DEF T
  <2> QED
    BY <1>1, Least
<1>3. PICK i \in S : k = N - i
  OBVIOUS
<1>4. ASSUME NEW j \in S
      PROVE  j <= i
  <2>1. N - j \in T
    OBVIOUS
  <2>2. N - i <= N - j
    BY <1>2, <1>3, <2>1
  <2> QED
    BY <2>2
<1> QED
  BY <1>4

(* What a tool tells of a definition: the type of the last param of a name, *)
(* which is the param of the name if there is one only.                     *)
LEMMA ToolIs ==
  ASSUME NEW def, IsDefinition(def)
  PROVE  /\ DOMAIN ToolDef(def).properties = ShownNames(def)
         /\ ToolDef(def).required = {def.params[i].name : i \in {j \in Shown(def) : def.params[j].required}}
         /\ \A n \in ShownNames(def) : \E i \in Shown(def) :
              def.params[i].name = n /\ ToolDef(def).properties[n] = json_schema(def.params[i].type)
<1> DEFINE named(n) == {i \in Shown(def) : def.params[i].name = n}
           last(n) == CHOOSE i \in named(n) : \A j \in named(n) : j <= i
           props == [n \in ShownNames(def) |-> json_schema(def.params[last(n)].type)]
           required == {def.params[i].name : i \in {j \in Shown(def) : def.params[j].required}}
<1>1. ToolDef(def) = [name |-> def.id, properties |-> props, required |-> required]
  BY Zenon DEF ToolDef
<1>2. ASSUME NEW n \in ShownNames(def)
      PROVE  last(n) \in Shown(def) /\ def.params[last(n)].name = n
  <2>1. DOMAIN def.params = 1 .. Len(def.params) /\ Len(def.params) \in Nat
    BY SeqIs DEF IsDefinition, IsSeq
  <2>2. named(n) \subseteq 1 .. Len(def.params) /\ named(n) # {}
    BY <2>1 DEF Shown, ShownNames
  <2>3. \E i \in named(n) : \A j \in named(n) : j <= i
    <3> HIDE DEF named
    <3> QED
      BY <2>1, <2>2, Greatest
  <2>4. last(n) \in named(n)
    <3> HIDE DEF named
    <3> QED
      BY <2>3, Zenon
  <2> HIDE DEF last
  <2> QED
    BY <2>4
<1>3. ToolDef(def).properties = props /\ ToolDef(def).required = required
  <2> HIDE DEF props, required
  <2> QED
    BY <1>1
<1> HIDE DEF last
<1>4. DOMAIN props = ShownNames(def) /\ \A n \in ShownNames(def) : props[n] = json_schema(def.params[last(n)].type)
  OBVIOUS
<1> HIDE DEF props
<1> QED
  BY <1>2, <1>3, <1>4

(* What ToolsTellValidation says of one call.                               *)
Tells(def, given, args) ==
  /\ FillVerdict(def, args) = "ok" => Admits(ToolDef(def), args) /\ given \subseteq DOMAIN ToolDef(def).properties
  /\ FillVerdict(def, args) = "UnknownParam" =>
       Admits(ToolDef(def), args) /\ ~(given \subseteq DOMAIN ToolDef(def).properties)
  /\ FillVerdict(def, args) = "misfit" /\ Admits(ToolDef(def), args) => StricterThanShown(def, args)

(* A call without a misfit is one the schema admits; a misfit it admits is  *)
(* where the checks are stricter.                                           *)
LEMMA ToolTells ==
  ASSUME NEW def, IsDefinition(def), NEW given, NEW args, DOMAIN args = given
  PROVE  Tells(def, given, args)
<1> DEFINE P(i) == def.params[i]
           tool == ToolDef(def)
<1>1. /\ DOMAIN tool.properties = ShownNames(def)
      /\ tool.required = {P(i).name : i \in {j \in Shown(def) : P(j).required}}
      /\ \A n \in ShownNames(def) : \E i \in Shown(def) : P(i).name = n /\ tool.properties[n] = json_schema(P(i).type)
  BY ToolIs
<1>2. \A i \in Shown(def) : \A v :
        /\ Checks(P(i).type, v) => Conforms(json_schema(P(i).type), v)
        /\ Conforms(json_schema(P(i).type), v) /\ ~Checks(P(i).type, v) => P(i).type.k = "integer" /\ v.k = "integral"
  <2> SUFFICES ASSUME NEW i \in Shown(def), NEW v
               PROVE  /\ Checks(P(i).type, v) => Conforms(json_schema(P(i).type), v)
                      /\ Conforms(json_schema(P(i).type), v) /\ ~Checks(P(i).type, v)
                           => P(i).type.k = "integer" /\ v.k = "integral"
    OBVIOUS
  <2>1. /\ P(i).type.k \in {"string", "integer", "number", "boolean", "enum", "json"}
        /\ P(i).type.k = "enum" => P(i).type.allowed # None
    BY DEF IsDefinition, Shown
  <2> QED
    BY <2>1, SchemaTells
<1>3. \A i \in Shown(def) : P(i).name \in ShownNames(def)
  BY DEF ShownNames
<1> HIDE DEF tool
<1>4. ASSUME Misfits(def, args) = {}
      PROVE  Admits(tool, args)
  <2>1. \A i \in Shown(def) :
          /\ P(i).name \in given => Checks(P(i).type, args[P(i).name])
          /\ P(i).required => P(i).name \in given
    BY <1>4 DEF Misfits
  <2>2. tool.required \subseteq given
    <3> HIDE DEF P
    <3> QED
      BY <1>1, <2>1
  <2>3. ASSUME NEW n \in given, n \in ShownNames(def)
        PROVE  Conforms(tool.properties[n], args[n])
    <3>1. PICK i \in Shown(def) : P(i).name = n /\ tool.properties[n] = json_schema(P(i).type)
      BY <1>1, <2>3
    <3>2. Checks(P(i).type, args[n])
      BY <2>1, <3>1
    <3> HIDE DEF P
    <3> QED
      BY <1>2, <3>1, <3>2
  <2> QED
    BY <1>1, <2>2, <2>3 DEF Admits
<1>5. ASSUME Misfits(def, args) # {}, Admits(tool, args), ~StricterThanShown(def, args)
      PROVE  FALSE
  <2>1. PICK i \in Shown(def) : IF P(i).name \in given THEN ~Checks(P(i).type, args[P(i).name]) ELSE P(i).required
    BY <1>5 DEF Misfits
  <2>2. tool.properties[P(i).name] = json_schema(P(i).type)
    <3>1. PICK j \in Shown(def) : P(j).name = P(i).name /\ tool.properties[P(i).name] = json_schema(P(j).type)
      BY <1>1, <1>3
    <3>2. i = j
      BY <1>5, <3>1 DEF StricterThanShown
    <3> QED
      BY <3>1, <3>2
  <2>3. CASE P(i).name \in given
    <3>1. Conforms(json_schema(P(i).type), args[P(i).name])
      BY <1>1, <1>3, <1>5, <2>2, <2>3 DEF Admits
    <3>2. ~Checks(P(i).type, args[P(i).name])
      BY <2>1, <2>3
    <3>3. P(i).type.k = "integer" /\ args[P(i).name].k = "integral"
      BY <1>2, <3>1, <3>2, Zenon
    <3> QED
      BY <1>5, <2>3, <3>3 DEF StricterThanShown
  <2>4. CASE P(i).name \notin given
    <3>1. P(i).required
      BY <2>1, <2>4
    <3>2. P(i).name \in tool.required
      BY <1>1, <3>1
    <3> QED
      BY <1>5, <2>4, <3>2 DEF Admits
  <2> QED
    BY <2>3, <2>4
<1>6. /\ FillVerdict(def, args) = "ok" => Misfits(def, args) = {} /\ given \subseteq ShownNames(def)
      /\ FillVerdict(def, args) = "UnknownParam" => Misfits(def, args) = {} /\ ~(given \subseteq ShownNames(def))
      /\ FillVerdict(def, args) = "misfit" => Misfits(def, args) # {}
  BY DEF FillVerdict
<1>7. /\ FillVerdict(def, args) = "ok" => Admits(tool, args) /\ given \subseteq DOMAIN tool.properties
      /\ FillVerdict(def, args) = "UnknownParam" => Admits(tool, args) /\ ~(given \subseteq DOMAIN tool.properties)
      /\ FillVerdict(def, args) = "misfit" /\ Admits(tool, args) => StricterThanShown(def, args)
  BY <1>1, <1>4, <1>5, <1>6, Zenon
<1> QED
  BY <1>7, Zenon DEF Tells, tool

(* Whatever a builder holds is a definition.                                *)
Defined(b) ==
  /\ \A k \in DOMAIN b.pending : IsDefinition(b.pending[k])
  /\ \A i \in DOMAIN b.actions : IsDefinition(b.actions[i].def)

(* The definitions of a document.                                           *)
LEMMA DocumentDefined ==
  ASSUME StartupInv
  PROVE  \A b : b.pending = doc.actions /\ b.actions = <<>> => Defined(b)
<1>1. \A k \in DOMAIN doc.actions : IsDefinition(doc.actions[k])
  BY DefinitionsAssumption DEF StartupInv, doc
<1>2. DOMAIN <<>> = {}
  BY EmptyIs
<1> QED
  BY <1>1, <1>2 DEF Defined

(* A builder call adds none but those of the program.                       *)
LEMMA CallsDefined ==
  ASSUME NEW b, Wired(b), Defined(b)
  PROVE  /\ \A s : Defined([b EXCEPT !.attachments = s])
         /\ \A s : Defined([b EXCEPT !.blocks = s])
         /\ \A s : Defined([b EXCEPT !.context_params = s])
         /\ \A def \in Extras.actions : \A dry_run, slots : Defined(Action(b, def, dry_run, slots))
<1>1. ASSUME NEW s
      PROVE  /\ Defined([b EXCEPT !.attachments = s]) /\ Defined([b EXCEPT !.blocks = s])
             /\ Defined([b EXCEPT !.context_params = s])
  <2> DEFINE c == [b EXCEPT !.attachments = s]
             d == [b EXCEPT !.blocks = s]
             e == [b EXCEPT !.context_params = s]
  <2>1. /\ c.pending = b.pending /\ c.actions = b.actions
        /\ d.pending = b.pending /\ d.actions = b.actions
        /\ e.pending = b.pending /\ e.actions = b.actions
    BY DEF Wired
  <2> HIDE DEF c, d, e
  <2>2. Defined(c) /\ Defined(d) /\ Defined(e)
    BY <2>1 DEF Defined
  <2> QED
    BY <2>2 DEF c, d, e
<1>2. ASSUME NEW def \in Extras.actions, NEW dry_run, NEW slots
      PROVE  Defined(Action(b, def, dry_run, slots))
  <2> DEFINE e == ActionRegistration(def, dry_run, slots, FALSE)
             s == Append(b.actions, e)
             n == Len(b.actions)
             c == [b EXCEPT !.actions = s]
  <2>1. Action(b, def, dry_run, slots) = c
    BY DEF Action
  <2>2. e.def = def
    BY DEF ActionRegistration
  <2>3. n \in Nat /\ IsSeq(b.actions) /\ DOMAIN b.actions = 1 .. n
    BY FunctionIsSeq DEF Wired, IsSeq
  <2> HIDE DEF e
  <2>4. DOMAIN s = 1 .. n + 1 /\ (\A i \in 1 .. n : s[i] = b.actions[i]) /\ s[n + 1] = e
    BY <2>3, AppendIs
  <2> HIDE DEF s, n
  <2>5. c.pending = b.pending /\ c.actions = s
    BY DEF Wired
  <2> HIDE DEF c
  <2>6. \A i \in DOMAIN s : i \in 1 .. n \/ i = n + 1
    BY <2>3, <2>4
  <2>7. IsDefinition(def)
    BY DefinitionsAssumption
  <2>8. \A i \in DOMAIN s : IsDefinition(s[i].def)
    BY <2>2, <2>3, <2>4, <2>6, <2>7 DEF Defined
  <2>9. Defined(c)
    BY <2>5, <2>8 DEF Defined
  <2> QED
    BY <2>1, <2>9
<1> QED
  BY <1>1, <1>2

(* In every state the builder holds definitions.                            *)
LEMMA DefinedNext == StartupInv /\ Defined(builder) /\ [Next]_vars => Defined(builder)'
<1> SUFFICES ASSUME StartupInv, Defined(builder), [Next]_vars PROVE Defined(builder')
  OBVIOUS
<1>0. Wired(builder)
  BY DEF StartupInv
<1>1. CASE CallFromSchema
  <2>1. Read(doc)
    BY DocumentsRead DEF StartupInv, doc
  <2>2. FromSchema(doc).pending = doc.actions /\ FromSchema(doc).actions = <<>> /\ builder' = FromSchema(doc)
    BY <1>1, <2>1, FromSchemaWired DEF CallFromSchema
  <2> QED
    BY <2>2, DocumentDefined
<1>2. CASE CallAttach
  <2>1. PICK s : builder' = [builder EXCEPT !.attachments = s]
    BY <1>2, Zenon DEF CallAttach, Call, Attach
  <2>2. Defined([builder EXCEPT !.attachments = s])
    BY <1>0, CallsDefined
  <2> QED
    BY <2>1, <2>2, Zenon
<1>3. CASE CallBind
  <2>1. PICK s : builder' = [builder EXCEPT !.attachments = s]
    BY <1>3, Zenon DEF CallBind, Call, Bind
  <2>2. Defined([builder EXCEPT !.attachments = s])
    BY <1>0, CallsDefined
  <2> QED
    BY <2>1, <2>2, Zenon
<1>4. CASE CallAction
  <2>1. PICK def \in Extras.actions, dry_run \in BOOLEAN : builder' = Action(builder, def, dry_run, FALSE)
    BY <1>4, Zenon DEF CallAction, Call
  <2>2. Defined(Action(builder, def, dry_run, FALSE))
    BY <1>0, CallsDefined
  <2> QED
    BY <2>1, <2>2
<1>5. CASE CallBlock
  <2>1. PICK s : builder' = [builder EXCEPT !.blocks = s]
    BY <1>5, Zenon DEF CallBlock, Call, Block
  <2>2. Defined([builder EXCEPT !.blocks = s])
    BY <1>0, CallsDefined
  <2> QED
    BY <2>1, <2>2, Zenon
<1>9. CASE CallContextParam
  <2>1. PICK s : builder' = [builder EXCEPT !.context_params = s]
    BY <1>9, Zenon DEF CallContextParam, Call, ContextParam
  <2>2. Defined([builder EXCEPT !.context_params = s])
    BY <1>0, CallsDefined
  <2> QED
    BY <2>1, <2>2, Zenon
<1>6. CASE Assemble
  <2>1. Read(doc)
    BY DocumentsRead DEF StartupInv, doc
  <2>2. builder'.pending = doc.actions /\ builder'.actions = <<>>
    BY <1>6, <2>1, WithMapsWired DEF Assemble
  <2> QED
    BY <2>2, DocumentDefined
<1>7. CASE AttachRoutes
  <2>1. PICK s : builder' = [builder EXCEPT !.attachments = s]
    BY <1>7, Zenon DEF AttachRoutes
  <2>2. Defined([builder EXCEPT !.attachments = s])
    BY <1>0, CallsDefined
  <2> QED
    BY <2>1, <2>2, Zenon
<1>8. CASE \/ StartBuild \/ LoadSchema \/ BuildResolver \/ Build \/ ChooseLlm \/ ParseAgentConfig \/ ParseSlotTables
           \/ ParseConfig \/ InitTelemetry \/ ResolveConfig \/ ResolveLlm \/ BuildClient \/ Listen \/ UNCHANGED vars
  <2>1. builder' = builder
    BY <1>8 DEF StartBuild, LoadSchema, BuildResolver, Build, ChooseLlm, ParseAgentConfig, ParseSlotTables,
                ParseConfig, InitTelemetry, ResolveConfig, ResolveLlm, BuildClient, Listen, vars
  <2> QED
    BY <2>1
<1> QED
  BY <1>1, <1>2, <1>3, <1>4, <1>5, <1>6, <1>7, <1>8, <1>9 DEF Next

(* Every call of every registry a host froze, for every set of values and   *)
(* of keys: what validation accepts the schema admits and shows; what the   *)
(* schema admits and validation refuses has a key that is not shown, or a   *)
(* value where the checks are stricter (tool_defs, ValueType, fill_params). *)
THEOREM ToolsAgree == Spec => []ToolsTellValidation
<1>1. Init => Defined(builder)
  <2> SUFFICES ASSUME Init PROVE Defined(builder)
    OBVIOUS
  <2>1. StartupInv
    BY StartupInit
  <2>2. Read(doc)
    BY <2>1, DocumentsRead DEF StartupInv, doc
  <2>3. FromSchema(doc).pending = doc.actions /\ FromSchema(doc).actions = <<>>
    BY <2>2, FromSchemaWired
  <2>4. Defined(FromSchema(doc))
    BY <2>1, <2>3, DocumentDefined
  <2>5. Defined(EmptyBuilder)
    BY EmptyIs DEF Defined, EmptyBuilder
  <2> QED
    BY <2>4, <2>5 DEF Init
<1>2. Spec => [](StartupInv /\ Defined(builder))
  BY <1>1, StartupInit, StartupNext, DefinedNext, PTL DEF Spec
<1>3. StartupInv /\ Defined(builder) => ToolsTellValidation
  <2> SUFFICES ASSUME StartupInv, Defined(builder), NEW r \in registry.regs, NEW given, NEW args \in [given -> Values]
               PROVE  Tells(r.def, given, args)
    BY Zenon DEF ToolsTellValidation, Tells
  <2>1. IsDefinition(r.def)
    <3>1. registry # NoRegistry
      BY DEF NoRegistry
    <3>2. Wired(builder) /\ BuildFault(builder) = "ok" /\ registry = Frozen(builder)
      BY <3>1 DEF StartupInv, Sealed
    <3>3. {x.def : x \in registry.regs} =
            {builder.actions[i].def : i \in DOMAIN builder.actions} \cup {builder.pending[i] : i \in DOMAIN builder.pending}
      BY <3>2, SchemaKept
    <3> QED
      BY <3>3 DEF Defined
  <2>2. DOMAIN args = given
    OBVIOUS
  <2> QED
    BY <2>1, <2>2, ToolTells
<1> QED
  BY <1>2, <1>3, PTL
=============================================================================
