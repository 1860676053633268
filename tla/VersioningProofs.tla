-------------------------- MODULE VersioningProofs --------------------------
(***************************************************************************)
(* Theorems about the dataset registry, for any number of registrars and   *)
(* stages, any configured order and any sequence of contents.              *)
(*                                                                         *)
(* Registrars lose each other's updates and may tear the document, but     *)
(* every document in flight (loaded, changed, half-way to the disk or      *)
(* published) is well formed, and that is what the theorems about many     *)
(* registrars rest on.                                                     *)
(*                                                                         *)
(* With one registrar the document can always be read and never forgets a  *)
(* registered version, wherever the registrar crashes: what _write_json's  *)
(* temporary file and rename give when nobody else uses them. Registered   *)
(* with all others, a current version's parent has the content the         *)
(* artifact was produced from. And while no content comes back, the one    *)
(* current version of a stage is its newest, so a full registration        *)
(* verifies and has a lineage.                                             *)
(***************************************************************************)
EXTENDS Versioning, TLAPS, WellFoundedInduction

-----------------------------------------------------------------------------
(***************************************************************************)
(* Least and greatest numbers of a set.                                    *)
(***************************************************************************)

\* A nonempty set of natural numbers has a least element.
LEMMA LeastExists ==
    ASSUME NEW S \in SUBSET Nat, S # {}
    PROVE  \E m \in S : \A x \in S : m <= x
<1> DEFINE R == OpToRel(<, Nat)
<1>1. IsWellFoundedOn(R, Nat)
  BY NatLessThanWellFounded
<1>2. \A x, y \in Nat : y < x => <<y, x>> \in R
  BY DEF OpToRel
<1>3. PICK x \in S : \A y \in S : ~ (<<y, x>> \in R)
  BY <1>1, WFMin
<1> HIDE DEF R
<1>4. \A y \in S : ~ (y < x)
  BY <1>2, <1>3
<1> QED
  BY <1>4

\* A nonempty bounded set of natural numbers has a greatest element.
LEMMA GreatestExists ==
    ASSUME NEW S \in SUBSET Nat, S # {}, NEW K \in Nat, \A x \in S : x <= K
    PROVE  \E m \in S : \A x \in S : x <= m
<1> DEFINE U == {u \in Nat : \A x \in S : x <= u}
<1>1. PICK m \in U : \A u \in U : m <= u
  BY LeastExists
<1>2. m \in S
  <2> SUFFICES ASSUME m \notin S PROVE FALSE
    OBVIOUS
  <2>1. \A x \in S : x <= m - 1
    OBVIOUS
  <2>2. PICK x \in S : TRUE
    OBVIOUS
  <2>3. m - 1 \in U
    BY <2>1, <2>2
  <2> QED
    BY <1>1, <2>3
<1> QED
  BY <1>1, <1>2
-----------------------------------------------------------------------------
(***************************************************************************)
(* Well-formed documents.                                                  *)
(***************************************************************************)

\* Version v of stage s is registered in the document.
Has(doc, s, v) ==
    \E n \in 1..Len(doc) : doc[n].name = s /\ doc[n].version = v

\* A version names one content and a content has one version.
Unique(doc) ==
    \A m, n \in 1..Len(doc) :
        doc[m].name = doc[n].name /\ m # n =>
            doc[m].version # doc[n].version /\ doc[m].sum # doc[n].sum

\* The parent of an entry is registered.
Parented(doc) ==
    \A n \in 1..Len(doc) : doc[n].parent # 0 =>
        doc[n].name # Root /\ Has(doc, Parent[doc[n].name], doc[n].parent)

\* The versions of a document are bounded, so that there is a greatest one.
Bounded(doc) == \E K \in Nat : \A n \in 1..Len(doc) : doc[n].version <= K

GoodDoc(doc) ==
    doc \in Seq(DocEntries) /\ Unique(doc) /\ Parented(doc) /\ Bounded(doc)

\* The empty document is well formed.
LEMMA EmptyDocGood == GoodDoc(<<>>)
  BY DEF GoodDoc, Unique, Parented, Bounded

\* The positions of a stage's entries, and the entries themselves.
LEMMA MatchesIn ==
    ASSUME NEW doc, GoodDoc(doc), NEW s
    PROVE  /\ Len(doc) \in Nat
           /\ \A n \in 1..Len(doc) : doc[n] \in DocEntries
           /\ \A n \in Matches(doc, s) : n \in 1..Len(doc) /\ doc[n].name = s
           /\ \A n \in Matches(doc, s) : doc[n].version \in Nat \ {0}
<1>1. doc \in Seq(DocEntries)
  BY DEF GoodDoc
<1>2. Len(doc) \in Nat /\ \A n \in 1..Len(doc) : doc[n] \in DocEntries
  BY <1>1
<1> QED
  BY <1>2 DEF Matches, DocEntries

\* select_version's first entry with a known checksum is the only one.
LEMMA FirstKnownIn ==
    ASSUME NEW doc, GoodDoc(doc), NEW s, NEW sum, Known(doc, s, sum) # {}
    PROVE  /\ FirstKnown(doc, s, sum) \in Matches(doc, s)
           /\ doc[FirstKnown(doc, s, sum)].sum = sum
<1>1. PICK k \in Known(doc, s, sum) : TRUE
  OBVIOUS
<1>2. \A m \in Known(doc, s, sum) : m = k
  BY <1>1, MatchesIn DEF Known, GoodDoc, Unique
<1>3. k <= k
  BY <1>1, MatchesIn DEF Known
<1>4. \E n \in Known(doc, s, sum) : \A m \in Known(doc, s, sum) : n <= m
  BY <1>1, <1>2, <1>3
<1>5. FirstKnown(doc, s, sum) \in Known(doc, s, sum)
  BY <1>4 DEF FirstKnown
<1> QED
  BY <1>5 DEF Known

\* max(versions) exists and bounds every version of the stage.
LEMMA GreatestIn ==
    ASSUME NEW doc, GoodDoc(doc), NEW s, Matches(doc, s) # {}
    PROVE  /\ Greatest(doc, s) \in Matches(doc, s)
           /\ \A m \in Matches(doc, s) :
                 doc[m].version <= doc[Greatest(doc, s)].version
<1> DEFINE S == {doc[n].version : n \in Matches(doc, s)}
<1>1. PICK K \in Nat : \A n \in 1..Len(doc) : doc[n].version <= K
  BY DEF GoodDoc, Bounded
<1>2. S \in SUBSET Nat /\ S # {} /\ \A x \in S : x <= K
  BY <1>1, MatchesIn
<1>3. PICK v \in S : \A x \in S : x <= v
  BY <1>2, GreatestExists
<1>4. \E n \in Matches(doc, s) : \A m \in Matches(doc, s) :
         doc[m].version <= doc[n].version
  BY <1>3
<1> QED
  BY <1>4 DEF Greatest

\* The version a registrar takes for current is registered.
LEMMA CurrentInHas ==
    ASSUME NEW doc, GoodDoc(doc), NEW s
    PROVE  /\ CurrentIn(doc, s) \in Nat
           /\ CurrentIn(doc, s) # 0 => Has(doc, s, CurrentIn(doc, s))
<1> DEFINE at == {n \in 1..Len(doc) : doc[n].name = s /\ doc[n].is_current}
<1>1. CASE at = {}
  BY <1>1 DEF CurrentIn
<1>2. CASE at # {}
  <2>1. at \in SUBSET Nat /\ Len(doc) \in Nat /\ \A x \in at : x <= Len(doc)
    BY MatchesIn
  <2>2. \E n \in at : \A m \in at : m <= n
    BY <1>2, <2>1, GreatestExists
  <2> DEFINE c == CHOOSE n \in at : \A m \in at : m <= n
  <2>3. c \in at
    BY <2>2
  <2>4. CurrentIn(doc, s) = doc[c].version
    BY <1>2 DEF CurrentIn
  <2> HIDE DEF c
  <2>5. c \in 1..Len(doc) /\ doc[c].name = s /\ doc[c] \in DocEntries
    BY <2>3, MatchesIn
  <2> QED
    BY <2>4, <2>5 DEF Has, DocEntries
<1> QED
  BY <1>1, <1>2
-----------------------------------------------------------------------------
(***************************************************************************)
(* Registering one observation.                                            *)
(***************************************************************************)

\* What register has observed of an artifact.
Seen == [sum : Nat \ {0}, run : Nat \ {0}, status : Usable, input : Nat]

\* The parent version of a new entry of stage s: none, or a registered one.
ParentOf(doc, s, parent) ==
    parent \in Nat /\ (parent # 0 => s # Root /\ Has(doc, Parent[s], parent))

\* The selected version is the known one of this content, or exceeds all.
LEMMA SelectedVersion ==
    ASSUME NEW doc, GoodDoc(doc), NEW s, NEW sum
    PROVE  /\ SelectVersion(doc, s, sum) \in Nat \ {0}
           /\ Known(doc, s, sum) = {} =>
                 \A n \in Matches(doc, s) :
                    doc[n].version < SelectVersion(doc, s, sum)
<1>1. CASE Known(doc, s, sum) # {}
  BY <1>1, FirstKnownIn, MatchesIn DEF SelectVersion
<1>2. CASE Known(doc, s, sum) = {} /\ Matches(doc, s) # {}
  <2> DEFINE g == doc[Greatest(doc, s)].version
  <2>1. /\ g \in Nat \ {0} /\ SelectVersion(doc, s, sum) = g + 1
        /\ \A n \in Matches(doc, s) : doc[n].version <= g
    BY <1>2, GreatestIn, MatchesIn DEF SelectVersion
  <2> QED
    BY <2>1, MatchesIn
<1>3. CASE Known(doc, s, sum) = {} /\ Matches(doc, s) = {}
  BY <1>3 DEF SelectVersion
<1> QED
  BY <1>1, <1>2, <1>3

\* The entry written for an observation.
LEMMA EntryFields ==
    ASSUME NEW s \in Stages, NEW v \in Nat \ {0}, NEW parent \in Nat,
           NEW o \in Seen
    PROVE  /\ EntryOf(s, v, parent, o) \in DocEntries
           /\ EntryOf(s, v, parent, o).name = s
           /\ EntryOf(s, v, parent, o).version = v
           /\ EntryOf(s, v, parent, o).parent = parent
           /\ EntryOf(s, v, parent, o).sum = o.sum
  BY DEF EntryOf, DocEntries, Seen

\* Clearing flags changes nothing else.
LEMMA SupersededFields ==
    ASSUME NEW doc, GoodDoc(doc), NEW s
    PROVE  /\ Superseded(doc, s) \in Seq(DocEntries)
           /\ Len(Superseded(doc, s)) = Len(doc)
           /\ \A n \in 1..Len(doc) :
                 /\ Superseded(doc, s)[n].name = doc[n].name
                 /\ Superseded(doc, s)[n].version = doc[n].version
                 /\ Superseded(doc, s)[n].parent = doc[n].parent
                 /\ Superseded(doc, s)[n].sum = doc[n].sum
<1> DEFINE D == Superseded(doc, s)
           e(n) == IF doc[n].name = s THEN [doc[n] EXCEPT !.is_current = FALSE]
                   ELSE doc[n]
<1>1. Len(doc) \in Nat /\ \A n \in 1..Len(doc) : doc[n] \in DocEntries
  BY MatchesIn
<1>2. \A n \in 1..Len(doc) :
         /\ e(n) \in DocEntries
         /\ e(n).name = doc[n].name /\ e(n).version = doc[n].version
         /\ e(n).parent = doc[n].parent /\ e(n).sum = doc[n].sum
  BY <1>1 DEF DocEntries
<1>3. D = [n \in 1..Len(doc) |-> e(n)]
  BY DEF Superseded
<1> HIDE DEF e
<1> QED
  BY <1>1, <1>2, <1>3

\* A new content: the document grows by an entry with a fresh version.
LEMMA AppendedGood ==
    ASSUME NEW doc, GoodDoc(doc), NEW s \in Stages, NEW parent,
           ParentOf(doc, s, parent), NEW o \in Seen,
           Known(doc, s, o.sum) = {},
           NEW D, D = Registered(doc, s, parent, o)
    PROVE  /\ GoodDoc(D)
           /\ \A t, v : Has(doc, t, v) => Has(D, t, v)
           /\ Has(D, s, SelectVersion(doc, s, o.sum))
<1> DEFINE v0 == SelectVersion(doc, s, o.sum)
           x == EntryOf(s, v0, parent, o)
           L == Len(doc)
<1>1. /\ v0 \in Nat \ {0} /\ L \in Nat
      /\ \A n \in 1..L : doc[n].name = s => doc[n].version < v0
                                            /\ doc[n].sum # o.sum
  BY SelectedVersion, MatchesIn DEF Matches, Known
<1>2. /\ x \in DocEntries /\ x.name = s /\ x.version = v0
      /\ x.parent = parent /\ x.sum = o.sum
  BY <1>1, EntryFields DEF ParentOf
<1>3. D = Append(Superseded(doc, s), x)
  BY DEF Registered
<1> HIDE DEF v0, x
<1>4. D \in Seq(DocEntries) /\ Len(D) = L + 1 /\ D[L + 1] = x
  BY <1>2, <1>3, SupersededFields
<1>5. \A n \in 1..L : /\ n \in 1..Len(D)
                      /\ D[n].name = doc[n].name
                      /\ D[n].version = doc[n].version
                      /\ D[n].parent = doc[n].parent
                      /\ D[n].sum = doc[n].sum
  BY <1>1, <1>3, <1>4, SupersededFields
<1>6. \A n \in 1..Len(D) : n \in 1..L \/ n = L + 1
  BY <1>1, <1>4
<1>7. \A t, v : Has(doc, t, v) => Has(D, t, v)
  BY <1>5 DEF Has
<1>8. Has(D, s, v0)
  BY <1>1, <1>2, <1>4 DEF Has
<1>9. Unique(D)
  <2> SUFFICES ASSUME NEW m \in 1..Len(D), NEW n \in 1..Len(D),
                      D[m].name = D[n].name, m # n
               PROVE  D[m].version # D[n].version /\ D[m].sum # D[n].sum
    BY DEF Unique
  <2>1. \A k \in 1..L : doc[k].version \in Nat
    BY MatchesIn DEF DocEntries
  <2>2. CASE m \in 1..L /\ n \in 1..L
    BY <1>5, <2>2 DEF GoodDoc, Unique
  <2>3. CASE m = L + 1 /\ n \in 1..L
    BY <1>1, <1>2, <1>4, <1>5, <2>1, <2>3
  <2>4. CASE n = L + 1 /\ m \in 1..L
    BY <1>1, <1>2, <1>4, <1>5, <2>1, <2>4
  <2> QED
    BY <1>6, <2>2, <2>3, <2>4
<1>10. Parented(D)
  <2> SUFFICES ASSUME NEW n \in 1..Len(D), D[n].parent # 0
               PROVE  D[n].name # Root /\ Has(D, Parent[D[n].name], D[n].parent)
    BY DEF Parented
  <2>1. CASE n \in 1..L
    BY <1>5, <1>7, <2>1 DEF GoodDoc, Parented
  <2>2. CASE n = L + 1
    BY <1>2, <1>4, <1>7, <2>2 DEF ParentOf
  <2> QED
    BY <1>6, <2>1, <2>2
<1>11. Bounded(D)
  <2>1. PICK K \in Nat : \A n \in 1..L : doc[n].version <= K
    BY DEF GoodDoc, Bounded
  <2>2. \A n \in 1..L : D[n].version \in Nat /\ D[n].version <= K + v0
    BY <1>1, <1>5, <2>1, MatchesIn DEF DocEntries
  <2>3. D[L + 1].version <= K + v0 /\ K + v0 \in Nat
    BY <1>1, <1>2, <1>4
  <2> QED
    BY <1>6, <2>2, <2>3 DEF Bounded
<1> QED
  BY <1>4, <1>7, <1>8, <1>9, <1>10, <1>11 DEF GoodDoc, v0

\* A known content: its own entry is rewritten with the same version.
LEMMA UpdatedGood ==
    ASSUME NEW doc, GoodDoc(doc), NEW s \in Stages, NEW parent,
           ParentOf(doc, s, parent), NEW o \in Seen,
           Known(doc, s, o.sum) # {},
           NEW D, D = Registered(doc, s, parent, o)
    PROVE  /\ GoodDoc(D)
           /\ \A t, v : Has(doc, t, v) => Has(D, t, v)
           /\ Has(D, s, SelectVersion(doc, s, o.sum))
<1> DEFINE v0 == SelectVersion(doc, s, o.sum)
           x == EntryOf(s, v0, parent, o)
           k == FirstKnown(doc, s, o.sum)
           L == Len(doc)
<1>1. /\ v0 \in Nat \ {0} /\ v0 = doc[k].version
      /\ L \in Nat /\ k \in 1..L /\ doc[k].name = s /\ doc[k].sum = o.sum
  BY SelectedVersion, MatchesIn, FirstKnownIn DEF SelectVersion
<1>2. /\ x \in DocEntries /\ x.name = s /\ x.version = v0
      /\ x.parent = parent /\ x.sum = o.sum
  BY <1>1, EntryFields DEF ParentOf
<1>3. D = [doc EXCEPT ![k] = x] /\ doc \in Seq(DocEntries)
  BY DEF Registered, GoodDoc
<1> HIDE DEF v0, x, k
<1>4. D \in Seq(DocEntries) /\ Len(D) = L /\ D[k] = x
  BY <1>1, <1>2, <1>3
<1>5. \A n \in 1..L : n # k => D[n] = doc[n]
  BY <1>3
<1>6. \A n \in 1..L : /\ D[n].name = doc[n].name
                      /\ D[n].version = doc[n].version
                      /\ D[n].sum = doc[n].sum
  BY <1>1, <1>2, <1>4, <1>5
<1>7. \A t, v : Has(doc, t, v) => Has(D, t, v)
  BY <1>4, <1>6 DEF Has
<1>8. Has(D, s, v0)
  BY <1>1, <1>2, <1>4 DEF Has
<1>9. Unique(D)
  BY <1>4, <1>6 DEF GoodDoc, Unique
<1>10. Bounded(D)
  BY <1>4, <1>6 DEF GoodDoc, Bounded
<1>11. Parented(D)
  <2> SUFFICES ASSUME NEW n \in 1..Len(D), D[n].parent # 0
               PROVE  D[n].name # Root /\ Has(D, Parent[D[n].name], D[n].parent)
    BY DEF Parented
  <2>1. CASE n = k
    BY <1>2, <1>4, <1>7, <2>1 DEF ParentOf
  <2>2. CASE n # k
    BY <1>4, <1>5, <1>7, <2>2 DEF GoodDoc, Parented
  <2> QED
    BY <2>1, <2>2
<1> QED
  BY <1>4, <1>7, <1>8, <1>9, <1>10, <1>11 DEF GoodDoc, v0

\* One turn of register's loop keeps the document well formed, keeps every
\* registered version, and registers the version it selected.
LEMMA RegisteredGood ==
    ASSUME NEW doc, GoodDoc(doc), NEW s \in Stages, NEW parent,
           ParentOf(doc, s, parent), NEW o \in Seen
    PROVE  /\ GoodDoc(Registered(doc, s, parent, o))
           /\ \A t, v : Has(doc, t, v) =>
                           Has(Registered(doc, s, parent, o), t, v)
           /\ Has(Registered(doc, s, parent, o), s,
                  SelectVersion(doc, s, o.sum))
  BY AppendedGood, UpdatedGood
-----------------------------------------------------------------------------
(***************************************************************************)
(* The invariant.                                                          *)
(***************************************************************************)

\* The stages a registrar has observed so far.
ObservedUpTo(r, n) == \A k \in 1..n : r.obs[r.todo[k]] \in Seen

\* What a registrar carries: a well-formed document, current versions that
\* are registered in it, and an observation of every stage it is to register.
RegistrationInv(r) ==
    /\ r \in Registrations
    /\ GoodDoc(r.doc)
    /\ \A s \in Stages : r.current[s] # 0 => Has(r.doc, s, r.current[s])
    /\ r.pc \in {"observe", "register"} => r.pos \in 1..Len(r.todo)
    /\ r.pc = "observe" => ObservedUpTo(r, r.pos - 1)
    /\ r.pc \in {"load", "register"} => ObservedUpTo(r, Len(r.todo))
    /\ r.pc = "load" => r.pos \in 1..Len(r.todo)

DocsInv ==
    /\ TypeOK
    /\ GoodDoc(registry.doc)
    /\ GoodDoc(temp.doc)
    /\ \A p \in Registrars : RegistrationInv(proc[p])

\* An idle registrar carries nothing.
LEMMA IdleInv == Idle \in Registrations /\ RegistrationInv(Idle)
<1>1. Unseen \in [sum : Nat, run : Nat, status : Usable \cup {"NONE"},
                  input : Nat]
  BY DEF Unseen
<1>2. Idle \in Registrations
  BY <1>1 DEF Idle, Registrations
<1> QED
  BY <1>2, EmptyDocGood DEF Idle, RegistrationInv

ObservationTypes ==
    [sum : Nat, run : Nat, status : Usable \cup {"NONE"}, input : Nat]

\* The fields of a registrar.
LEMMA RegistrationFields ==
    ASSUME NEW r \in Registrations
    PROVE  /\ r.todo \in Seq(Stages) /\ r.pos \in Nat \ {0}
           /\ r.target \in {"temp", "registry", "unlinked"}
           /\ r.mixed \in BOOLEAN /\ r.obs \in [Stages -> ObservationTypes]
           /\ r.doc \in Seq(DocEntries) /\ r.current \in [Stages -> Nat]
  BY DEF Registrations, ObservationTypes

Pcs == {"idle", "observe", "load", "register", "open", "writing", "replace",
        "done"}

LEMMA ElementOf ==
    ASSUME NEW T, NEW q \in Seq(T), NEW n \in 1..Len(q)
    PROVE  q[n] \in T
  OBVIOUS

\* The configured order names stages, at least the root.
LEMMA OrderStages ==
    /\ Order \in Seq(Stages) /\ Len(Order) \in Nat \ {0}
    /\ \A s \in Stages : <<s>> \in Seq(Stages) /\ Len(<<s>>) = 1
<1>1. PICK n \in 1..Len(Order) : Order[n] = Root
  BY StagesAssumption
<1> QED
  BY <1>1, StagesAssumption

\* A step of registrars that leaves the artifacts alone.
LEMMA ProcsStep ==
    ASSUME DocsInv, NEW f, proc' = [q \in Registrars |-> f[q]],
           \A q \in Registrars : RegistrationInv(f[q]),
           UNCHANGED artifacts,
           registry' \in JsonFiles, GoodDoc(registry'.doc),
           temp' \in JsonFiles, GoodDoc(temp'.doc)
    PROVE  DocsInv'
<1>1. \A q \in Registrars : RegistrationInv(proc'[q])
  OBVIOUS
<1>2. proc' \in [Registrars -> Registrations]
  BY DEF RegistrationInv
<1>3. TypeOK'
  BY <1>2 DEF artifacts, DocsInv, TypeOK
<1>4. \A q \in Registrars : RegistrationInv(proc[q])'
  BY <1>1 DEF RegistrationInv, GoodDoc, Unique, Parented, Bounded, Has,
              ObservedUpTo
<1>5. GoodDoc(registry.doc)' /\ GoodDoc(temp.doc)'
  BY DEF GoodDoc, Unique, Parented, Bounded, Has
<1> QED
  BY <1>3, <1>4, <1>5 DEF DocsInv

\* A step of one registrar that leaves the artifacts alone.
LEMMA ProcStep ==
    ASSUME DocsInv, NEW p \in Registrars, NEW r, RegistrationInv(r),
           Become(p, r), UNCHANGED artifacts,
           registry' \in JsonFiles, GoodDoc(registry'.doc),
           temp' \in JsonFiles, GoodDoc(temp'.doc)
    PROVE  DocsInv'
<1> DEFINE f == [q \in Registrars |-> IF q = p THEN r ELSE proc[q]]
<1>1. proc \in [Registrars -> Registrations]
  BY DEF DocsInv, TypeOK
<1>2. proc' = [q \in Registrars |-> f[q]]
  BY <1>1 DEF Become
<1>3. \A q \in Registrars : RegistrationInv(f[q])
  BY DEF DocsInv
<1> HIDE DEF f
<1> QED
  BY <1>2, <1>3, ProcsStep

\* What DocsInv says of the documents on disk.
LEMMA FilesGood ==
    ASSUME DocsInv
    PROVE  /\ registry \in JsonFiles /\ GoodDoc(registry.doc)
           /\ temp \in JsonFiles /\ GoodDoc(temp.doc)
  BY DEF DocsInv, TypeOK

\* A file that was half written, or completely.
LEMMA FilesWritten ==
    /\ Torn \in JsonFiles /\ GoodDoc(Torn.doc)
    /\ NoFile \in JsonFiles /\ GoodDoc(NoFile.doc)
    /\ \A doc : GoodDoc(doc) =>
          Written(doc) \in JsonFiles /\ GoodDoc(Written(doc).doc)
  BY EmptyDocGood DEF Torn, NoFile, Written, JsonFiles, GoodDoc
-----------------------------------------------------------------------------
(***************************************************************************)
(* The steps of a registrar.                                               *)
(***************************************************************************)

LEMMA StartKeeps ==
    ASSUME DocsInv, NEW p \in Registrars, Start(p)
    PROVE  DocsInv'
<1>1. PICK todo \in {Order} \cup {<<s>> : s \in Stages} :
         Become(p, [Idle EXCEPT !.pc = "observe", !.todo = todo])
  BY DEF Start
<1> DEFINE r == [Idle EXCEPT !.pc = "observe", !.todo = todo]
<1>2. todo \in Seq(Stages) /\ Len(todo) \in Nat \ {0}
  <2>1. CASE todo = Order
    BY <2>1, OrderStages
  <2>2. ASSUME NEW s \in Stages, todo = <<s>>
        PROVE  todo \in Seq(Stages) /\ Len(todo) \in Nat \ {0}
    BY <2>2, OrderStages
  <2> QED
    BY <2>1, <2>2
<1>3. r \in Registrations
  BY <1>2, IdleInv DEF Registrations
<1>4. RegistrationInv(r)
  BY <1>2, <1>3, EmptyDocGood DEF RegistrationInv, Idle, ObservedUpTo
<1> QED
  BY <1>1, <1>4, ProcStep, FilesGood DEF Start

LEMMA ResetKeeps ==
    ASSUME DocsInv, NEW p \in Registrars, ResetOn(p),
           UNCHANGED <<artifacts, registry, temp>>
    PROVE  DocsInv'
  BY IdleInv, ProcStep, FilesGood DEF ResetOn

\* The stage a registrar works on.
LEMMA WorksOn ==
    ASSUME NEW r, RegistrationInv(r), r.pc \in {"observe", "register"}
    PROVE  /\ r.todo \in Seq(Stages) /\ Len(r.todo) \in Nat
           /\ r.pos \in 1..Len(r.todo) /\ r.todo[r.pos] \in Stages
  BY DEF RegistrationInv, Registrations

\* The manifests a stage may be observed by.
LEMMA CandidateTypes ==
    ASSUME DocsInv, NEW s \in Stages, NEW m \in Candidates(s)
    PROVE  m.run \in Nat \ {0} /\ m.status \in Usable
<1>1. Reporter[s] \in Stages
  BY StagesAssumption
<1>2. usable[Reporter[s]] \in Seq([run : Nat \ {0}, status : Usable,
                                   input : Nat])
  BY <1>1 DEF DocsInv, TypeOK
<1>3. PICK n \in 1..Len(usable[Reporter[s]]) : m = usable[Reporter[s]][n]
  BY DEF Candidates
<1>4. m \in [run : Nat \ {0}, status : Usable, input : Nat]
  BY <1>2, <1>3, ElementOf
<1> QED
  BY <1>4

LEMMA ObserveKeeps ==
    ASSUME DocsInv, NEW p \in Registrars, Observe(p)
    PROVE  DocsInv'
<1> DEFINE r == proc[p]
           s == r.todo[r.pos]
<1>1. RegistrationInv(r) /\ r.pc = "observe"
  BY DEF DocsInv, Observe
<1>2. /\ r.todo \in Seq(Stages) /\ Len(r.todo) \in Nat
      /\ r.pos \in 1..Len(r.todo) /\ s \in Stages
  BY <1>1, WorksOn
<1>3. PICK m \in Candidates(s) :
         Become(p, [r EXCEPT
                  !.obs[s] = [sum |-> content[s], run |-> m.run,
                              status |-> m.status, input |-> basis[s]],
                  !.pos = IF r.pos < Len(r.todo) THEN r.pos + 1 ELSE 1,
                  !.pc = IF r.pos < Len(r.todo) THEN "observe" ELSE "load"])
  BY DEF Observe
<1> DEFINE o == [sum |-> content[s], run |-> m.run,
                 status |-> m.status, input |-> basis[s]]
           obs == [r.obs EXCEPT ![s] = o]
           pos == IF r.pos < Len(r.todo) THEN r.pos + 1 ELSE 1
           pc == IF r.pos < Len(r.todo) THEN "observe" ELSE "load"
           new == [r EXCEPT !.obs = obs, !.pos = pos, !.pc = pc]
<1>4. o \in Seen
  BY <1>2, CandidateTypes DEF Observe, DocsInv, TypeOK, Seen
<1>5. r \in Registrations
  BY <1>1 DEF RegistrationInv
<1> HIDE DEF o
<1>6. /\ obs \in [Stages -> ObservationTypes]
      /\ \A k \in 1..(r.pos - 1) : obs[r.todo[k]] \in Seen
      /\ obs[s] \in Seen
  <2>1. r.obs \in [Stages -> ObservationTypes] /\ o \in ObservationTypes
    BY <1>4, <1>5, RegistrationFields DEF Seen, ObservationTypes
  <2>2. obs[s] = o /\ \A t \in Stages : t # s => obs[t] = r.obs[t]
    BY <1>2, <2>1
  <2>3. \A k \in 1..(r.pos - 1) : r.todo[k] \in Stages /\ r.obs[r.todo[k]] \in Seen
    BY <1>1, <1>2 DEF RegistrationInv, ObservedUpTo
  <2> QED
    BY <1>2, <1>4, <2>1, <2>2, <2>3
<1>7. pos \in Nat \ {0} /\ pc \in Pcs
  BY <1>2 DEF Pcs
<1> HIDE DEF obs
<1>8. /\ new \in Registrations
      /\ new.pc = pc /\ new.todo = r.todo /\ new.pos = pos
      /\ new.obs = obs /\ new.doc = r.doc /\ new.current = r.current
  <2> HIDE DEF pos, pc, r
  <2>1. /\ new.pc = pc /\ new.todo = r.todo /\ new.pos = pos
        /\ new.obs = obs /\ new.doc = r.doc /\ new.current = r.current
    BY <1>5 DEF Registrations
  <2>2. new \in Registrations
    BY <1>5, <1>6, <1>7 DEF Registrations, ObservationTypes, Pcs
  <2> QED
    BY <2>1, <2>2
<1> HIDE DEF new
<1>9. \A k \in 1..r.pos : obs[r.todo[k]] \in Seen
  <2> SUFFICES ASSUME NEW k \in 1..r.pos PROVE obs[r.todo[k]] \in Seen
    OBVIOUS
  <2>1. k \in 1..(r.pos - 1) \/ k = r.pos
    BY <1>2
  <2> QED
    BY <1>6, <2>1
<1>10. RegistrationInv(new)
  <2>1. CASE r.pos < Len(r.todo)
    <3>1. /\ new.pc = "observe" /\ new.pos = r.pos + 1 /\ new.pos - 1 = r.pos
          /\ new.pos \in 1..Len(new.todo)
      BY <1>2, <1>8, <2>1
    <3>2. ObservedUpTo(new, new.pos - 1)
      BY <1>8, <1>9, <3>1 DEF ObservedUpTo
    <3> QED
      BY <1>1, <1>2, <1>8, <2>1, <3>1, <3>2 DEF RegistrationInv
  <2>2. CASE ~ (r.pos < Len(r.todo))
    <3>1. new.pc = "load" /\ new.pos = 1 /\ r.pos = Len(r.todo)
      BY <1>2, <1>8, <2>2
    <3>2. ObservedUpTo(new, Len(new.todo))
      BY <1>8, <1>9, <3>1 DEF ObservedUpTo
    <3> QED
      BY <1>1, <1>2, <1>8, <3>1, <3>2 DEF RegistrationInv
  <2> QED
    BY <2>1, <2>2
<1>11. Become(p, new)
  BY <1>3 DEF new, o, obs
<1> QED
  BY <1>10, <1>11, ProcStep, FilesGood DEF Observe

LEMMA LoadKeeps ==
    ASSUME DocsInv, NEW p \in Registrars, Load(p)
    PROVE  DocsInv'
<1> DEFINE r == proc[p]
           current == [s \in Stages |-> CurrentIn(registry.doc, s)]
           new == [r EXCEPT !.pc = "register", !.doc = registry.doc,
                            !.current = current]
<1>1. CASE registry.state = "torn"
  BY <1>1, ResetKeeps DEF Load
<1>2. CASE registry.state # "torn"
  <2>1. RegistrationInv(r) /\ r \in Registrations /\ r.pc = "load"
    BY DEF DocsInv, Load, RegistrationInv
  <2>2. /\ current \in [Stages -> Nat]
        /\ \A s \in Stages : current[s] # 0 =>
              Has(registry.doc, s, current[s])
    BY CurrentInHas, FilesGood
  <2>3. registry.doc \in Seq(DocEntries) 
    BY FilesGood DEF GoodDoc
  <2> HIDE DEF current
  <2>4. /\ new \in Registrations
        /\ new.pc = "register" /\ new.todo = r.todo /\ new.pos = r.pos
        /\ new.obs = r.obs /\ new.doc = registry.doc /\ new.current = current
    <3> HIDE DEF r
    <3>1. /\ new.pc = "register" /\ new.todo = r.todo /\ new.pos = r.pos
          /\ new.obs = r.obs /\ new.doc = registry.doc /\ new.current = current
      BY <2>1 DEF Registrations
    <3>2. new \in Registrations
      BY <2>1, <2>2, <2>3 DEF Registrations
    <3> QED
      BY <3>1, <3>2
  <2> HIDE DEF new
  <2>5. ObservedUpTo(new, Len(new.todo))
    BY <2>1, <2>4 DEF RegistrationInv, ObservedUpTo
  <2>6. RegistrationInv(new)
    BY <2>1, <2>2, <2>4, <2>5, FilesGood DEF RegistrationInv
  <2>7. Become(p, new)
    BY <1>2 DEF Load, new, current
  <2> QED
    BY <2>6, <2>7, ProcStep, FilesGood DEF Load
<1> QED
  BY <1>1, <1>2

\* What one turn of register's loop works on: a complete observation, and a
\* parent version that the loaded document holds.
LEMMA RegisterStageInputs ==
    ASSUME DocsInv, NEW p \in Registrars, RegisterStage(p),
           NEW r, r = proc[p], NEW s, s = r.todo[r.pos]
    PROVE  /\ s \in Stages /\ GoodDoc(r.doc) /\ r.obs[s] \in Seen
           /\ ParentOf(r.doc, s, IF s = Root THEN 0 ELSE r.current[Parent[s]])
<1> DEFINE parent == IF s = Root THEN 0 ELSE r.current[Parent[s]]
<1>1. RegistrationInv(r) /\ r \in Registrations /\ r.pc = "register"
  BY DEF DocsInv, RegisterStage, RegistrationInv
<1>2. /\ r.todo \in Seq(Stages) /\ Len(r.todo) \in Nat
      /\ r.pos \in 1..Len(r.todo) /\ s \in Stages
  BY <1>1, WorksOn
<1>3. r.obs[s] \in Seen
  BY <1>1, <1>2 DEF RegistrationInv, ObservedUpTo
<1>4. ParentOf(r.doc, s, parent)
  <2>1. CASE s = Root
    BY <2>1 DEF ParentOf
  <2>2. CASE s # Root
    <3>1. Parent[s] \in Stages /\ parent = r.current[Parent[s]]
      BY <1>2, <2>2, StagesAssumption
    <3>2. parent \in Nat /\ (parent # 0 => Has(r.doc, Parent[s], parent))
      BY <1>1, <3>1, RegistrationFields DEF RegistrationInv
    <3> QED
      BY <2>2, <3>2 DEF ParentOf
  <2> QED
    BY <2>1, <2>2
<1> QED
  BY <1>1, <1>2, <1>3, <1>4 DEF RegistrationInv

LEMMA RegisterStageKeeps ==
    ASSUME DocsInv, NEW p \in Registrars, RegisterStage(p)
    PROVE  DocsInv'
<1> DEFINE r == proc[p]
           s == r.todo[r.pos]
           o == r.obs[s]
           parent == IF s = Root THEN 0 ELSE r.current[Parent[s]]
           v == SelectVersion(r.doc, s, o.sum)
           doc == Registered(r.doc, s, parent, o)
           current == [r.current EXCEPT ![s] = v]
           pos == IF r.pos < Len(r.todo) THEN r.pos + 1 ELSE 1
           pc == IF r.pos < Len(r.todo) THEN "register" ELSE "open"
           new == [r EXCEPT !.doc = doc, !.current = current, !.pos = pos,
                            !.pc = pc]
<1>1. RegistrationInv(r) /\ r \in Registrations /\ r.pc = "register"
  BY DEF DocsInv, RegisterStage, RegistrationInv
<1>2. /\ r.todo \in Seq(Stages) /\ Len(r.todo) \in Nat
      /\ r.pos \in 1..Len(r.todo) /\ s \in Stages
  BY <1>1, WorksOn
<1>3. o \in Seen
  BY RegisterStageInputs
<1>4. ParentOf(r.doc, s, parent)
  BY RegisterStageInputs
<1>5. GoodDoc(r.doc)
  BY <1>1 DEF RegistrationInv
<1> HIDE DEF o, parent
<1>6. /\ GoodDoc(doc) /\ Has(doc, s, v)
      /\ \A t, u : Has(r.doc, t, u) => Has(doc, t, u)
  BY <1>2, <1>3, <1>4, <1>5, RegisteredGood
<1>7. v \in Nat
  BY <1>5, SelectedVersion
<1> HIDE DEF v, doc
<1>8. /\ current \in [Stages -> Nat]
      /\ \A t \in Stages : current[t] # 0 => Has(doc, t, current[t])
  <2>1. r.current \in [Stages -> Nat]
    BY <1>1, RegistrationFields
  <2>2. /\ current \in [Stages -> Nat] /\ current[s] = v
        /\ \A t \in Stages : t # s => current[t] = r.current[t]
    BY <1>2, <1>7, <2>1
  <2>3. \A t \in Stages : r.current[t] # 0 => Has(doc, t, r.current[t])
    BY <1>1, <1>6 DEF RegistrationInv
  <2> HIDE DEF current
  <2> QED
    BY <1>6, <2>2, <2>3
<1>9. pos \in Nat \ {0} /\ pc \in Pcs
  BY <1>2 DEF Pcs
<1>10. doc \in Seq(DocEntries)
  BY <1>6 DEF GoodDoc
<1> HIDE DEF current
<1>11. /\ new \in Registrations
       /\ new.pc = pc /\ new.todo = r.todo /\ new.pos = pos
       /\ new.obs = r.obs /\ new.doc = doc /\ new.current = current
  <2> HIDE DEF pos, pc, r
  <2>1. /\ new.pc = pc /\ new.todo = r.todo /\ new.pos = pos
        /\ new.obs = r.obs /\ new.doc = doc /\ new.current = current
    BY <1>1 DEF Registrations
  <2>2. new \in Registrations
    BY <1>1, <1>8, <1>9, <1>10 DEF Registrations, Pcs
  <2> QED
    BY <2>1, <2>2
<1> HIDE DEF new
<1>12. pc = "register" => pos \in 1..Len(new.todo)
  BY <1>2, <1>11
<1>13. pc = "register" => ObservedUpTo(new, Len(new.todo))
  BY <1>1, <1>11 DEF RegistrationInv, ObservedUpTo
<1>14. pc \in {"register", "open"}
  OBVIOUS
<1> HIDE DEF pc, pos
<1>15. RegistrationInv(new)
  BY <1>6, <1>8, <1>11, <1>12, <1>13, <1>14 DEF RegistrationInv
<1>16. Become(p, new)
  BY DEF RegisterStage, new, pc, pos, current, doc, v, parent, o
<1> QED
  BY <1>15, <1>16, ProcStep, FilesGood DEF RegisterStage

\* Opening, filling and renaming the temporary file changes nothing else of
\* what a registrar carries.
LEMMA WriterKeeps ==
    ASSUME NEW r, RegistrationInv(r), NEW b \in BOOLEAN
    PROVE  /\ RegistrationInv([r EXCEPT !.pc = "writing", !.target = "temp",
                                        !.mixed = b])
           /\ RegistrationInv([r EXCEPT !.mixed = TRUE])
           /\ RegistrationInv([r EXCEPT !.pc = "done"])
           /\ RegistrationInv([r EXCEPT !.target = AfterRename(@)])
<1>1. r \in Registrations
  BY DEF RegistrationInv
<1>2. ASSUME NEW new \in Registrations,
             new.pc \in {r.pc, "writing", "done"}, new.todo = r.todo,
             new.pos = r.pos, new.obs = r.obs, new.doc = r.doc,
             new.current = r.current
      PROVE  RegistrationInv(new)
  <2>1. new.pc = r.pc => RegistrationInv(new)
    BY <1>2 DEF RegistrationInv, ObservedUpTo
  <2>2. new.pc \in {"writing", "done"} => RegistrationInv(new)
    BY <1>2 DEF RegistrationInv
  <2> QED
    BY <1>2, <2>1, <2>2
<1>3. RegistrationInv([r EXCEPT !.pc = "writing", !.target = "temp", !.mixed = b])
  <2> DEFINE new == [r EXCEPT !.pc = "writing", !.target = "temp", !.mixed = b]
  <2>1. new \in Registrations
    BY <1>1 DEF Registrations
  <2>2. /\ new.pc = "writing" /\ new.todo = r.todo /\ new.pos = r.pos
        /\ new.obs = r.obs /\ new.doc = r.doc /\ new.current = r.current
    BY <1>1 DEF Registrations
  <2> HIDE DEF new
  <2>3. RegistrationInv(new)
    BY <1>2, <2>1, <2>2
  <2> QED
    BY <2>3 DEF new
<1>4. RegistrationInv([r EXCEPT !.mixed = TRUE])
  <2> DEFINE new == [r EXCEPT !.mixed = TRUE]
  <2>1. new \in Registrations
    BY <1>1 DEF Registrations
  <2>2. /\ new.pc = r.pc /\ new.todo = r.todo /\ new.pos = r.pos
        /\ new.obs = r.obs /\ new.doc = r.doc /\ new.current = r.current
    BY <1>1 DEF Registrations
  <2> HIDE DEF new
  <2>3. RegistrationInv(new)
    BY <1>2, <2>1, <2>2
  <2> QED
    BY <2>3 DEF new
<1>5. RegistrationInv([r EXCEPT !.pc = "done"])
  <2> DEFINE new == [r EXCEPT !.pc = "done"]
  <2>1. new \in Registrations
    BY <1>1 DEF Registrations
  <2>2. /\ new.pc = "done" /\ new.todo = r.todo /\ new.pos = r.pos
        /\ new.obs = r.obs /\ new.doc = r.doc /\ new.current = r.current
    BY <1>1 DEF Registrations
  <2> HIDE DEF new
  <2>3. RegistrationInv(new)
    BY <1>2, <2>1, <2>2
  <2> QED
    BY <2>3 DEF new
<1>6. RegistrationInv([r EXCEPT !.target = AfterRename(@)])
  <2> DEFINE t == AfterRename(r.target)
             new == [r EXCEPT !.target = t]
  <2>1. t \in {"temp", "registry", "unlinked"}
    BY DEF AfterRename
  <2> HIDE DEF t
  <2>2. new \in Registrations
    BY <1>1, <2>1 DEF Registrations
  <2>3. /\ new.pc = r.pc /\ new.todo = r.todo /\ new.pos = r.pos
        /\ new.obs = r.obs /\ new.doc = r.doc /\ new.current = r.current
    BY <1>1 DEF Registrations
  <2> HIDE DEF new
  <2>4. RegistrationInv(new)
    BY <1>2, <2>2, <2>3
  <2> QED
    BY <2>4 DEF new, t
<1> QED
  BY <1>3, <1>4, <1>5, <1>6

LEMMA OpenTempKeeps ==
    ASSUME DocsInv, NEW p \in Registrars, OpenTemp(p)
    PROVE  DocsInv'
<1> DEFINE writers == {q \in Registrars :
                          proc[q].pc = "writing" /\ proc[q].target = "temp"}
           b == writers # {}
           f == [q \in Registrars |->
                   IF q = p THEN [proc[q] EXCEPT !.pc = "writing",
                                                 !.target = "temp", !.mixed = b]
                   ELSE IF q \in writers THEN [proc[q] EXCEPT !.mixed = TRUE]
                   ELSE proc[q]]
<1>1. proc' = [q \in Registrars |-> f[q]]
  BY DEF OpenTemp
<1>2. b \in BOOLEAN
  OBVIOUS
<1> HIDE DEF b, writers
<1>3. \A q \in Registrars : RegistrationInv(f[q])
  <2> SUFFICES ASSUME NEW q \in Registrars PROVE RegistrationInv(f[q])
    OBVIOUS
  <2>1. RegistrationInv(proc[q])
    BY DEF DocsInv
  <2>2. CASE q = p
    BY <1>2, <2>1, <2>2, WriterKeeps
  <2>3. CASE q # p /\ q \in writers
    BY <2>1, <2>3, WriterKeeps
  <2>4. CASE q # p /\ q \notin writers
    BY <2>1, <2>4
  <2> QED
    BY <2>2, <2>3, <2>4
<1> HIDE DEF f
<1> QED
  BY <1>1, <1>3, ProcsStep, FilesGood, FilesWritten DEF OpenTemp

LEMMA FinishWriteKeeps ==
    ASSUME DocsInv, NEW p \in Registrars, FinishWrite(p)
    PROVE  DocsInv'
<1> DEFINE r == proc[p]
           new == [Idle EXCEPT !.pc = "replace", !.todo = r.todo,
                               !.obs = r.obs]
<1>1. RegistrationInv(r) /\ r \in Registrations
  BY DEF DocsInv, RegistrationInv
<1>2. PICK file \in {Written(r.doc), Torn} :
         /\ temp' = IF r.target = "temp" THEN file ELSE temp
         /\ registry' = IF r.target = "registry" THEN file ELSE registry
  BY DEF FinishWrite
<1>3. file \in JsonFiles /\ GoodDoc(file.doc)
  BY <1>1, <1>2, FilesWritten DEF RegistrationInv
<1>4. RegistrationInv(new)
  <2>1. new \in Registrations
    BY <1>1, IdleInv DEF Registrations
  <2>2. new.pc = "replace" /\ new.doc = <<>> /\ new.current = [s \in Stages |-> 0]
    BY DEF Idle
  <2> HIDE DEF new
  <2> QED
    BY <2>1, <2>2, EmptyDocGood DEF RegistrationInv
<1>5. Become(p, new) /\ UNCHANGED artifacts
  BY DEF FinishWrite
<1>6. /\ registry' \in JsonFiles /\ GoodDoc(registry'.doc)
      /\ temp' \in JsonFiles /\ GoodDoc(temp'.doc)
  BY <1>2, <1>3, FilesGood
<1> HIDE DEF new
<1> QED
  BY <1>4, <1>5, <1>6, ProcStep

LEMMA ReplaceKeeps ==
    ASSUME DocsInv, NEW p \in Registrars, Replace(p)
    PROVE  DocsInv'
<1> DEFINE f == [q \in Registrars |->
                   IF q = p THEN [proc[q] EXCEPT !.pc = "done"]
                   ELSE IF proc[q].pc = "writing"
                        THEN [proc[q] EXCEPT !.target = AfterRename(@)]
                        ELSE proc[q]]
<1>1. CASE temp = NoFile
  BY <1>1, ResetKeeps DEF Replace
<1>2. CASE temp # NoFile
  <2>1. /\ proc' = [q \in Registrars |-> f[q]]
        /\ registry' = temp /\ temp' = NoFile /\ UNCHANGED artifacts
    BY <1>2 DEF Replace
  <2>2. \A q \in Registrars : RegistrationInv(f[q])
    <3> SUFFICES ASSUME NEW q \in Registrars PROVE RegistrationInv(f[q])
      OBVIOUS
    <3>1. RegistrationInv(proc[q])
      BY DEF DocsInv
    <3>2. CASE q = p
      BY <3>1, <3>2, WriterKeeps
    <3>3. CASE q # p /\ proc[q].pc = "writing"
      BY <3>1, <3>3, WriterKeeps
    <3>4. CASE q # p /\ proc[q].pc # "writing"
      BY <3>1, <3>4
    <3> QED
      BY <3>2, <3>3, <3>4
  <2> HIDE DEF f
  <2> QED
    BY <2>1, <2>2, ProcsStep, FilesGood, FilesWritten
<1> QED
  BY <1>1, <1>2
-----------------------------------------------------------------------------
(***************************************************************************)
(* The steps of the artifacts, and the theorems.                           *)
(***************************************************************************)

\* A step that leaves the documents and the registrars alone.
LEMMA ArtifactStep ==
    ASSUME DocsInv, UNCHANGED <<registry, temp, proc>>,
           content' \in [Stages -> Nat], basis' \in [Stages -> Nat],
           usable' \in [Stages -> Seq([run : Nat \ {0}, status : Usable,
                                      input : Nat])],
           last' \in Nat, scheduled' \in BOOLEAN
    PROVE  DocsInv'
<1>1. TypeOK'
  BY DEF DocsInv, TypeOK
<1>2. \A q \in Registrars : RegistrationInv(proc'[q])
  BY DEF DocsInv
<1>3. \A q \in Registrars : RegistrationInv(proc[q])'
  BY <1>2 DEF RegistrationInv, GoodDoc, Unique, Parented, Bounded, Has,
              ObservedUpTo
<1>4. GoodDoc(registry'.doc) /\ GoodDoc(temp'.doc)
  BY DEF DocsInv
<1>5. GoodDoc(registry.doc)' /\ GoodDoc(temp.doc)'
  BY <1>4 DEF GoodDoc, Unique, Parented, Bounded, Has
<1> QED
  BY <1>1, <1>3, <1>5 DEF DocsInv

LEMMA ParentContentType ==
    ASSUME DocsInv, NEW s \in Stages
    PROVE  ParentContent(s) \in Nat
  BY StagesAssumption DEF ParentContent, DocsInv, TypeOK

LEMMA ProduceKeeps ==
    ASSUME DocsInv, NEW s \in Stages, NEW status \in Statuses,
           Produce(s, status)
    PROVE  DocsInv'
<1> DEFINE Manifest == [run : Nat \ {0}, status : Usable, input : Nat]
           m == [run |-> last + 1, status |-> status, input |-> ParentContent(s)]
<1>1. /\ content \in [Stages -> Nat] /\ basis \in [Stages -> Nat]
      /\ usable \in [Stages -> Seq(Manifest)] /\ last \in Nat
  BY DEF DocsInv, TypeOK
<1>2. ParentContent(s) \in Nat
  BY ParentContentType
<1>3. /\ content' \in [Stages -> Nat] /\ basis' \in [Stages -> Nat]
      /\ last' \in Nat
  BY <1>1, <1>2 DEF Produce
<1>5. scheduled' \in BOOLEAN
  BY DEF DocsInv, TypeOK, Produce
<1>4. usable' \in [Stages -> Seq(Manifest)]
  <2>1. CASE status = "FAILED"
    BY <1>1, <2>1 DEF Produce
  <2>2. CASE status # "FAILED"
    <3>1. m \in Manifest
      BY <1>1, <1>2, <2>2, ModeAssumption DEF Usable
    <3>2. usable' = [usable EXCEPT ![s] = Append(@, m)]
      BY <2>2 DEF Produce
    <3> HIDE DEF m, Manifest
    <3>3. Append(usable[s], m) \in Seq(Manifest)
      BY <1>1, <3>1
    <3> QED
      BY <1>1, <3>2, <3>3
  <2> QED
    BY <2>1, <2>2
<1> QED
  BY <1>3, <1>4, <1>5, ArtifactStep DEF Produce

LEMMA RestoreKeeps ==
    ASSUME DocsInv, NEW s \in Stages, Restore(s)
    PROVE  DocsInv'
<1> DEFINE Manifest == [run : Nat \ {0}, status : Usable, input : Nat]
<1>1. /\ content \in [Stages -> Nat] /\ basis \in [Stages -> Nat]
      /\ usable \in [Stages -> Seq(Manifest)] /\ last \in Nat
  BY DEF DocsInv, TypeOK
<1>2. PICK n \in 1..Len(usable[s]) :
         /\ content' = [content EXCEPT ![s] = usable[s][n].run]
         /\ basis' = [basis EXCEPT ![s] = usable[s][n].input]
  BY DEF Restore
<1>3. usable[s][n] \in Manifest
  BY <1>1, <1>2, ElementOf
<1>4. content' \in [Stages -> Nat] /\ basis' \in [Stages -> Nat]
  BY <1>1, <1>2, <1>3
<1>5. scheduled' \in BOOLEAN
  BY DEF DocsInv, TypeOK, Restore
<1> QED
  BY <1>1, <1>4, <1>5, ArtifactStep DEF Restore

LEMMA DocsInvInit == Init => DocsInv
  BY IdleInv, FilesWritten DEF Init, DocsInv, TypeOK

LEMMA DocsInvStep == DocsInv /\ [Next]_vars => DocsInv'
<1> SUFFICES ASSUME DocsInv, [Next]_vars PROVE DocsInv'
  OBVIOUS
<1>1. ASSUME NEW s \in Stages, NEW status \in Statuses, Produce(s, status)
      PROVE  DocsInv'
  BY <1>1, ProduceKeeps
<1>2. ASSUME NEW s \in Stages, Restore(s) PROVE DocsInv'
  BY <1>2, RestoreKeeps
<1>3. ASSUME NEW p \in Registrars, Start(p) PROVE DocsInv'
  BY <1>3, StartKeeps
<1>4. ASSUME NEW p \in Registrars, Observe(p) PROVE DocsInv'
  BY <1>4, ObserveKeeps
<1>5. ASSUME NEW p \in Registrars, ObserveFails(p) PROVE DocsInv'
  BY <1>5, ResetKeeps DEF ObserveFails
<1>6. ASSUME NEW p \in Registrars, Load(p) PROVE DocsInv'
  BY <1>6, LoadKeeps
<1>7. ASSUME NEW p \in Registrars, RegisterStage(p) PROVE DocsInv'
  BY <1>7, RegisterStageKeeps
<1>8. ASSUME NEW p \in Registrars, OpenTemp(p) PROVE DocsInv'
  BY <1>8, OpenTempKeeps
<1>9. ASSUME NEW p \in Registrars, FinishWrite(p) PROVE DocsInv'
  BY <1>9, FinishWriteKeeps
<1>10. ASSUME NEW p \in Registrars, Replace(p) PROVE DocsInv'
  BY <1>10, ReplaceKeeps
<1>11. ASSUME NEW p \in Registrars, Crash(p) PROVE DocsInv'
  BY <1>11, ResetKeeps DEF Crash
<1>12. CASE UNCHANGED vars
  <2>1. UNCHANGED <<registry, temp, proc>> /\ UNCHANGED artifacts
    BY <1>12 DEF vars, artifacts
  <2>2. TypeOK
    BY DEF DocsInv
  <2> QED
    BY <2>1, <2>2, ArtifactStep DEF artifacts, TypeOK
<1> QED
  BY <1>1, <1>2, <1>3, <1>4, <1>5, <1>6, <1>7, <1>8, <1>9, <1>10, <1>11, <1>12
  DEF Next

\* Every document in flight is well formed and every variable has its type,
\* however registrars overlap, crash and overwrite each other.
THEOREM DocsInvariant == Spec => []DocsInv
  BY DocsInvInit, DocsInvStep, PTL DEF Spec

\* What the registry publishes is well formed.
LEMMA PublishedGood == DocsInv => GoodDoc(Published)
  BY EmptyDocGood DEF DocsInv, Published

\* Every variable of the registry keeps its type.
THEOREM RegistryTypeCorrect == Spec => []TypeOK
<1>1. DocsInv => TypeOK
  BY DEF DocsInv
<1> QED
  BY <1>1, DocsInvariant, PTL

\* select_version never gives one number to two contents nor two numbers to
\* one content of a stage, with any number of unsynchronised registrars.
THEOREM VersionsStayUnique == Spec => []VersionsAreUnique
<1>1. DocsInv => VersionsAreUnique
  BY PublishedGood DEF GoodDoc, Unique, VersionsAreUnique
<1> QED
  BY <1>1, DocsInvariant, PTL

\* register only ever names a parent version the same document holds.
THEOREM ParentsStayRegistered == Spec => []ParentIsRegistered
<1>1. DocsInv => ParentIsRegistered
  BY PublishedGood DEF GoodDoc, Parented, Has, ParentIsRegistered
<1> QED
  BY <1>1, DocsInvariant, PTL

-----------------------------------------------------------------------------
(***************************************************************************)
(* One registrar: what the registry says of the artifacts.                 *)
(***************************************************************************)

\* At most one registrar, in DAG, CLI and dvc together.
Alone == \A p, q \in Registrars : p = q

\* The second document holds every version of the first with its content.
Retains(d, e) ==
    \A n \in 1..Len(d) : \E m \in 1..Len(e) :
        e[m].name = d[n].name /\ e[m].version = d[n].version /\ e[m].sum = d[n].sum

LEMMA RetainsItself == \A d : Retains(d, d)
  BY DEF Retains

\* The registration of one observation forgets nothing: a new content is
\* appended, a known one keeps its version.
LEMMA RegisteredRetains ==
    ASSUME NEW doc, GoodDoc(doc), NEW s \in Stages, NEW parent,
           ParentOf(doc, s, parent), NEW o \in Seen, NEW d, Retains(d, doc),
           NEW D, D = Registered(doc, s, parent, o)
    PROVE  Retains(d, D)
<1> DEFINE v == SelectVersion(doc, s, o.sum)
           x == EntryOf(s, v, parent, o)
           k == FirstKnown(doc, s, o.sum)
<1>1. v \in Nat \ {0} /\ Len(doc) \in Nat
  BY SelectedVersion, MatchesIn
<1>2. /\ x \in DocEntries /\ x.name = s /\ x.version = v /\ x.sum = o.sum
  <2>1. parent \in Nat
    BY DEF ParentOf
  <2>2. ASSUME NEW w \in Nat \ {0}
        PROVE  /\ EntryOf(s, w, parent, o) \in DocEntries
               /\ EntryOf(s, w, parent, o).name = s
               /\ EntryOf(s, w, parent, o).version = w
               /\ EntryOf(s, w, parent, o).sum = o.sum
    BY <2>1, EntryFields
  <2>3. v \in Nat \ {0}
    BY <1>1
  <2> HIDE DEF v
  <2> QED
    BY <2>2, <2>3
<1>3. /\ \A n \in 1..Len(doc) : n \in 1..Len(D)
      /\ \A n \in 1..Len(doc) : D[n].name = doc[n].name
      /\ \A n \in 1..Len(doc) : D[n].version = doc[n].version
      /\ \A n \in 1..Len(doc) : D[n].sum = doc[n].sum
  <2>1. CASE Known(doc, s, o.sum) = {}
    <3>1. D = Append(Superseded(doc, s), x)
      BY <2>1 DEF Registered
    <3> HIDE DEF x
    <3> QED
      BY <1>1, <1>2, <3>1, SupersededFields
  <2>2. CASE Known(doc, s, o.sum) # {}
    <3>1. /\ k \in 1..Len(doc) /\ doc[k].name = s /\ doc[k].sum = o.sum
          /\ v = doc[k].version
      BY <2>2, FirstKnownIn, MatchesIn DEF SelectVersion
    <3>2. D = [doc EXCEPT ![k] = x] /\ doc \in Seq(DocEntries)
      BY <2>2 DEF Registered, GoodDoc
    <3> HIDE DEF x, k, v
    <3>3. Len(D) = Len(doc) /\ D[k] = x
      BY <3>1, <3>2
    <3>4. \A n \in 1..Len(doc) : n # k => D[n] = doc[n]
      BY <3>2
    <3> QED
      BY <1>2, <3>1, <3>3, <3>4
  <2> QED
    BY <2>1, <2>2
<1> QED
  BY <1>3 DEF Retains

\* What a lone registrar carries: its document retains the published one, and
\* so does the complete temporary file it is about to rename.
LoneInv(r) ==
    /\ r.mixed = FALSE
    /\ r.target = "temp"
    /\ r.pc \in {"register", "open", "writing"} => Retains(registry.doc, r.doc)
    /\ r.pc = "replace" => temp.state = "doc" /\ Retains(registry.doc, temp.doc)

SingleInv ==
    /\ registry.state # "torn"
    /\ \A p \in Registrars : LoneInv(proc[p])

\* A step of the registrar that leaves the registry alone.
LEMMA LoneStep ==
    ASSUME Alone, SingleInv, NEW p \in Registrars, NEW r,
           proc \in [Registrars -> Registrations],
           Become(p, r), UNCHANGED registry,
           r.mixed = FALSE, r.target = "temp",
           r.pc \in {"register", "open", "writing"} =>
              Retains(registry.doc, r.doc),
           r.pc = "replace" =>
              temp'.state = "doc" /\ Retains(registry.doc, temp'.doc)
    PROVE  SingleInv'
<1>1. \A q \in Registrars : q = p /\ proc'[q] = r
  BY DEF Alone, Become
<1>2. registry'.state # "torn"
  BY DEF SingleInv
<1>3. /\ r.pc \in {"register", "open", "writing"} =>
            Retains(registry.doc, r.doc)'
      /\ r.pc = "replace" => (temp.state = "doc" /\ Retains(registry.doc, temp.doc))'
  BY DEF Retains
<1> QED
  BY <1>1, <1>2, <1>3 DEF SingleInv, LoneInv

\* A registrar that starts over.
LEMMA LoneReset ==
    ASSUME Alone, SingleInv, NEW p \in Registrars,
           proc \in [Registrars -> Registrations],
           ResetOn(p), UNCHANGED registry
    PROVE  SingleInv'
<1>1. Idle.mixed = FALSE /\ Idle.target = "temp" /\ Idle.pc = "idle"
  BY DEF Idle
<1> QED
  BY <1>1, LoneStep DEF ResetOn
-----------------------------------------------------------------------------
(***************************************************************************)
(* The steps that change what the registrar carries or what is on disk.    *)
(***************************************************************************)

\* What both invariants say of a registrar.
LEMMA LoneFacts ==
    ASSUME DocsInv, SingleInv, NEW p \in Registrars, NEW r, r = proc[p]
    PROVE  /\ proc \in [Registrars -> Registrations]
           /\ r \in Registrations /\ LoneInv(r)
  BY DEF DocsInv, TypeOK, SingleInv

LEMMA LoneStart ==
    ASSUME Alone, DocsInv, SingleInv, NEW p \in Registrars, Start(p)
    PROVE  SingleInv'
<1>1. PICK todo : Become(p, [Idle EXCEPT !.pc = "observe", !.todo = todo])
  BY DEF Start
<1> DEFINE r == [Idle EXCEPT !.pc = "observe", !.todo = todo]
<1>2. r.mixed = FALSE /\ r.target = "temp" /\ r.pc = "observe"
  BY DEF Idle
<1> HIDE DEF r
<1>3. Become(p, r)
  BY <1>1 DEF r
<1> QED
  BY <1>2, <1>3, LoneStep, LoneFacts DEF Start

LEMMA LoneObserve ==
    ASSUME Alone, DocsInv, SingleInv, NEW p \in Registrars, Observe(p)
    PROVE  SingleInv'
<1> DEFINE r == proc[p]
           s == r.todo[r.pos]
           pos == IF r.pos < Len(r.todo) THEN r.pos + 1 ELSE 1
           pc == IF r.pos < Len(r.todo) THEN "observe" ELSE "load"
<1>1. r \in Registrations /\ LoneInv(r)
  BY LoneFacts
<1>2. PICK o : Become(p, [r EXCEPT !.obs[s] = o, !.pos = pos, !.pc = pc])
  BY DEF Observe
<1> DEFINE new == [r EXCEPT !.obs[s] = o, !.pos = pos, !.pc = pc]
<1>3. pc \in {"observe", "load"}
  OBVIOUS
<1> HIDE DEF pos, pc, s
<1>4. new.mixed = FALSE /\ new.target = "temp" /\ new.pc = pc
  BY <1>1 DEF Registrations, LoneInv
<1> HIDE DEF new
<1>5. Become(p, new)
  BY <1>2 DEF new
<1> QED
  BY <1>3, <1>4, <1>5, LoneStep, LoneFacts DEF Observe

LEMMA LoneLoad ==
    ASSUME Alone, DocsInv, SingleInv, NEW p \in Registrars, Load(p)
    PROVE  SingleInv'
<1> DEFINE r == proc[p]
           current == [s \in Stages |-> CurrentIn(registry.doc, s)]
           new == [r EXCEPT !.pc = "register", !.doc = registry.doc,
                            !.current = current]
<1>1. r \in Registrations /\ LoneInv(r)
  BY LoneFacts
<1> HIDE DEF current
<1>2. /\ new.mixed = FALSE /\ new.target = "temp" /\ new.pc = "register"
      /\ new.doc = registry.doc
  BY <1>1 DEF Registrations, LoneInv
<1> HIDE DEF new
<1>3. Become(p, new)
  BY DEF Load, SingleInv, new, current
<1> QED
  BY <1>2, <1>3, RetainsItself, LoneStep, LoneFacts DEF Load

LEMMA LoneRegisterStage ==
    ASSUME Alone, DocsInv, SingleInv, NEW p \in Registrars, RegisterStage(p)
    PROVE  SingleInv'
<1> DEFINE r == proc[p]
           s == r.todo[r.pos]
           parent == IF s = Root THEN 0 ELSE r.current[Parent[s]]
           doc == Registered(r.doc, s, parent, r.obs[s])
           current == [r.current EXCEPT ![s] = SelectVersion(r.doc, s, r.obs[s].sum)]
           pos == IF r.pos < Len(r.todo) THEN r.pos + 1 ELSE 1
           pc == IF r.pos < Len(r.todo) THEN "register" ELSE "open"
           new == [r EXCEPT !.doc = doc, !.current = current, !.pos = pos,
                            !.pc = pc]
<1>1. r \in Registrations /\ LoneInv(r) /\ r.pc = "register"
  BY LoneFacts DEF RegisterStage
<1>2. Retains(registry.doc, r.doc)
  BY <1>1 DEF LoneInv
<1>3. /\ s \in Stages /\ GoodDoc(r.doc) /\ r.obs[s] \in Seen
      /\ ParentOf(r.doc, s, parent)
  BY RegisterStageInputs
<1>4. Retains(registry.doc, doc)
  <2> HIDE DEF parent, s, r
  <2> QED
    BY <1>2, <1>3, RegisteredRetains
<1>5. pc \in {"register", "open"}
  OBVIOUS
<1> HIDE DEF doc, current, pos, pc
<1>6. /\ new.mixed = FALSE /\ new.target = "temp" /\ new.pc = pc
      /\ new.doc = doc
  BY <1>1 DEF Registrations, LoneInv
<1> HIDE DEF new
<1>7. Become(p, new)
  BY DEF RegisterStage, new, doc, current, pos, pc, parent
<1> QED
  BY <1>4, <1>5, <1>6, <1>7, LoneStep, LoneFacts DEF RegisterStage

LEMMA LoneOpenTemp ==
    ASSUME Alone, DocsInv, SingleInv, NEW p \in Registrars, OpenTemp(p)
    PROVE  SingleInv'
<1> DEFINE r == proc[p]
           writers == {q \in Registrars :
                          proc[q].pc = "writing" /\ proc[q].target = "temp"}
<1>1. r \in Registrations /\ LoneInv(r) /\ r.pc = "open"
  BY LoneFacts DEF OpenTemp
<1>2. writers = {}
  BY <1>1 DEF Alone
<1>3. PICK new : new = [r EXCEPT !.pc = "writing", !.target = "temp",
                                 !.mixed = FALSE]
  OBVIOUS
<1>4. /\ new.mixed = FALSE /\ new.target = "temp" /\ new.pc = "writing"
      /\ new.doc = r.doc
  BY <1>1, <1>3 DEF Registrations
<1>5. proc \in [Registrars -> Registrations] /\ Retains(registry.doc, r.doc)
  BY <1>1, LoneFacts DEF LoneInv
<1>6. Become(p, new)
  BY <1>2, <1>3, <1>5 DEF OpenTemp, Alone, Become
<1> QED
  BY <1>4, <1>5, <1>6, LoneStep DEF OpenTemp

LEMMA LoneFinishWrite ==
    ASSUME Alone, DocsInv, SingleInv, NEW p \in Registrars, FinishWrite(p)
    PROVE  SingleInv'
<1> DEFINE r == proc[p]
           new == [Idle EXCEPT !.pc = "replace", !.todo = r.todo,
                               !.obs = r.obs]
<1>1. r \in Registrations /\ LoneInv(r) /\ r.pc = "writing"
  BY LoneFacts DEF FinishWrite
<1>2. temp' = Written(r.doc) /\ UNCHANGED registry /\ Become(p, new)
  BY <1>1 DEF FinishWrite, LoneInv
<1>3. temp'.state = "doc" /\ temp'.doc = r.doc
  BY <1>2 DEF Written
<1>4. Retains(registry.doc, r.doc)
  BY <1>1 DEF LoneInv
<1>5. new.mixed = FALSE /\ new.target = "temp" /\ new.pc = "replace"
  BY DEF Idle
<1> HIDE DEF new
<1> QED
  BY <1>2, <1>3, <1>4, <1>5, LoneStep, LoneFacts

LEMMA LoneReplace ==
    ASSUME Alone, DocsInv, SingleInv, NEW p \in Registrars, Replace(p)
    PROVE  SingleInv' /\ Retains(registry.doc, registry'.doc)
<1> DEFINE r == proc[p]
           new == [r EXCEPT !.pc = "done"]
<1>1. r \in Registrations /\ LoneInv(r) /\ r.pc = "replace"
  BY LoneFacts DEF Replace
<1>2. temp.state = "doc" /\ Retains(registry.doc, temp.doc)
  BY <1>1 DEF LoneInv
<1>3. /\ temp # NoFile /\ registry' = temp
      /\ \A q \in Registrars : q = p /\ proc'[q] = new
  BY <1>2 DEF Replace, NoFile, Alone
<1>4. new.mixed = FALSE /\ new.target = "temp" /\ new.pc = "done"
  BY <1>1 DEF Registrations, LoneInv
<1> HIDE DEF new
<1>5. \A q \in Registrars : LoneInv(proc[q])'
  BY <1>3, <1>4 DEF LoneInv
<1> QED
  BY <1>2, <1>3, <1>5 DEF SingleInv
-----------------------------------------------------------------------------
(***************************************************************************)
(* The theorems.                                                           *)
(***************************************************************************)

LEMMA LoneInit == Init => SingleInv
  BY DEF Init, NoFile, Idle, SingleInv, LoneInv

\* Every step of a lone registrar, and of the artifacts, keeps the invariant
\* and what the document holds.
LEMMA LoneNext ==
    ASSUME Alone, DocsInv, SingleInv, [Next]_vars
    PROVE  SingleInv' /\ Retains(registry.doc, registry'.doc)
<1>1. CASE UNCHANGED <<registry, temp, proc>>
  <2>1. \A q \in Registrars : LoneInv(proc[q])'
    BY <1>1 DEF SingleInv, LoneInv, Retains
  <2> QED
    BY <1>1, <2>1, RetainsItself DEF SingleInv
<1>2. ASSUME NEW s \in Stages, NEW status \in Statuses, Produce(s, status)
      PROVE  UNCHANGED <<registry, temp, proc>>
  BY <1>2 DEF Produce
<1>3. ASSUME NEW s \in Stages, Restore(s)
      PROVE  UNCHANGED <<registry, temp, proc>>
  BY <1>3 DEF Restore
<1>4. CASE UNCHANGED registry /\ SingleInv'
  BY <1>4, RetainsItself
<1>5. ASSUME NEW p \in Registrars, Start(p)
      PROVE  UNCHANGED registry /\ SingleInv'
  BY <1>5, LoneStart DEF Start
<1>6. ASSUME NEW p \in Registrars, Observe(p)
      PROVE  UNCHANGED registry /\ SingleInv'
  BY <1>6, LoneObserve DEF Observe
<1>7. ASSUME NEW p \in Registrars, ObserveFails(p)
      PROVE  UNCHANGED registry /\ SingleInv'
  BY <1>7, LoneReset, LoneFacts DEF ObserveFails
<1>8. ASSUME NEW p \in Registrars, Load(p)
      PROVE  UNCHANGED registry /\ SingleInv'
  BY <1>8, LoneLoad DEF Load
<1>9. ASSUME NEW p \in Registrars, RegisterStage(p)
      PROVE  UNCHANGED registry /\ SingleInv'
  BY <1>9, LoneRegisterStage DEF RegisterStage
<1>10. ASSUME NEW p \in Registrars, OpenTemp(p)
       PROVE  UNCHANGED registry /\ SingleInv'
  BY <1>10, LoneOpenTemp DEF OpenTemp
<1>11. ASSUME NEW p \in Registrars, FinishWrite(p)
       PROVE  UNCHANGED registry /\ SingleInv'
  <2>1. proc[p].target = "temp"
    BY LoneFacts DEF LoneInv
  <2> QED
    BY <1>11, <2>1, LoneFinishWrite DEF FinishWrite
<1>12. ASSUME NEW p \in Registrars, Crash(p)
       PROVE  UNCHANGED registry /\ SingleInv'
  BY <1>12, LoneReset, LoneFacts DEF Crash
<1>13. UNCHANGED vars => UNCHANGED <<registry, temp, proc>>
  BY DEF vars
<1> QED
  BY <1>1, <1>2, <1>3, <1>4, <1>5, <1>6, <1>7, <1>8, <1>9, <1>10, <1>11,
     <1>12, <1>13, LoneReplace DEF Next

\* A document that retains another one's versions does so as published.
LEMMA RetainedAsPublished ==
    ASSUME Retains(registry.doc, registry'.doc)
    PROVE  registry.state = "doc" /\ registry'.state = "doc" =>
               \A n \in 1..Len(Published) :
                  \E m \in 1..Len(Published') :
                      /\ Published'[m].name = Published[n].name
                      /\ Published'[m].version = Published[n].version
                      /\ Published'[m].sum = Published[n].sum
  BY DEF Published, Retains

\* With one registrar the document on disk can always be read, even if the
\* registrar dies between any two steps of _write_json.
THEOREM LoneRegistryIsReadable ==
    ASSUME Alone PROVE Spec => []RegistryIsReadable
<1>1. DocsInv /\ SingleInv /\ [Next]_vars => SingleInv'
  BY LoneNext
<1>2. SingleInv => RegistryIsReadable
  BY DEF SingleInv, RegistryIsReadable
<1> QED
  BY <1>1, <1>2, LoneInit, DocsInvariant, PTL DEF Spec

\* With one registrar no registered version is ever forgotten or given
\* another content, whatever the stages and dvc do to the artifacts.
THEOREM LoneHistoryIsRetained ==
    ASSUME Alone PROVE Spec => HistoryIsRetained
<1>1. DocsInv /\ SingleInv /\ [Next]_vars => SingleInv'
  BY LoneNext
<1>2. DocsInv /\ SingleInv /\ [Next]_vars =>
        [registry.state = "doc" /\ registry'.state = "doc" =>
            \A n \in 1..Len(Published) :
               \E m \in 1..Len(Published') :
                   /\ Published'[m].name = Published[n].name
                   /\ Published'[m].version = Published[n].version
                   /\ Published'[m].sum = Published[n].sum]_vars
  BY LoneNext, RetainedAsPublished
<1> QED
  BY <1>1, <1>2, LoneInit, DocsInvariant, PTL DEF Spec, HistoryIsRetained
-----------------------------------------------------------------------------
(***************************************************************************)
(* The document after one registration, entry by entry.                    *)
(***************************************************************************)

\* Two entries that differ at most in their flag.
SameEntry(e, f) ==
    /\ e.name = f.name /\ e.version = f.version /\ e.parent = f.parent
    /\ e.sum = f.sum /\ e.input = f.input

LEMMA SupersededEntries ==
    ASSUME NEW doc, GoodDoc(doc), NEW s, NEW n \in 1..Len(doc)
    PROVE  /\ SameEntry(Superseded(doc, s)[n], doc[n])
           /\ Superseded(doc, s)[n].is_current <=> (doc[n].is_current /\ doc[n].name # s)
<1>1. doc[n] \in DocEntries
  BY MatchesIn
<1>2. Superseded(doc, s)[n] = IF doc[n].name = s THEN [doc[n] EXCEPT !.is_current = FALSE]
                              ELSE doc[n]
  BY DEF Superseded
<1> QED
  BY <1>1, <1>2 DEF DocEntries, SameEntry

\* Entry i of document D tells observation o of stage s: it has its place at the
\* end if the content is new. The other entries stay what they are in doc, and
\* the stage's are not current any more if the content is new.
EntersAt(doc, D, s, parent, o, i) ==
    /\ Len(D) \in Nat /\ i \in 1..Len(D)
    /\ D[i].name = s /\ D[i].version = SelectVersion(doc, s, o.sum)
    /\ D[i].parent = parent /\ D[i].sum = o.sum /\ D[i].input = o.input
    /\ D[i].is_current = TRUE
    /\ \A n \in 1..Len(doc) : n \in 1..Len(D)
    /\ Known(doc, s, o.sum) = {} => i = Len(doc) + 1
    /\ Known(doc, s, o.sum) # {} =>
          i \in Matches(doc, s) /\ doc[i].sum = o.sum /\ doc[i].version = D[i].version
    /\ \A n \in 1..Len(D) : n # i =>
          /\ n \in 1..Len(doc) /\ SameEntry(D[n], doc[n])
          /\ D[n].is_current <=>
                (doc[n].is_current /\ (doc[n].name # s \/ Known(doc, s, o.sum) # {}))

LEMMA RegisteredEntries ==
    ASSUME NEW doc, GoodDoc(doc), NEW s \in Stages, NEW parent, NEW o \in Seen,
           NEW D, D = Registered(doc, s, parent, o)
    PROVE  \E i : EntersAt(doc, D, s, parent, o, i)
<1> DEFINE x == EntryOf(s, SelectVersion(doc, s, o.sum), parent, o)
<1>1. /\ x.name = s /\ x.version = SelectVersion(doc, s, o.sum) /\ x.parent = parent
      /\ x.is_current = TRUE /\ x.sum = o.sum /\ x.input = o.input
  BY DEF EntryOf
<1>2. Len(doc) \in Nat /\ doc \in Seq(DocEntries)
  BY MatchesIn DEF GoodDoc
<1>3. CASE Known(doc, s, o.sum) = {}
  <2>1. D = Append(Superseded(doc, s), x)
    BY <1>3 DEF Registered
  <2>2. Superseded(doc, s) \in Seq(DocEntries) /\ Len(Superseded(doc, s)) = Len(doc)
    BY SupersededFields
  <2> HIDE DEF x
  <2>3. /\ Len(D) = Len(doc) + 1 /\ D[Len(doc) + 1] = x
        /\ \A n \in 1..Len(doc) : D[n] = Superseded(doc, s)[n]
    BY <1>2, <2>1, <2>2
  <2>4. \A n \in 1..Len(doc) :
           /\ SameEntry(D[n], doc[n])
           /\ D[n].is_current <=> (doc[n].is_current /\ doc[n].name # s)
    BY <2>3, SupersededEntries
  <2> QED
    BY <1>1, <1>2, <1>3, <2>3, <2>4 DEF EntersAt
<1>4. CASE Known(doc, s, o.sum) # {}
  <2> DEFINE k == FirstKnown(doc, s, o.sum)
  <2>1. /\ k \in Matches(doc, s) /\ doc[k].sum = o.sum
        /\ doc[k].version = SelectVersion(doc, s, o.sum) /\ k \in 1..Len(doc)
    BY <1>4, FirstKnownIn, MatchesIn DEF SelectVersion
  <2>2. D = [doc EXCEPT ![k] = x]
    BY <1>4 DEF Registered
  <2> HIDE DEF x, k
  <2>3. Len(D) = Len(doc) /\ D[k] = x /\ \A n \in 1..Len(doc) : n # k => D[n] = doc[n]
    BY <1>2, <2>1, <2>2
  <2>4. \A n \in 1..Len(D) : n # k => SameEntry(D[n], doc[n])
    BY <2>3 DEF SameEntry
  <2> QED
    BY <1>1, <1>2, <1>4, <2>1, <2>3, <2>4 DEF EntersAt
<1> QED
  BY <1>3, <1>4
-----------------------------------------------------------------------------
(***************************************************************************)
(* The steps of the registrar that change what it carries.                 *)
(***************************************************************************)

LEMMA StartFields ==
    ASSUME NEW p \in Registrars, Start(p)
    PROVE  \E r : /\ Become(p, r) /\ r.pc = "observe" /\ r.pos = 1 /\ r.doc = <<>>
                  /\ scheduled => r.todo = Order /\ UpToDate
                  /\ \A s \in Stages : r.obs[s].sum = 0
<1>1. PICK todo : /\ Become(p, [Idle EXCEPT !.pc = "observe", !.todo = todo])
                  /\ scheduled => todo = Order
  BY DEF Start
<1>2. PICK r : r = [Idle EXCEPT !.pc = "observe", !.todo = todo]
  OBVIOUS
<1>3. /\ r.pc = "observe" /\ r.pos = 1 /\ r.doc = <<>> /\ r.todo = todo
      /\ \A s \in Stages : r.obs[s].sum = 0
  BY <1>2 DEF Idle, Unseen
<1> QED
  BY <1>1, <1>2, <1>3 DEF Start

LEMMA ObserveFields ==
    ASSUME DocsInv, NEW p \in Registrars, Observe(p), NEW r, r = proc[p],
           NEW s, s = r.todo[r.pos]
    PROVE  /\ r.pc = "observe" /\ r.pos \in 1..Len(r.todo) /\ Len(r.todo) \in Nat
           /\ s \in Stages /\ r.todo \in Seq(Stages)
           /\ \E new :
                /\ Become(p, new) /\ new.todo = r.todo /\ new.doc = r.doc
                /\ new.obs[s].sum = content[s] /\ new.obs[s].input = basis[s]
                /\ \A t \in Stages : t # s => new.obs[t] = r.obs[t]
                /\ \/ new.pc = "observe" /\ new.pos = r.pos + 1
                   \/ new.pc = "load" /\ new.pos = 1 /\ r.pos = Len(r.todo)
<1>1. RegistrationInv(r) /\ r \in Registrations /\ r.pc = "observe"
  BY DEF DocsInv, RegistrationInv, Observe
<1>2. r.todo \in Seq(Stages) /\ Len(r.todo) \in Nat /\ r.pos \in 1..Len(r.todo) /\ s \in Stages
  BY <1>1, WorksOn
<1>3. PICK o : /\ o.sum = content[s] /\ o.input = basis[s]
               /\ Become(p, [r EXCEPT !.obs[s] = o,
                        !.pos = IF r.pos < Len(r.todo) THEN r.pos + 1 ELSE 1,
                        !.pc = IF r.pos < Len(r.todo) THEN "observe" ELSE "load"])
  <2>1. PICK m : Become(p, [r EXCEPT
                  !.obs[s] = [sum |-> content[s], run |-> m.run,
                              status |-> m.status, input |-> basis[s]],
                  !.pos = IF r.pos < Len(r.todo) THEN r.pos + 1 ELSE 1,
                  !.pc = IF r.pos < Len(r.todo) THEN "observe" ELSE "load"])
    BY DEF Observe
  <2>2. PICK o : o = [sum |-> content[s], run |-> m.run, status |-> m.status, input |-> basis[s]]
    OBVIOUS
  <2> QED
    BY <2>1, <2>2
<1> DEFINE obs == [r.obs EXCEPT ![s] = o]
           pos == IF r.pos < Len(r.todo) THEN r.pos + 1 ELSE 1
           pc == IF r.pos < Len(r.todo) THEN "observe" ELSE "load"
           new == [r EXCEPT !.obs = obs, !.pos = pos, !.pc = pc]
<1>4. obs[s] = o /\ \A t \in Stages : t # s => obs[t] = r.obs[t]
  BY <1>1, <1>2, RegistrationFields
<1>5. \/ pc = "observe" /\ pos = r.pos + 1
      \/ pc = "load" /\ pos = 1 /\ r.pos = Len(r.todo)
  BY <1>2
<1>6. Become(p, new)
  BY <1>3
<1> HIDE DEF obs, pos, pc
<1>7. /\ new.todo = r.todo /\ new.doc = r.doc /\ new.obs = obs
      /\ new.pc = pc /\ new.pos = pos
  BY <1>1 DEF Registrations
<1> HIDE DEF new
<1> QED
  BY <1>1, <1>2, <1>3, <1>4, <1>5, <1>6, <1>7

LEMMA LoadFields ==
    ASSUME DocsInv, NEW p \in Registrars, Load(p), NEW r, r = proc[p]
    PROVE  \/ ResetOn(p)
           \/ \E new : /\ Become(p, new) /\ r.pc = "load" /\ new.pc = "register"
                       /\ new.todo = r.todo /\ new.pos = r.pos /\ new.obs = r.obs
                       /\ new.doc = registry.doc
                       /\ \A s \in Stages : new.current[s] = CurrentIn(registry.doc, s)
<1> DEFINE current == [s \in Stages |-> CurrentIn(registry.doc, s)]
           new == [r EXCEPT !.pc = "register", !.doc = registry.doc, !.current = current]
<1>1. r \in Registrations
  BY DEF DocsInv, RegistrationInv
<1>2. \A s \in Stages : current[s] = CurrentIn(registry.doc, s)
  OBVIOUS
<1>3. ResetOn(p) \/ Become(p, new)
  BY DEF Load
<1> HIDE DEF current
<1>4. /\ new.pc = "register" /\ new.todo = r.todo /\ new.pos = r.pos /\ new.obs = r.obs
      /\ new.doc = registry.doc /\ new.current = current
  BY <1>1 DEF Registrations
<1> HIDE DEF new
<1> QED
  BY <1>2, <1>3, <1>4 DEF Load

LEMMA RegisterStageFields ==
    ASSUME DocsInv, NEW p \in Registrars, RegisterStage(p), NEW r, r = proc[p],
           NEW s, s = r.todo[r.pos], NEW parent,
           parent = IF s = Root THEN 0 ELSE r.current[Parent[s]]
    PROVE  /\ r.pc = "register" /\ r.pos \in 1..Len(r.todo) /\ Len(r.todo) \in Nat
           /\ r.todo \in Seq(Stages) /\ s \in Stages /\ GoodDoc(r.doc) /\ r.obs[s] \in Seen
           /\ \E new :
                /\ Become(p, new) /\ new.todo = r.todo /\ new.obs = r.obs
                /\ new.doc = Registered(r.doc, s, parent, r.obs[s])
                /\ new.current[s] = SelectVersion(r.doc, s, r.obs[s].sum)
                /\ \A t \in Stages : t # s => new.current[t] = r.current[t]
                /\ \/ new.pc = "register" /\ new.pos = r.pos + 1
                   \/ new.pc = "open" /\ r.pos = Len(r.todo)
<1> DEFINE doc == Registered(r.doc, s, parent, r.obs[s])
           v == SelectVersion(r.doc, s, r.obs[s].sum)
           current == [r.current EXCEPT ![s] = v]
           pos == IF r.pos < Len(r.todo) THEN r.pos + 1 ELSE 1
           pc == IF r.pos < Len(r.todo) THEN "register" ELSE "open"
           new == [r EXCEPT !.doc = doc, !.current = current, !.pos = pos, !.pc = pc]
<1>1. RegistrationInv(r) /\ r \in Registrations /\ r.pc = "register"
  BY DEF DocsInv, RegistrationInv, RegisterStage
<1>2. r.todo \in Seq(Stages) /\ Len(r.todo) \in Nat /\ r.pos \in 1..Len(r.todo) /\ s \in Stages
  BY <1>1, WorksOn
<1>3. GoodDoc(r.doc) /\ r.obs[s] \in Seen
  BY RegisterStageInputs
<1>4. Become(p, new)
  <2>1. Become(p, [r EXCEPT !.doc = doc, !.current[s] = v, !.pos = pos, !.pc = pc])
    BY DEF RegisterStage
  <2> HIDE DEF doc, v, pos, pc
  <2> QED
    BY <2>1
<1> HIDE DEF doc, v
<1>5. current[s] = v /\ \A t \in Stages : t # s => current[t] = r.current[t]
  BY <1>1, <1>2, RegistrationFields
<1>6. \/ pc = "register" /\ pos = r.pos + 1
      \/ pc = "open" /\ r.pos = Len(r.todo)
  BY <1>2
<1> HIDE DEF current, pos, pc
<1>7. /\ new.todo = r.todo /\ new.obs = r.obs /\ new.doc = doc /\ new.current = current
      /\ new.pc = pc /\ new.pos = pos
  BY <1>1 DEF Registrations
<1> HIDE DEF new
<1> QED
  BY <1>1, <1>2, <1>3, <1>4, <1>5, <1>6, <1>7 DEF doc, v
-----------------------------------------------------------------------------
(***************************************************************************)
(* All stages registered together: a current entry's parent version is the *)
(* version whose content the artifact was produced from.                   *)
(***************************************************************************)

\* configs/versioning.yaml lists every artifact after its parent.
ParentsFirst ==
    \A n \in 1..Len(Order) : Order[n] # Root =>
        \E m \in 1..(n - 1) : Order[m] = Parent[Order[n]]

\* Version v of stage s is registered with this content.
HasContent(doc, s, v, sum) ==
    \E m \in 1..Len(doc) : doc[m].name = s /\ doc[m].version = v /\ doc[m].sum = sum

\* The parent version of every entry has the content the entry's artifact was
\* produced from.
Supplied(doc) ==
    \A n \in 1..Len(doc) : doc[n].name # Root =>
        HasContent(doc, Parent[doc[n].name], doc[n].parent, doc[n].input)

\* The first n configured stages were observed as they still are.
SeenAsTheyAre(r, n) ==
    \A k \in 1..n : /\ r.obs[Order[k]].sum = content[Order[k]]
                    /\ r.obs[Order[k]].input = basis[Order[k]]

\* The first n configured stages are registered with the content they have.
Placed(r, n) ==
    \A k \in 1..n : HasContent(r.doc, Order[k], r.current[Order[k]], content[Order[k]])

\* A registrar that has not rendered the document yet finds the artifacts as
\* they were when it started.
RunsInOrder(r) ==
    /\ Supplied(r.doc)
    /\ r.pc \in {"observe", "load", "register"} => UpToDate /\ r.todo = Order
    /\ r.pc = "observe" => SeenAsTheyAre(r, r.pos - 1)
    /\ r.pc \in {"load", "register"} => SeenAsTheyAre(r, Len(Order))
    /\ r.pc = "load" => r.pos = 1
    /\ r.pc = "register" => Placed(r, r.pos - 1)

SupplyInv ==
    /\ Supplied(registry.doc) /\ Supplied(temp.doc)
    /\ \A p \in Registrars : RunsInOrder(proc[p])

LEMMA RetainedContent ==
    ASSUME NEW d, NEW e, Retains(d, e), NEW s, NEW v, NEW sum, HasContent(d, s, v, sum)
    PROVE  HasContent(e, s, v, sum)
  BY DEF Retains, HasContent

LEMMA EmptySupplied == Supplied(<<>>)
  BY DEF Supplied

\* An entry whose parent version has the observed input keeps the document
\* supplied.
LEMMA RegisteredSupplied ==
    ASSUME NEW doc, GoodDoc(doc), Supplied(doc), NEW s \in Stages, NEW parent,
           ParentOf(doc, s, parent), NEW o \in Seen,
           s # Root => HasContent(doc, Parent[s], parent, o.input),
           NEW D, D = Registered(doc, s, parent, o)
    PROVE  /\ Supplied(D) /\ Retains(doc, D)
           /\ HasContent(D, s, SelectVersion(doc, s, o.sum), o.sum)
<1>1. Retains(doc, D)
  BY RetainsItself, RegisteredRetains
<1>2. PICK i : EntersAt(doc, D, s, parent, o, i)
  BY RegisteredEntries
<1>3. /\ i \in 1..Len(D)
      /\ D[i].name = s /\ D[i].version = SelectVersion(doc, s, o.sum)
      /\ D[i].parent = parent /\ D[i].sum = o.sum /\ D[i].input = o.input
      /\ \A n \in 1..Len(D) : n # i => n \in 1..Len(doc) /\ SameEntry(D[n], doc[n])
  BY <1>2 DEF EntersAt
<1>4. ASSUME NEW n \in 1..Len(D), D[n].name # Root
      PROVE  HasContent(D, Parent[D[n].name], D[n].parent, D[n].input)
  <2>1. CASE n = i
    BY <1>1, <1>3, <1>4, <2>1, RetainedContent
  <2>2. CASE n # i
    <3>1. /\ n \in 1..Len(doc) /\ D[n].name = doc[n].name
          /\ D[n].parent = doc[n].parent /\ D[n].input = doc[n].input
      BY <1>3, <2>2 DEF SameEntry
    <3>2. HasContent(doc, Parent[doc[n].name], doc[n].parent, doc[n].input)
      BY <1>4, <3>1 DEF Supplied
    <3> QED
      BY <1>1, <3>1, <3>2, RetainedContent
  <2> QED
    BY <2>1, <2>2
<1> QED
  BY <1>1, <1>3, <1>4 DEF Supplied, HasContent

\* A step of registrars that leaves the artifacts alone.
LEMMA SupplySteps ==
    ASSUME UNCHANGED artifacts, Supplied(registry'.doc), Supplied(temp'.doc),
           \A q \in Registrars : RunsInOrder(proc'[q])
    PROVE  SupplyInv'
<1>1. UNCHANGED <<content, basis>>
  BY DEF artifacts
<1>2. Supplied(registry.doc)' /\ Supplied(temp.doc)'
  BY DEF Supplied, HasContent
<1>3. \A q \in Registrars : RunsInOrder(proc[q])'
  BY <1>1 DEF RunsInOrder, Supplied, HasContent, UpToDate, ParentContent,
              SeenAsTheyAre, Placed
<1> QED
  BY <1>2, <1>3 DEF SupplyInv

LEMMA SupplyStep ==
    ASSUME DocsInv, SupplyInv, NEW p \in Registrars, NEW r, Become(p, r),
           UNCHANGED <<artifacts, registry, temp>>, RunsInOrder(r)
    PROVE  SupplyInv'
<1>1. \A q \in Registrars : proc'[q] = IF q = p THEN r ELSE proc[q]
  BY DEF DocsInv, TypeOK, Become
<1>2. \A q \in Registrars : RunsInOrder(proc'[q])
  BY <1>1 DEF SupplyInv
<1> QED
  BY <1>2, SupplySteps DEF SupplyInv

LEMMA IdleInOrder == RunsInOrder(Idle)
  BY EmptySupplied DEF RunsInOrder, Idle

LEMMA SupplyReset ==
    ASSUME DocsInv, SupplyInv, NEW p \in Registrars, ResetOn(p),
           UNCHANGED <<artifacts, registry, temp>>
    PROVE  SupplyInv'
  BY IdleInOrder, SupplyStep DEF ResetOn

LEMMA SupplyStart ==
    ASSUME scheduled, DocsInv, SupplyInv, NEW p \in Registrars, Start(p)
    PROVE  SupplyInv'
<1>1. PICK r : /\ Become(p, r) /\ r.pc = "observe" /\ r.pos = 1 /\ r.doc = <<>>
               /\ r.todo = Order /\ UpToDate
  BY StartFields
<1>2. RunsInOrder(r)
  BY <1>1, EmptySupplied DEF RunsInOrder, SeenAsTheyAre
<1> QED
  BY <1>1, <1>2, SupplyStep DEF Start

LEMMA SupplyObserve ==
    ASSUME scheduled, DocsInv, SupplyInv, NEW p \in Registrars, Observe(p)
    PROVE  SupplyInv'
<1> DEFINE r == proc[p]
           s == r.todo[r.pos]
<1>1. /\ r.pc = "observe" /\ r.pos \in 1..Len(r.todo) /\ Len(r.todo) \in Nat
      /\ s \in Stages /\ r.todo \in Seq(Stages)
  BY ObserveFields
<1>2. PICK new :
         /\ Become(p, new) /\ new.todo = r.todo /\ new.doc = r.doc
         /\ new.obs[s].sum = content[s] /\ new.obs[s].input = basis[s]
         /\ \A t \in Stages : t # s => new.obs[t] = r.obs[t]
         /\ \/ new.pc = "observe" /\ new.pos = r.pos + 1
            \/ new.pc = "load" /\ new.pos = 1 /\ r.pos = Len(r.todo)
  BY ObserveFields
<1>3. Supplied(r.doc) /\ UpToDate /\ r.todo = Order /\ SeenAsTheyAre(r, r.pos - 1)
  BY <1>1 DEF SupplyInv, RunsInOrder
<1>4. SeenAsTheyAre(new, r.pos)
  <2> SUFFICES ASSUME NEW k \in 1..r.pos
               PROVE  /\ new.obs[Order[k]].sum = content[Order[k]]
                      /\ new.obs[Order[k]].input = basis[Order[k]]
    BY DEF SeenAsTheyAre
  <2>1. CASE Order[k] = s
    BY <1>2, <2>1
  <2>2. CASE Order[k] # s
    <3>1. k \in 1..(r.pos - 1) /\ Order[k] \in Stages
      BY <1>1, <1>3, <2>2
    <3> QED
      BY <1>2, <1>3, <2>2, <3>1 DEF SeenAsTheyAre
  <2> QED
    BY <2>1, <2>2
<1>5. RunsInOrder(new)
  BY <1>1, <1>2, <1>3, <1>4 DEF RunsInOrder
<1> QED
  BY <1>2, <1>5, SupplyStep DEF Observe

LEMMA SupplyLoad ==
    ASSUME scheduled, DocsInv, SupplyInv, NEW p \in Registrars, Load(p)
    PROVE  SupplyInv'
<1> DEFINE r == proc[p]
<1>1. CASE ResetOn(p)
  BY <1>1, SupplyReset DEF Load
<1>2. ASSUME NEW new, Become(p, new), r.pc = "load", new.pc = "register",
             new.todo = r.todo, new.pos = r.pos, new.obs = r.obs,
             new.doc = registry.doc
      PROVE  SupplyInv'
  <2>1. /\ UpToDate /\ r.todo = Order /\ SeenAsTheyAre(r, Len(Order)) /\ r.pos = 1
        /\ Supplied(registry.doc)
    BY <1>2 DEF SupplyInv, RunsInOrder
  <2>2. RunsInOrder(new)
    BY <1>2, <2>1 DEF RunsInOrder, SeenAsTheyAre, Placed
  <2> QED
    BY <1>2, <2>2, SupplyStep DEF Load
<1> QED
  BY <1>1, <1>2, LoadFields

\* The parent of the stage a registrar registers was registered before it, with
\* the content the stage was produced from.
LEMMA SupplyRegisterStage ==
    ASSUME scheduled, ParentsFirst, DocsInv, SupplyInv, NEW p \in Registrars,
           RegisterStage(p)
    PROVE  SupplyInv'
<1> DEFINE r == proc[p]
           s == r.todo[r.pos]
           o == r.obs[s]
           parent == IF s = Root THEN 0 ELSE r.current[Parent[s]]
<1>1. /\ r.pc = "register" /\ r.pos \in 1..Len(r.todo) /\ Len(r.todo) \in Nat
      /\ r.todo \in Seq(Stages) /\ s \in Stages /\ GoodDoc(r.doc) /\ o \in Seen
  BY RegisterStageFields
<1>2. PICK new :
         /\ Become(p, new) /\ new.todo = r.todo /\ new.obs = r.obs
         /\ new.doc = Registered(r.doc, s, parent, o)
         /\ new.current[s] = SelectVersion(r.doc, s, o.sum)
         /\ \A t \in Stages : t # s => new.current[t] = r.current[t]
         /\ \/ new.pc = "register" /\ new.pos = r.pos + 1
            \/ new.pc = "open" /\ r.pos = Len(r.todo)
  <2> HIDE DEF parent
  <2> QED
    BY RegisterStageFields DEF parent
<1>3. /\ Supplied(r.doc) /\ UpToDate /\ r.todo = Order /\ Placed(r, r.pos - 1)
      /\ SeenAsTheyAre(r, Len(Order))
  BY <1>1 DEF SupplyInv, RunsInOrder
<1>4. ParentOf(r.doc, s, parent)
  BY RegisterStageInputs
<1>5. o.sum = content[s] /\ o.input = basis[s]
  BY <1>1, <1>3 DEF SeenAsTheyAre
<1>6. s # Root => HasContent(r.doc, Parent[s], parent, o.input)
  <2> SUFFICES ASSUME s # Root PROVE HasContent(r.doc, Parent[s], parent, o.input)
    OBVIOUS
  <2>1. PICK m \in 1..(r.pos - 1) : Order[m] = Parent[s]
    BY <1>1, <1>3 DEF ParentsFirst
  <2>2. HasContent(r.doc, Parent[s], r.current[Parent[s]], content[Parent[s]])
    BY <1>3, <2>1 DEF Placed
  <2>3. o.input = content[Parent[s]]
    BY <1>1, <1>3, <1>5 DEF UpToDate, ParentContent
  <2> QED
    BY <2>2, <2>3
<1> HIDE DEF parent, o, s
<1>7. /\ Supplied(new.doc) /\ Retains(r.doc, new.doc)
      /\ HasContent(new.doc, s, new.current[s], o.sum)
  BY <1>1, <1>2, <1>3, <1>4, <1>6, RegisteredSupplied
<1>8. Placed(new, r.pos)
  <2> SUFFICES ASSUME NEW k \in 1..r.pos
               PROVE  HasContent(new.doc, Order[k], new.current[Order[k]], content[Order[k]])
    BY DEF Placed
  <2>1. CASE Order[k] = s
    BY <1>5, <1>7, <2>1
  <2>2. CASE Order[k] # s
    <3>1. k \in 1..(r.pos - 1) /\ Order[k] \in Stages
      BY <1>1, <1>3, <2>2 DEF s
    <3>2. HasContent(r.doc, Order[k], r.current[Order[k]], content[Order[k]])
      BY <1>3, <3>1 DEF Placed
    <3> QED
      BY <1>2, <1>7, <2>2, <3>1, <3>2, RetainedContent
  <2> QED
    BY <2>1, <2>2
<1>9. RunsInOrder(new)
  <2>1. SeenAsTheyAre(new, Len(Order))
    BY <1>2, <1>3 DEF SeenAsTheyAre
  <2> QED
    BY <1>1, <1>2, <1>3, <1>7, <1>8, <2>1 DEF RunsInOrder
<1> QED
  BY <1>2, <1>9, SupplyStep DEF RegisterStage

\* Opening, filling and renaming a file leaves what a registrar carries.
LEMMA WriterInOrder ==
    ASSUME NEW r \in Registrations, RunsInOrder(r), NEW b
    PROVE  /\ RunsInOrder([r EXCEPT !.pc = "writing", !.target = "temp", !.mixed = b])
           /\ RunsInOrder([r EXCEPT !.mixed = TRUE])
           /\ RunsInOrder([r EXCEPT !.pc = "done"])
           /\ RunsInOrder([r EXCEPT !.target = AfterRename(@)])
<1>1. ASSUME NEW new, new.doc = r.doc, new.pc \in {"writing", "done"}
      PROVE  RunsInOrder(new)
  BY <1>1 DEF RunsInOrder
<1>2. ASSUME NEW new, new.doc = r.doc, new.pc = r.pc, new.todo = r.todo,
             new.pos = r.pos, new.obs = r.obs, new.current = r.current
      PROVE  RunsInOrder(new)
  BY <1>2 DEF RunsInOrder, SeenAsTheyAre, Placed
<1>3. RunsInOrder([r EXCEPT !.pc = "writing", !.target = "temp", !.mixed = b])
  <2>1. PICK new : new = [r EXCEPT !.pc = "writing", !.target = "temp", !.mixed = b]
    OBVIOUS
  <2>2. new.doc = r.doc /\ new.pc = "writing"
    BY <2>1 DEF Registrations
  <2> QED
    BY <1>1, <2>1, <2>2
<1>4. RunsInOrder([r EXCEPT !.mixed = TRUE])
  <2>1. PICK new : new = [r EXCEPT !.mixed = TRUE]
    OBVIOUS
  <2>2. /\ new.doc = r.doc /\ new.pc = r.pc /\ new.todo = r.todo
        /\ new.pos = r.pos /\ new.obs = r.obs /\ new.current = r.current
    BY <2>1 DEF Registrations
  <2> QED
    BY <1>2, <2>1, <2>2
<1>5. RunsInOrder([r EXCEPT !.pc = "done"])
  <2>1. PICK new : new = [r EXCEPT !.pc = "done"]
    OBVIOUS
  <2>2. new.doc = r.doc /\ new.pc = "done"
    BY <2>1 DEF Registrations
  <2> QED
    BY <1>1, <2>1, <2>2
<1>6. RunsInOrder([r EXCEPT !.target = AfterRename(@)])
  <2>1. PICK new : new = [r EXCEPT !.target = AfterRename(@)]
    OBVIOUS
  <2>2. /\ new.doc = r.doc /\ new.pc = r.pc /\ new.todo = r.todo
        /\ new.pos = r.pos /\ new.obs = r.obs /\ new.current = r.current
    BY <2>1 DEF Registrations
  <2> QED
    BY <1>2, <2>1, <2>2
<1> QED
  BY <1>3, <1>4, <1>5, <1>6

LEMMA SupplyOpenTemp ==
    ASSUME DocsInv, SupplyInv, NEW p \in Registrars, OpenTemp(p)
    PROVE  SupplyInv'
<1> DEFINE writers == {q \in Registrars :
                          proc[q].pc = "writing" /\ proc[q].target = "temp"}
           b == writers # {}
<1>1. /\ temp' = Torn /\ UNCHANGED <<artifacts, registry>>
      /\ proc' = [q \in Registrars |->
               IF q = p THEN [proc[q] EXCEPT !.pc = "writing", !.target = "temp", !.mixed = b]
               ELSE IF q \in writers THEN [proc[q] EXCEPT !.mixed = TRUE]
               ELSE proc[q]]
  BY DEF OpenTemp
<1> HIDE DEF b, writers
<1>2. \A q \in Registrars : proc[q] \in Registrations /\ RunsInOrder(proc[q])
  BY DEF DocsInv, TypeOK, SupplyInv
<1>3. \A q \in Registrars : RunsInOrder(proc'[q])
  BY <1>1, <1>2, WriterInOrder
<1>4. Supplied(temp'.doc) /\ Supplied(registry'.doc)
  BY <1>1, EmptySupplied DEF Torn, SupplyInv
<1> QED
  BY <1>1, <1>3, <1>4, SupplySteps

LEMMA SupplyFinishWrite ==
    ASSUME DocsInv, SupplyInv, NEW p \in Registrars, FinishWrite(p)
    PROVE  SupplyInv'
<1> DEFINE r == proc[p]
           new == [Idle EXCEPT !.pc = "replace", !.todo = r.todo, !.obs = r.obs]
<1>1. PICK file \in {Written(r.doc), Torn} :
         /\ temp' = IF r.target = "temp" THEN file ELSE temp
         /\ registry' = IF r.target = "registry" THEN file ELSE registry
  BY DEF FinishWrite
<1>2. Supplied(r.doc)
  BY DEF SupplyInv, RunsInOrder
<1>3. Supplied(temp'.doc) /\ Supplied(registry'.doc)
  BY <1>1, <1>2, EmptySupplied DEF Torn, Written, SupplyInv
<1>4. new.pc = "replace" /\ new.doc = <<>>
  BY DEF Idle
<1>5. Become(p, new) /\ UNCHANGED artifacts
  BY DEF FinishWrite
<1> HIDE DEF new
<1>6. RunsInOrder(new)
  BY <1>4, EmptySupplied DEF RunsInOrder
<1>7. \A q \in Registrars : proc'[q] = IF q = p THEN new ELSE proc[q]
  BY <1>5 DEF DocsInv, TypeOK, Become
<1>8. \A q \in Registrars : RunsInOrder(proc'[q])
  BY <1>6, <1>7 DEF SupplyInv
<1> QED
  BY <1>3, <1>5, <1>8, SupplySteps

LEMMA SupplyReplace ==
    ASSUME DocsInv, SupplyInv, NEW p \in Registrars, Replace(p)
    PROVE  SupplyInv'
<1>1. CASE temp = NoFile
  BY <1>1, SupplyReset DEF Replace
<1>2. CASE temp # NoFile
  <2>1. /\ registry' = temp /\ temp' = NoFile /\ UNCHANGED artifacts
        /\ proc' = [q \in Registrars |->
              IF q = p THEN [proc[q] EXCEPT !.pc = "done"]
              ELSE IF proc[q].pc = "writing"
                   THEN [proc[q] EXCEPT !.target = AfterRename(@)]
                   ELSE proc[q]]
    BY <1>2 DEF Replace
  <2>2. \A q \in Registrars : proc[q] \in Registrations /\ RunsInOrder(proc[q])
    BY DEF DocsInv, TypeOK, SupplyInv
  <2>3. \A q \in Registrars : RunsInOrder(proc'[q])
    BY <2>1, <2>2, WriterInOrder
  <2>4. Supplied(temp'.doc) /\ Supplied(registry'.doc)
    BY <2>1, EmptySupplied DEF NoFile, SupplyInv
  <2> QED
    BY <2>1, <2>3, <2>4, SupplySteps
<1> QED
  BY <1>1, <1>2

\* The stages run, and dvc restores an artifact, between two registrations.
LEMMA SupplyArtifacts ==
    ASSUME SupplyInv, Quiet, UNCHANGED <<registry, temp, proc>>
    PROVE  SupplyInv'
<1>1. \A q \in Registrars : proc[q].pc \in {"idle", "done"} /\ Supplied(proc[q].doc)
  BY DEF Quiet, SupplyInv, RunsInOrder
<1>2. \A q \in Registrars : RunsInOrder(proc[q])'
  BY <1>1 DEF RunsInOrder, Supplied, HasContent
<1> QED
  BY <1>2 DEF SupplyInv, Supplied, HasContent

LEMMA SupplyNext ==
    ASSUME scheduled, ParentsFirst, DocsInv, SupplyInv, [Next]_vars
    PROVE  SupplyInv'
<1>1. ASSUME NEW s \in Stages, NEW status \in Statuses, Produce(s, status)
      PROVE  SupplyInv'
  BY <1>1, SupplyArtifacts DEF Produce
<1>2. ASSUME NEW s \in Stages, Restore(s) PROVE SupplyInv'
  BY <1>2, SupplyArtifacts DEF Restore
<1>3. ASSUME NEW p \in Registrars, Start(p) PROVE SupplyInv'
  BY <1>3, SupplyStart
<1>4. ASSUME NEW p \in Registrars, Observe(p) PROVE SupplyInv'
  BY <1>4, SupplyObserve
<1>5. ASSUME NEW p \in Registrars, ObserveFails(p) PROVE SupplyInv'
  BY <1>5, SupplyReset DEF ObserveFails
<1>6. ASSUME NEW p \in Registrars, Load(p) PROVE SupplyInv'
  BY <1>6, SupplyLoad
<1>7. ASSUME NEW p \in Registrars, RegisterStage(p) PROVE SupplyInv'
  BY <1>7, SupplyRegisterStage
<1>8. ASSUME NEW p \in Registrars, OpenTemp(p) PROVE SupplyInv'
  BY <1>8, SupplyOpenTemp
<1>9. ASSUME NEW p \in Registrars, FinishWrite(p) PROVE SupplyInv'
  BY <1>9, SupplyFinishWrite
<1>10. ASSUME NEW p \in Registrars, Replace(p) PROVE SupplyInv'
  BY <1>10, SupplyReplace
<1>11. ASSUME NEW p \in Registrars, Crash(p) PROVE SupplyInv'
  BY <1>11, SupplyReset DEF Crash
<1>12. CASE UNCHANGED vars
  BY <1>12 DEF vars, SupplyInv, RunsInOrder, Supplied, HasContent, UpToDate,
               ParentContent, SeenAsTheyAre, Placed
<1> QED
  BY <1>1, <1>2, <1>3, <1>4, <1>5, <1>6, <1>7, <1>8, <1>9, <1>10, <1>11, <1>12
  DEF Next

\* A current version is the version of an entry marked is_current.
LEMMA CurrentInAt ==
    ASSUME NEW doc, GoodDoc(doc), NEW s
    PROVE  \/ CurrentIn(doc, s) = 0 /\ \A n \in Matches(doc, s) : ~doc[n].is_current
           \/ \E n \in Matches(doc, s) :
                 doc[n].is_current /\ CurrentIn(doc, s) = doc[n].version
<1> DEFINE at == {n \in 1..Len(doc) : doc[n].name = s /\ doc[n].is_current}
<1>1. CASE at = {}
  BY <1>1 DEF CurrentIn, Matches
<1>2. CASE at # {}
  <2>1. at \in SUBSET Nat /\ Len(doc) \in Nat /\ \A x \in at : x <= Len(doc)
    BY MatchesIn
  <2>2. \E n \in at : \A m \in at : m <= n
    BY <1>2, <2>1, GreatestExists
  <2>3. PICK c : c \in at /\ CurrentIn(doc, s) = doc[c].version
    BY <1>2, <2>2 DEF CurrentIn
  <2> QED
    BY <2>3 DEF Matches
<1> QED
  BY <1>1, <1>2

LEMMA CurrentEntryIn ==
    ASSUME NEW doc, GoodDoc(doc), NEW s, HasCurrent(doc, s)
    PROVE  LET e == CurrentEntry(doc, s)
           IN  e \in Matches(doc, s) /\ doc[e].is_current /\ doc[e].version = CurrentIn(doc, s)
  BY CurrentInAt DEF HasCurrent, CurrentEntry

LEMMA SupplyInit == Init => SupplyInv
  BY EmptySupplied, IdleInOrder DEF Init, SupplyInv, NoFile

\* A deployment keeps to its way of registering.
LEMMA ScheduleStays == [Next]_vars => scheduled' = scheduled
  BY DEF Next, vars, artifacts, Produce, Restore, Start, Observe, ObserveFails,
         Load, RegisterStage, OpenTemp, FinishWrite, Replace, Crash

\* When all stages are registered together, each having run on its parent's
\* output, then with any number of registrars and whatever dvc brings back in
\* between, the lineage's parent record of a current entry has the content the
\* artifact was produced from.
THEOREM ScheduledParentsSupplyInput ==
    ASSUME ParentsFirst PROVE Spec => []ParentSuppliesInput
<1> DEFINE Inv == scheduled => SupplyInv
<1>1. DocsInv /\ Inv /\ [Next]_vars => Inv'
  <2> SUFFICES ASSUME DocsInv, Inv, [Next]_vars, scheduled' PROVE SupplyInv'
    OBVIOUS
  <2>1. scheduled
    BY ScheduleStays
  <2> QED
    BY <2>1, SupplyNext
<1>2. ASSUME DocsInv, Inv PROVE ParentSuppliesInput
  <2> SUFFICES ASSUME scheduled PROVE ParentSuppliesInput
    BY DEF ParentSuppliesInput
  <2>1. GoodDoc(Published) /\ Supplied(Published)
    BY <1>2, PublishedGood, EmptySupplied DEF SupplyInv, Published
  <2> SUFFICES ASSUME NEW s \in Stages \ {Root}, HasCurrent(Published, s)
               PROVE  LET e == Published[CurrentEntry(Published, s)]
                      IN  \E n \in Matches(Published, Parent[s]) :
                             /\ Published[n].version = e.parent
                             /\ Published[n].sum = e.input
    BY DEF ParentSuppliesInput
  <2>2. PICK n : n = CurrentEntry(Published, s)
    OBVIOUS
  <2>3. n \in 1..Len(Published) /\ Published[n].name = s
    BY <2>1, <2>2, CurrentEntryIn DEF Matches
  <2>4. HasContent(Published, Parent[s], Published[n].parent, Published[n].input)
    BY <2>1, <2>3 DEF Supplied
  <2> QED
    BY <2>2, <2>4 DEF HasContent, Matches
<1>3. Init => Inv
  BY SupplyInit
<1> HIDE DEF Inv
<1> QED
  BY <1>1, <1>2, <1>3, DocsInvariant, PTL DEF Spec
-----------------------------------------------------------------------------
(***************************************************************************)
(* What a lone registrar's document says of the artifacts while no content *)
(* comes back: a stage's newest content is its only current version, and a *)
(* complete registration is what verify and the lineage expect.            *)
(***************************************************************************)

\* Entry n is the stage's only current one, and it has the newest content.
OnlyCurrent(doc, s, n) ==
    n \in Matches(doc, s) /\ \A m \in Matches(doc, s) : doc[m].is_current <=> m = n
UpTo(doc, s, sum) == \A n \in Matches(doc, s) : doc[n].sum <= sum

Latest(doc) ==
    \A s \in Stages : Matches(doc, s) # {} =>
        \E n : OnlyCurrent(doc, s, n) /\ UpTo(doc, s, doc[n].sum)

\* The first n stages to register are current with the content observed.
Shows(doc, todo, obs, n) ==
    \A k \in 1..n : \E m \in Matches(doc, todo[k]) :
        doc[m].is_current /\ doc[m].sum = obs[todo[k]].sum

\* The current entries of the first n configured stages name their parent
\* stage's current version.
Links(doc, n) ==
    \A k \in 1..n : Order[k] # Root =>
        \A m \in Matches(doc, Order[k]) : doc[m].is_current =>
            \E j \in Matches(doc, Parent[Order[k]]) :
                doc[j].is_current /\ doc[j].version = doc[m].parent

Complete(doc, todo, obs, n) ==
    Shows(doc, todo, obs, n) /\ (ParentsFirst /\ todo = Order => Links(doc, n))

LEMMA EmptyLatest == Latest(<<>>)
  BY DEF Latest, Matches

\* The version register takes for current is the only current entry's.
LEMMA CurrentInOnly ==
    ASSUME NEW doc, GoodDoc(doc), NEW s, NEW n, OnlyCurrent(doc, s, n)
    PROVE  CurrentIn(doc, s) = doc[n].version
  BY CurrentInAt DEF OnlyCurrent

LEMMA CurrentInNone ==
    ASSUME NEW doc, GoodDoc(doc), NEW s, Matches(doc, s) = {}
    PROVE  CurrentIn(doc, s) = 0
  BY CurrentInAt

\* A stage with a current entry in such a document has no other one.
LEMMA LatestOnly ==
    ASSUME NEW doc, Latest(doc), NEW s \in Stages, NEW n \in Matches(doc, s),
           doc[n].is_current
    PROVE  OnlyCurrent(doc, s, n) /\ UpTo(doc, s, doc[n].sum)
  BY DEF Latest, OnlyCurrent

\* Two contents of a document's stage with one checksum are one entry.
LEMMA OneOfSum ==
    ASSUME NEW doc, GoodDoc(doc), NEW s, NEW m \in Matches(doc, s),
           NEW n \in Matches(doc, s), doc[m].sum = doc[n].sum
    PROVE  m = n
  BY DEF GoodDoc, Unique, Matches

\* Registering a stage leaves the other stages' entries alone.
LEMMA OthersStay ==
    ASSUME NEW doc, NEW D, NEW s, NEW parent, NEW o, NEW i, GoodDoc(doc),
           EntersAt(doc, D, s, parent, o, i), NEW t, t # s
    PROVE  /\ Matches(D, t) = Matches(doc, t)
           /\ \A n \in Matches(doc, t) :
                 SameEntry(D[n], doc[n]) /\ (D[n].is_current <=> doc[n].is_current)
<1>1. i \in 1..Len(D) /\ D[i].name = s
  BY DEF EntersAt
<1>2. \A n \in 1..Len(D) : n # i =>
          /\ n \in 1..Len(doc) /\ SameEntry(D[n], doc[n])
          /\ D[n].is_current <=>
                (doc[n].is_current /\ (doc[n].name # s \/ Known(doc, s, o.sum) # {}))
  BY DEF EntersAt
<1>3. \A n \in Matches(doc, t) : n \in 1..Len(D) /\ n # i
  <2>1. CASE Known(doc, s, o.sum) = {}
    <3>1. i = Len(doc) + 1 /\ Len(doc) \in Nat
      BY <2>1, MatchesIn DEF EntersAt
    <3> QED
      BY <3>1 DEF EntersAt, Matches
  <2>2. CASE Known(doc, s, o.sum) # {}
    BY <2>2 DEF EntersAt, Matches
  <2> QED
    BY <2>1, <2>2
<1>4. \A n \in Matches(doc, t) : doc[n].name = t /\ n \in 1..Len(doc)
  BY DEF Matches
<1>5. \A n \in Matches(D, t) : n \in 1..Len(doc) /\ doc[n].name = t
  BY <1>1, <1>2 DEF Matches, SameEntry
<1>6. Matches(D, t) = Matches(doc, t)
  BY <1>2, <1>3, <1>4, <1>5 DEF Matches, SameEntry
<1> QED
  BY <1>2, <1>3, <1>4, <1>6

\* The entry of an observation that is not older than the stage's registered
\* contents becomes its only current one, and its newest.
LEMMA EnteredOnly ==
    ASSUME NEW doc, GoodDoc(doc), Latest(doc), NEW s \in Stages, NEW parent,
           NEW o \in Seen, UpTo(doc, s, o.sum), NEW D, NEW i,
           EntersAt(doc, D, s, parent, o, i)
    PROVE  OnlyCurrent(D, s, i) /\ UpTo(D, s, o.sum)
<1>1. i \in Matches(D, s) /\ D[i].is_current = TRUE /\ D[i].sum = o.sum
  BY DEF EntersAt, Matches
<1>2. ASSUME NEW n \in Matches(D, s), n # i
      PROVE  /\ n \in Matches(doc, s) /\ D[n].sum = doc[n].sum
             /\ D[n].is_current <=> (doc[n].is_current /\ Known(doc, s, o.sum) # {})
  <2>1. n \in 1..Len(D) /\ D[n].name = s
    BY DEF Matches
  <2>2. /\ n \in 1..Len(doc) /\ SameEntry(D[n], doc[n])
        /\ D[n].is_current <=>
              (doc[n].is_current /\ (doc[n].name # s \/ Known(doc, s, o.sum) # {}))
    BY <1>2, <2>1 DEF EntersAt
  <2> QED
    BY <2>1, <2>2 DEF SameEntry, Matches
<1>3. UpTo(D, s, o.sum)
  BY <1>1, <1>2 DEF UpTo, Seen
<1>4. ASSUME Known(doc, s, o.sum) # {}, NEW n \in Matches(doc, s), doc[n].is_current
      PROVE  n = i
  <2>1. i \in Matches(doc, s) /\ doc[i].sum = o.sum
    BY <1>4 DEF EntersAt
  <2>2. UpTo(doc, s, doc[n].sum)
    BY <1>4, LatestOnly
  <2>3. doc[n].sum <= o.sum /\ o.sum <= doc[n].sum
    BY <2>1, <2>2 DEF UpTo
  <2>4. doc[n].sum \in Nat /\ o.sum \in Nat
    BY MatchesIn DEF Seen, DocEntries, Matches
  <2>5. doc[n].sum = doc[i].sum
    BY <2>1, <2>3, <2>4
  <2> QED
    BY <2>1, <2>5, OneOfSum
<1> QED
  BY <1>1, <1>2, <1>3, <1>4 DEF OnlyCurrent

\* So the document stays a history that ends in the current version.
LEMMA RegisteredLatest ==
    ASSUME NEW doc, GoodDoc(doc), Latest(doc), NEW s \in Stages, NEW parent,
           NEW o \in Seen, UpTo(doc, s, o.sum), NEW D, NEW i,
           EntersAt(doc, D, s, parent, o, i)
    PROVE  Latest(D)
<1> SUFFICES ASSUME NEW t \in Stages, Matches(D, t) # {}
             PROVE  \E n : OnlyCurrent(D, t, n) /\ UpTo(D, t, D[n].sum)
  BY DEF Latest
<1>1. CASE t = s
  <2>1. OnlyCurrent(D, s, i) /\ UpTo(D, s, o.sum)
    BY EnteredOnly
  <2>2. D[i].sum = o.sum
    BY DEF EntersAt
  <2> QED
    BY <1>1, <2>1, <2>2
<1>2. CASE t # s
  <2>1. /\ Matches(D, t) = Matches(doc, t)
        /\ \A n \in Matches(doc, t) :
              SameEntry(D[n], doc[n]) /\ (D[n].is_current <=> doc[n].is_current)
    BY <1>2, OthersStay
  <2>2. PICK n : OnlyCurrent(doc, t, n) /\ UpTo(doc, t, doc[n].sum)
    BY <2>1 DEF Latest
  <2>3. OnlyCurrent(D, t, n)
    BY <2>1, <2>2 DEF OnlyCurrent
  <2>4. UpTo(D, t, D[n].sum)
    BY <2>1, <2>2 DEF OnlyCurrent, UpTo, SameEntry
  <2> QED
    BY <2>3, <2>4
<1> QED
  BY <1>1, <1>2

\* A stage that is current with the observed content stays what it is: a second
\* registration of it finds its own entry.
LEMMA ShownStays ==
    ASSUME NEW doc, GoodDoc(doc), Latest(doc), NEW s \in Stages, NEW parent,
           NEW o \in Seen, NEW D, NEW i, EntersAt(doc, D, s, parent, o, i),
           NEW t \in Stages, NEW j \in Matches(doc, t), doc[j].is_current,
           t = s => doc[j].sum = o.sum
    PROVE  /\ j \in Matches(D, t) /\ D[j].is_current
           /\ D[j].version = doc[j].version /\ D[j].sum = doc[j].sum
<1>1. CASE t # s
  BY <1>1, OthersStay DEF SameEntry
<1>2. CASE t = s
  <2>1. Known(doc, s, o.sum) # {}
    BY <1>2 DEF Known
  <2>2. i \in Matches(doc, s) /\ doc[i].sum = o.sum /\ doc[i].version = D[i].version
    BY <2>1 DEF EntersAt
  <2>3. i = j
    BY <1>2, <2>2, OneOfSum
  <2> QED
    BY <1>2, <2>2, <2>3 DEF EntersAt, Matches
<1> QED
  BY <1>1, <1>2

\* Registering the next stage, with its parent's current version, completes the
\* registration up to it.
LEMMA RegisteredComplete ==
    ASSUME NEW doc, GoodDoc(doc), Latest(doc), NEW todo \in Seq(Stages), NEW obs,
           NEW n \in 1..Len(todo), Complete(doc, todo, obs, n - 1),
           NEW s, s = todo[n], NEW parent,
           parent = IF s = Root THEN 0 ELSE CurrentIn(doc, Parent[s]),
           obs[s] \in Seen, UpTo(doc, s, obs[s].sum),
           NEW D, NEW i, EntersAt(doc, D, s, parent, obs[s], i)
    PROVE  Complete(D, todo, obs, n)
<1> DEFINE o == obs[s]
<1>1. s \in Stages /\ Len(todo) \in Nat /\ n \in Nat
  BY ElementOf
<1>2. OnlyCurrent(D, s, i) /\ D[i].sum = o.sum /\ D[i].parent = parent
  BY <1>1, EnteredOnly DEF EntersAt
<1>3. ASSUME NEW k \in 1..(n - 1)
      PROVE  \E j \in Matches(D, todo[k]) :
                /\ D[j].is_current /\ D[j].sum = obs[todo[k]].sum
                /\ D[j].version = CurrentIn(doc, todo[k])
  <2>1. todo[k] \in Stages
    BY <1>1, ElementOf
  <2>2. PICK j \in Matches(doc, todo[k]) :
           doc[j].is_current /\ doc[j].sum = obs[todo[k]].sum
    BY DEF Complete, Shows
  <2>3. doc[j].version = CurrentIn(doc, todo[k])
    BY <2>1, <2>2, LatestOnly, CurrentInOnly
  <2>4. todo[k] = s => doc[j].sum = o.sum
    BY <2>2
  <2>5. /\ j \in Matches(D, todo[k]) /\ D[j].is_current
        /\ D[j].version = doc[j].version /\ D[j].sum = doc[j].sum
    <3> HIDE DEF o
    <3> QED
      BY <1>1, <2>1, <2>2, <2>4, ShownStays DEF o
  <2> QED
    BY <2>2, <2>3, <2>5
<1>4. Shows(D, todo, obs, n)
  <2> SUFFICES ASSUME NEW k \in 1..n
               PROVE  \E m \in Matches(D, todo[k]) :
                         D[m].is_current /\ D[m].sum = obs[todo[k]].sum
    BY DEF Shows
  <2>1. CASE todo[k] = s
    BY <1>2, <2>1 DEF OnlyCurrent
  <2>2. CASE todo[k] # s
    <3>1. k \in 1..(n - 1)
      BY <1>1, <2>2
    <3> QED
      BY <1>3, <3>1
  <2> QED
    BY <2>1, <2>2
<1>5. ASSUME ParentsFirst, todo = Order, NEW k \in 1..n, Order[k] # Root,
             NEW m \in Matches(D, Order[k]), D[m].is_current
      PROVE  \E j \in Matches(D, Parent[Order[k]]) :
                D[j].is_current /\ D[j].version = D[m].parent
  <2>1. k \in 1..Len(Order) /\ Order[k] \in Stages /\ Parent[Order[k]] \in Stages
    <3>1. k \in 1..Len(Order) /\ Order \in Seq(Stages)
      BY <1>1, <1>5
    <3> QED
      BY <1>5, <3>1, ElementOf, StagesAssumption
  <2>2. PICK l \in 1..(k - 1) : Order[l] = Parent[Order[k]]
    BY <1>5, <2>1 DEF ParentsFirst
  <2>3. l \in 1..(n - 1)
    BY <1>1, <2>2
  <2>4. PICK j \in Matches(D, Parent[Order[k]]) :
           D[j].is_current /\ D[j].version = CurrentIn(doc, Parent[Order[k]])
    BY <1>3, <1>5, <2>2, <2>3
  <2>5. D[m].parent = CurrentIn(doc, Parent[Order[k]])
    <3>1. CASE Order[k] = s
      BY <1>2, <1>5, <3>1 DEF OnlyCurrent
    <3>2. CASE Order[k] # s
      <4>1. k \in 1..(n - 1)
        BY <1>1, <1>5, <3>2
      <4>2. m \in Matches(doc, Order[k]) /\ doc[m].is_current /\ D[m].parent = doc[m].parent
        BY <1>5, <3>2, OthersStay DEF SameEntry
      <4>3. PICK h \in Matches(doc, Parent[Order[k]]) :
               doc[h].is_current /\ doc[h].version = doc[m].parent
        BY <1>5, <4>1, <4>2 DEF Complete, Links
      <4>4. doc[h].version = CurrentIn(doc, Parent[Order[k]])
        BY <2>1, <4>3, LatestOnly, CurrentInOnly
      <4> QED
        BY <4>2, <4>3, <4>4
    <3> QED
      BY <3>1, <3>2
  <2> QED
    BY <2>4, <2>5
<1> QED
  BY <1>4, <1>5 DEF Complete, Links

\* No entry of the document is newer than its artifact.
Aged(doc) == \A s \in Stages : UpTo(doc, s, content[s])

\* Of the first n stages to register the document has no content newer than the
\* one observed.
Covers(doc, r, n) == \A k \in 1..n : UpTo(doc, r.todo[k], r.obs[r.todo[k]].sum)

\* What a lone registrar has completed, in memory or on the disk.
Progress(r, published, temporary) ==
    /\ r.pc = "observe" => Covers(published.doc, r, r.pos - 1)
    /\ r.pc = "load" => r.pos = 1 /\ Covers(published.doc, r, Len(r.todo))
    /\ r.pc = "register" =>
          /\ Covers(r.doc, r, Len(r.todo))
          /\ Complete(r.doc, r.todo, r.obs, r.pos - 1)
          /\ \A s \in Stages : r.current[s] = CurrentIn(r.doc, s)
    /\ r.pc \in {"open", "writing"} => Complete(r.doc, r.todo, r.obs, Len(r.todo))
    /\ r.pc = "replace" => Complete(temporary.doc, r.todo, r.obs, Len(r.todo))
    /\ r.pc = "done" =>
          published.state = "doc" /\ Complete(published.doc, r.todo, r.obs, Len(r.todo))

\* What it carries: nothing that is newer than the artifacts.
RunsAlone(r, published, temporary) ==
    /\ Latest(r.doc) /\ Aged(r.doc)
    /\ \A s \in Stages : r.obs[s].sum <= content[s]
    /\ Progress(r, published, temporary)

LatestInv ==
    /\ \A s \in Stages : content[s] <= last
    /\ Latest(registry.doc) /\ Aged(registry.doc)
    /\ Latest(temp.doc) /\ Aged(temp.doc)
    /\ \A p \in Registrars : RunsAlone(proc[p], registry, temp)

\* A step of the registrar that leaves the artifacts alone.
LEMMA LatestStep ==
    ASSUME Alone, DocsInv, LatestInv, NEW p \in Registrars, NEW r, Become(p, r),
           UNCHANGED artifacts, RunsAlone(r, registry', temp'),
           Latest(registry'.doc), Aged(registry'.doc),
           Latest(temp'.doc), Aged(temp'.doc)
    PROVE  LatestInv'
<1>1. \A q \in Registrars : q = p /\ proc'[q] = r
  BY DEF Alone, DocsInv, TypeOK, Become
<1>2. content' = content /\ last' = last
  BY DEF artifacts
<1>3. RunsAlone(r, registry, temp)'
  BY <1>2 DEF RunsAlone, Progress, Latest, OnlyCurrent, UpTo, Matches, Aged, Covers,
              Complete, Shows, Links, CurrentIn
<1>4. /\ Latest(registry.doc)' /\ Aged(registry.doc)'
      /\ Latest(temp.doc)' /\ Aged(temp.doc)'
  BY <1>2 DEF Latest, OnlyCurrent, UpTo, Matches, Aged
<1>5. \A q \in Registrars : RunsAlone(proc[q], registry, temp)'
  BY <1>1, <1>3
<1> QED
  BY <1>2, <1>4, <1>5 DEF LatestInv

LEMMA EmptyRuns ==
    ASSUME DocsInv, NEW r, r.doc = <<>>, \A s \in Stages : r.obs[s].sum = 0,
           r.pc \in {"idle", "observe"}, r.pc = "observe" => r.pos = 1,
           NEW published, NEW temporary
    PROVE  RunsAlone(r, published, temporary)
<1>1. Latest(r.doc) /\ Aged(r.doc)
  BY EmptyLatest DEF Aged, UpTo, Matches
<1>2. \A s \in Stages : content[s] \in Nat
  BY DEF DocsInv, TypeOK
<1>3. \A s \in Stages : r.obs[s].sum <= content[s]
  BY <1>2
<1>4. r.pc = "observe" => Covers(published.doc, r, r.pos - 1)
  BY DEF Covers
<1> QED
  BY <1>1, <1>3, <1>4 DEF RunsAlone, Progress

LEMMA LatestReset ==
    ASSUME Alone, DocsInv, LatestInv, NEW p \in Registrars, ResetOn(p),
           UNCHANGED <<artifacts, registry, temp>>
    PROVE  LatestInv'
<1>1. Idle.doc = <<>> /\ Idle.pc = "idle" /\ \A s \in Stages : Idle.obs[s].sum = 0
  BY DEF Idle, Unseen
<1>2. RunsAlone(Idle, registry', temp')
  BY <1>1, EmptyRuns
<1> QED
  BY <1>2, LatestStep DEF ResetOn, LatestInv

LEMMA LatestStart ==
    ASSUME Alone, DocsInv, LatestInv, NEW p \in Registrars, Start(p)
    PROVE  LatestInv'
<1>1. PICK r : /\ Become(p, r) /\ r.pc = "observe" /\ r.pos = 1 /\ r.doc = <<>>
               /\ \A s \in Stages : r.obs[s].sum = 0
  BY StartFields
<1>2. RunsAlone(r, registry', temp')
  BY <1>1, EmptyRuns
<1> QED
  BY <1>1, <1>2, LatestStep DEF Start, LatestInv

\* What the invariants say of the registrar.
LEMMA RunsAloneFacts ==
    ASSUME DocsInv, LatestInv, NEW p \in Registrars, NEW r, r = proc[p]
    PROVE  /\ RunsAlone(r, registry, temp) /\ RegistrationInv(r) /\ r \in Registrations
           /\ \A s \in Stages : r.obs[s].sum \in Nat /\ content[s] \in Nat
           /\ \A s \in Stages : UpTo(registry.doc, s, content[s])
<1>1. r \in Registrations /\ RegistrationInv(r) /\ RunsAlone(r, registry, temp)
  BY DEF DocsInv, RegistrationInv, LatestInv
<1>2. r.obs \in [Stages -> ObservationTypes]
  BY <1>1, RegistrationFields
<1> QED
  BY <1>1, <1>2 DEF ObservationTypes, DocsInv, TypeOK, LatestInv, Aged

LEMMA LatestObserve ==
    ASSUME Alone, DocsInv, LatestInv, NEW p \in Registrars, Observe(p)
    PROVE  LatestInv'
<1> DEFINE r == proc[p]
           s == r.todo[r.pos]
<1>1. /\ r.pc = "observe" /\ r.pos \in 1..Len(r.todo) /\ Len(r.todo) \in Nat
      /\ s \in Stages /\ r.todo \in Seq(Stages)
  BY ObserveFields
<1>2. PICK new :
         /\ Become(p, new) /\ new.todo = r.todo /\ new.doc = r.doc
         /\ new.obs[s].sum = content[s] /\ new.obs[s].input = basis[s]
         /\ \A t \in Stages : t # s => new.obs[t] = r.obs[t]
         /\ \/ new.pc = "observe" /\ new.pos = r.pos + 1
            \/ new.pc = "load" /\ new.pos = 1 /\ r.pos = Len(r.todo)
  BY ObserveFields
<1>3. /\ Latest(r.doc) /\ Aged(r.doc) /\ Covers(registry.doc, r, r.pos - 1)
      /\ \A t \in Stages : r.obs[t].sum <= content[t]
      /\ \A t \in Stages : content[t] \in Nat /\ UpTo(registry.doc, t, content[t])
  BY <1>1, RunsAloneFacts DEF RunsAlone, Progress
<1>4. \A t \in Stages : new.obs[t].sum <= content[t]
  <2> HIDE DEF s
  <2> QED
    BY <1>2, <1>3
<1>5. Covers(registry.doc, new, r.pos)
  <2> SUFFICES ASSUME NEW k \in 1..r.pos
               PROVE  UpTo(registry.doc, new.todo[k], new.obs[new.todo[k]].sum)
    BY DEF Covers
  <2>1. CASE r.todo[k] = s
    BY <1>1, <1>2, <1>3, <2>1
  <2>2. CASE r.todo[k] # s
    <3>1. k \in 1..(r.pos - 1) /\ r.todo[k] \in Stages
      BY <1>1, <2>2
    <3>2. UpTo(registry.doc, r.todo[k], r.obs[r.todo[k]].sum)
      BY <1>3, <3>1 DEF Covers
    <3> QED
      BY <1>2, <2>2, <3>1, <3>2
  <2> QED
    BY <2>1, <2>2
<1>6. UNCHANGED <<artifacts, registry, temp>>
  BY DEF Observe
<1>7. RunsAlone(new, registry', temp')
  BY <1>1, <1>2, <1>3, <1>4, <1>5, <1>6 DEF RunsAlone, Progress
<1> QED
  BY <1>2, <1>6, <1>7, LatestStep DEF LatestInv

LEMMA LatestLoad ==
    ASSUME Alone, DocsInv, LatestInv, NEW p \in Registrars, Load(p)
    PROVE  LatestInv'
<1> DEFINE r == proc[p]
<1>1. UNCHANGED <<artifacts, registry, temp>>
  BY DEF Load
<1>2. CASE ResetOn(p)
  BY <1>1, <1>2, LatestReset
<1>3. ASSUME NEW new, Become(p, new), r.pc = "load", new.pc = "register",
             new.todo = r.todo, new.pos = r.pos, new.obs = r.obs,
             new.doc = registry.doc,
             \A s \in Stages : new.current[s] = CurrentIn(registry.doc, s)
      PROVE  LatestInv'
  <2>1. /\ r.pos = 1 /\ Covers(registry.doc, r, Len(r.todo))
        /\ \A s \in Stages : r.obs[s].sum <= content[s]
    BY <1>3, RunsAloneFacts DEF RunsAlone, Progress
  <2>2. Covers(new.doc, new, Len(new.todo))
    BY <1>3, <2>1 DEF Covers
  <2>3. Complete(new.doc, new.todo, new.obs, new.pos - 1)
    BY <1>3, <2>1 DEF Complete, Shows, Links
  <2>4. RunsAlone(new, registry', temp')
    BY <1>1, <1>3, <2>1, <2>2, <2>3 DEF RunsAlone, Progress, LatestInv
  <2> QED
    BY <1>1, <1>3, <2>4, LatestStep DEF LatestInv
<1> QED
  BY <1>2, <1>3, LoadFields

\* What a registration leaves of the bounds on the contents.
LEMMA UpToLater ==
    ASSUME NEW doc, GoodDoc(doc), NEW s, NEW a \in Nat, NEW b \in Nat, a <= b,
           UpTo(doc, s, a)
    PROVE  UpTo(doc, s, b)
<1>1. \A n \in Matches(doc, s) : doc[n].sum \in Nat
  BY MatchesIn DEF DocEntries
<1> QED
  BY <1>1 DEF UpTo

LEMMA OthersUpTo ==
    ASSUME NEW doc, NEW D, NEW s, NEW parent, NEW o, NEW i, GoodDoc(doc),
           EntersAt(doc, D, s, parent, o, i), NEW t, t # s, NEW sum, UpTo(doc, t, sum)
    PROVE  UpTo(D, t, sum)
  BY OthersStay DEF UpTo, SameEntry

\* Registering a stage leaves the other stages' current versions.
LEMMA OthersCurrent ==
    ASSUME NEW doc, NEW D, NEW s, NEW parent, NEW o, NEW i, GoodDoc(doc), GoodDoc(D),
           Latest(doc), EntersAt(doc, D, s, parent, o, i), NEW t \in Stages, t # s
    PROVE  CurrentIn(D, t) = CurrentIn(doc, t)
<1>1. /\ Matches(D, t) = Matches(doc, t)
      /\ \A n \in Matches(doc, t) :
            SameEntry(D[n], doc[n]) /\ (D[n].is_current <=> doc[n].is_current)
  BY OthersStay
<1>2. CASE Matches(doc, t) = {}
  BY <1>1, <1>2, CurrentInNone
<1>3. CASE Matches(doc, t) # {}
  <2>1. PICK n : OnlyCurrent(doc, t, n)
    BY <1>3 DEF Latest
  <2>2. OnlyCurrent(D, t, n) /\ D[n].version = doc[n].version
    BY <1>1, <2>1 DEF OnlyCurrent, SameEntry
  <2> QED
    BY <2>1, <2>2, CurrentInOnly
<1> QED
  BY <1>2, <1>3

LEMMA LatestRegisterStage ==
    ASSUME Alone, DocsInv, LatestInv, NEW p \in Registrars, RegisterStage(p)
    PROVE  LatestInv'
<1> DEFINE r == proc[p]
           s == r.todo[r.pos]
           o == r.obs[s]
           parent == IF s = Root THEN 0 ELSE r.current[Parent[s]]
<1>1. /\ r.pc = "register" /\ r.pos \in 1..Len(r.todo) /\ Len(r.todo) \in Nat
      /\ r.todo \in Seq(Stages) /\ s \in Stages /\ GoodDoc(r.doc) /\ o \in Seen
  BY RegisterStageFields
<1>2. PICK new :
         /\ Become(p, new) /\ new.todo = r.todo /\ new.obs = r.obs
         /\ new.doc = Registered(r.doc, s, parent, o)
         /\ new.current[s] = SelectVersion(r.doc, s, o.sum)
         /\ \A t \in Stages : t # s => new.current[t] = r.current[t]
         /\ \/ new.pc = "register" /\ new.pos = r.pos + 1
            \/ new.pc = "open" /\ r.pos = Len(r.todo)
  <2> HIDE DEF parent
  <2> QED
    BY RegisterStageFields DEF parent
<1>3. /\ Latest(r.doc) /\ Aged(r.doc) /\ Covers(r.doc, r, Len(r.todo))
      /\ Complete(r.doc, r.todo, r.obs, r.pos - 1)
      /\ \A t \in Stages : r.current[t] = CurrentIn(r.doc, t)
      /\ \A t \in Stages : r.obs[t].sum <= content[t]
      /\ \A t \in Stages : r.obs[t].sum \in Nat /\ content[t] \in Nat
  BY <1>1, RunsAloneFacts DEF RunsAlone, Progress
<1>4. ParentOf(r.doc, s, parent)
  BY RegisterStageInputs
<1>5. parent = IF s = Root THEN 0 ELSE CurrentIn(r.doc, Parent[s])
  BY <1>1, <1>3, StagesAssumption
<1>6. UpTo(r.doc, s, o.sum)
  BY <1>1, <1>3 DEF Covers
<1>7. o.sum \in Nat /\ content[s] \in Nat /\ o.sum <= content[s]
  BY <1>1, <1>3
<1>8. UNCHANGED <<artifacts, registry, temp>>
  BY DEF RegisterStage
<1>9. Complete(r.doc, r.todo, r.obs, r.pos - 1) /\ o = r.obs[s] /\ s = r.todo[r.pos]
  BY <1>3
<1> HIDE DEF parent
<1>10. GoodDoc(new.doc)
  BY <1>1, <1>2, <1>4, RegisteredGood
<1>11. PICK i : EntersAt(r.doc, new.doc, s, parent, o, i)
  <2> HIDE DEF o, s, r
  <2> QED
    BY <1>1, <1>2, RegisteredEntries
<1>12. Complete(new.doc, r.todo, r.obs, r.pos)
  <2> HIDE DEF s, r
  <2> QED
    BY <1>1, <1>3, <1>5, <1>6, <1>9, <1>11, RegisteredComplete
<1> HIDE DEF o, s
<1>13. Latest(new.doc) /\ OnlyCurrent(new.doc, s, i) /\ UpTo(new.doc, s, o.sum)
  BY <1>1, <1>3, <1>6, <1>11, RegisteredLatest, EnteredOnly
<1>14. Aged(new.doc)
  <2> SUFFICES ASSUME NEW t \in Stages PROVE UpTo(new.doc, t, content[t])
    BY DEF Aged
  <2>1. CASE t = s
    BY <1>7, <1>10, <1>13, <2>1, UpToLater
  <2>2. CASE t # s
    BY <1>1, <1>3, <1>11, <2>2, OthersUpTo DEF Aged
  <2> QED
    BY <2>1, <2>2
<1>15. Covers(new.doc, new, Len(new.todo))
  <2> SUFFICES ASSUME NEW k \in 1..Len(r.todo)
               PROVE  UpTo(new.doc, r.todo[k], r.obs[r.todo[k]].sum)
    BY <1>2 DEF Covers
  <2>1. CASE r.todo[k] = s
    BY <1>13, <2>1 DEF o
  <2>2. CASE r.todo[k] # s
    BY <1>1, <1>3, <1>11, <2>2, OthersUpTo DEF Covers
  <2> QED
    BY <2>1, <2>2
<1>16. ASSUME NEW t \in Stages PROVE new.current[t] = CurrentIn(new.doc, t)
  <2>1. CASE t = s
    <3>1. new.doc[i].version = SelectVersion(r.doc, s, o.sum)
      BY <1>11 DEF EntersAt
    <3> QED
      BY <1>2, <1>10, <1>13, <2>1, <3>1, CurrentInOnly
  <2>2. CASE t # s
    BY <1>1, <1>2, <1>3, <1>10, <1>11, <1>16, <2>2, OthersCurrent
  <2> QED
    BY <2>1, <2>2
<1>17. RunsAlone(new, registry', temp')
  BY <1>1, <1>2, <1>3, <1>8, <1>12, <1>13, <1>14, <1>15, <1>16 DEF RunsAlone, Progress
<1> QED
  BY <1>2, <1>8, <1>17, LatestStep DEF LatestInv

LEMMA LatestOpenTemp ==
    ASSUME Alone, DocsInv, LatestInv, NEW p \in Registrars, OpenTemp(p)
    PROVE  LatestInv'
<1> DEFINE r == proc[p]
           b == {q \in Registrars :
                    proc[q].pc = "writing" /\ proc[q].target = "temp"} # {}
<1>1. PICK new : new = [r EXCEPT !.pc = "writing", !.target = "temp", !.mixed = b]
  OBVIOUS
<1>2. Become(p, new) /\ temp' = Torn /\ UNCHANGED <<artifacts, registry>>
  <2>1. proc \in [Registrars -> Registrations]
    BY DEF DocsInv, TypeOK
  <2>2. proc' = [q \in Registrars |-> new] /\ temp' = Torn /\ UNCHANGED <<artifacts, registry>>
    BY <1>1 DEF OpenTemp, Alone
  <2> QED
    BY <2>1, <2>2 DEF Become, Alone
<1> HIDE DEF b
<1>3. r \in Registrations /\ RunsAlone(r, registry, temp) /\ r.pc = "open"
  BY RunsAloneFacts DEF OpenTemp
<1>4. new.doc = r.doc /\ new.pc = "writing" /\ new.todo = r.todo /\ new.obs = r.obs
  BY <1>1, <1>3 DEF Registrations
<1>5. RunsAlone(new, registry', temp')
  BY <1>3, <1>4 DEF RunsAlone, Progress
<1>6. Latest(temp'.doc) /\ Aged(temp'.doc)
  BY <1>2, EmptyLatest DEF Torn, Aged, UpTo, Matches
<1> QED
  BY <1>2, <1>5, <1>6, LatestStep DEF LatestInv

LEMMA LatestFinishWrite ==
    ASSUME Alone, DocsInv, SingleInv, LatestInv, NEW p \in Registrars, FinishWrite(p)
    PROVE  LatestInv'
<1> DEFINE r == proc[p]
           new == [Idle EXCEPT !.pc = "replace", !.todo = r.todo, !.obs = r.obs]
<1>1. /\ RunsAlone(r, registry, temp) /\ r.pc = "writing"
      /\ r.mixed = FALSE /\ r.target = "temp"
  BY RunsAloneFacts, LoneFacts DEF FinishWrite, LoneInv
<1>2. temp' = Written(r.doc) /\ UNCHANGED <<artifacts, registry>> /\ Become(p, new)
  BY <1>1 DEF FinishWrite
<1>3. new.pc = "replace" /\ new.todo = r.todo /\ new.obs = r.obs /\ new.doc = <<>>
  BY DEF Idle
<1> HIDE DEF new
<1>4. temp'.doc = r.doc
  BY <1>2 DEF Written
<1>5. Latest(temp'.doc) /\ Aged(temp'.doc)
  BY <1>1, <1>4 DEF RunsAlone
<1>6. RunsAlone(new, registry', temp')
  BY <1>1, <1>3, <1>4, EmptyLatest DEF RunsAlone, Progress, Aged, UpTo, Matches
<1> QED
  BY <1>2, <1>5, <1>6, LatestStep DEF LatestInv

LEMMA LatestReplace ==
    ASSUME Alone, DocsInv, SingleInv, LatestInv, NEW p \in Registrars, Replace(p)
    PROVE  LatestInv'
<1> DEFINE r == proc[p]
<1>1. PICK new : new = [r EXCEPT !.pc = "done"]
  OBVIOUS
<1>2. /\ RunsAlone(r, registry, temp) /\ r \in Registrations /\ r.pc = "replace"
      /\ temp.state = "doc"
  BY RunsAloneFacts, LoneFacts DEF Replace, LoneInv
<1>3. /\ Become(p, new) /\ registry' = temp /\ temp' = NoFile /\ UNCHANGED artifacts
  <2>1. temp # NoFile /\ proc \in [Registrars -> Registrations]
    BY <1>2 DEF NoFile, DocsInv, TypeOK
  <2>2. /\ proc' = [q \in Registrars |-> new]
        /\ registry' = temp /\ temp' = NoFile /\ UNCHANGED artifacts
    BY <1>1, <2>1 DEF Replace, Alone
  <2> QED
    BY <2>1, <2>2 DEF Become, Alone
<1>4. new.doc = r.doc /\ new.pc = "done" /\ new.todo = r.todo /\ new.obs = r.obs
  BY <1>1, <1>2 DEF Registrations
<1>5. RunsAlone(new, registry', temp')
  BY <1>2, <1>3, <1>4 DEF RunsAlone, Progress
<1>6. Latest(temp'.doc) /\ Aged(temp'.doc)
  BY <1>3, EmptyLatest DEF NoFile, Aged, UpTo, Matches
<1>7. Latest(registry'.doc) /\ Aged(registry'.doc)
  BY <1>3 DEF LatestInv
<1> QED
  BY <1>3, <1>5, <1>6, <1>7, LatestStep

\* A stage's new content is newer than all the documents and registrars know.
LEMMA LatestProduce ==
    ASSUME DocsInv, LatestInv, NEW s \in Stages, NEW status \in Statuses,
           Produce(s, status)
    PROVE  LatestInv'
<1>1. /\ last \in Nat /\ last' = last + 1 /\ content' = [content EXCEPT ![s] = last + 1]
      /\ UNCHANGED <<registry, temp, proc>>
      /\ \A t \in Stages : content[t] \in Nat /\ content[t] <= last
      /\ content \in [Stages -> Nat]
  BY DEF DocsInv, TypeOK, Produce, LatestInv
<1>2. \A t \in Stages : /\ content'[t] \in Nat /\ content[t] <= content'[t]
                        /\ content'[t] <= last'
  BY <1>1
<1>3. ASSUME NEW doc, GoodDoc(doc), Aged(doc)
      PROVE  \A t \in Stages : UpTo(doc, t, content'[t])
  BY <1>1, <1>2, <1>3, UpToLater DEF Aged
<1>4. ASSUME NEW q \in Registrars PROVE RunsAlone(proc[q], registry, temp)'
  <2> DEFINE r == proc[q]
  <2>1. /\ RunsAlone(r, registry, temp) /\ GoodDoc(r.doc)
        /\ \A t \in Stages : r.obs[t].sum \in Nat
    BY RunsAloneFacts DEF RegistrationInv
  <2>2. \A t \in Stages : UpTo(r.doc, t, content'[t])
    BY <1>3, <2>1 DEF RunsAlone
  <2>3. \A t \in Stages : r.obs[t].sum <= content'[t]
    BY <1>1, <1>2, <2>1 DEF RunsAlone
  <2>4. proc'[q] = r /\ registry' = registry /\ temp' = temp
    BY <1>1
  <2>5. Progress(proc'[q], registry', temp') /\ Latest(proc'[q].doc)
    BY <2>1, <2>4 DEF RunsAlone
  <2>6. Progress(proc[q], registry, temp)'
    BY <2>5 DEF Progress, Latest, OnlyCurrent, UpTo, Matches, Covers, Complete, Shows,
                Links, CurrentIn
  <2>7. Latest(proc[q].doc)'
    BY <2>5 DEF Latest, OnlyCurrent, UpTo, Matches
  <2>8. Aged(proc[q].doc)'
    BY <2>2, <2>4 DEF UpTo, Matches, Aged
  <2>9. (\A t \in Stages : proc[q].obs[t].sum <= content[t])'
    BY <2>3, <2>4
  <2> QED
    BY <2>6, <2>7, <2>8, <2>9 DEF RunsAlone
<1>5. /\ Latest(registry.doc)' /\ Aged(registry.doc)'
      /\ Latest(temp.doc)' /\ Aged(temp.doc)'
  <2>1. /\ \A t \in Stages : UpTo(registry.doc, t, content'[t])
        /\ \A t \in Stages : UpTo(temp.doc, t, content'[t])
    BY <1>3, FilesGood DEF LatestInv
  <2> QED
    BY SMTT(30), <1>1, <2>1 DEF LatestInv, Latest, OnlyCurrent, UpTo, Matches, Aged
<1> QED
  BY <1>2, <1>4, <1>5 DEF LatestInv

LEMMA LatestInit == DocsInv /\ Init => LatestInv
<1> SUFFICES ASSUME DocsInv, Init PROVE LatestInv
  OBVIOUS
<1>1. \A s \in Stages : content[s] <= last
  BY DEF Init
<1>2. Idle.doc = <<>> /\ Idle.pc = "idle" /\ \A s \in Stages : Idle.obs[s].sum = 0
  BY DEF Idle, Unseen
<1>3. \A p \in Registrars : RunsAlone(proc[p], registry, temp)
  BY <1>2, EmptyRuns DEF Init
<1> QED
  BY <1>1, <1>3, EmptyLatest DEF Init, LatestInv, NoFile, Aged, UpTo, Matches

LEMMA LatestNext ==
    ASSUME Alone, Restores = {}, DocsInv, SingleInv, LatestInv, [Next]_vars
    PROVE  LatestInv'
<1>1. ASSUME NEW s \in Stages, NEW status \in Statuses, Produce(s, status)
      PROVE  LatestInv'
  BY <1>1, LatestProduce
<1>2. ASSUME NEW s \in Stages, Restore(s) PROVE LatestInv'
  BY <1>2 DEF Restore
<1>3. ASSUME NEW p \in Registrars, Start(p) PROVE LatestInv'
  BY <1>3, LatestStart
<1>4. ASSUME NEW p \in Registrars, Observe(p) PROVE LatestInv'
  BY <1>4, LatestObserve
<1>5. ASSUME NEW p \in Registrars, ObserveFails(p) PROVE LatestInv'
  BY <1>5, LatestReset DEF ObserveFails
<1>6. ASSUME NEW p \in Registrars, Load(p) PROVE LatestInv'
  BY <1>6, LatestLoad
<1>7. ASSUME NEW p \in Registrars, RegisterStage(p) PROVE LatestInv'
  BY <1>7, LatestRegisterStage
<1>8. ASSUME NEW p \in Registrars, OpenTemp(p) PROVE LatestInv'
  BY <1>8, LatestOpenTemp
<1>9. ASSUME NEW p \in Registrars, FinishWrite(p) PROVE LatestInv'
  BY <1>9, LatestFinishWrite
<1>10. ASSUME NEW p \in Registrars, Replace(p) PROVE LatestInv'
  BY <1>10, LatestReplace
<1>11. ASSUME NEW p \in Registrars, Crash(p) PROVE LatestInv'
  BY <1>11, LatestReset DEF Crash
<1>12. CASE UNCHANGED vars
  <2>1. UNCHANGED <<content, last, registry, temp, proc>>
    BY <1>12 DEF vars
  <2>2. ASSUME NEW q \in Registrars PROVE RunsAlone(proc[q], registry, temp)'
    <3>1. RunsAlone(proc[q], registry, temp)
      BY DEF LatestInv
    <3>2. Progress(proc'[q], registry', temp')
      BY <2>1, <3>1 DEF RunsAlone
    <3>3. Progress(proc[q], registry, temp)'
      BY <3>2 DEF Progress, Latest, OnlyCurrent, UpTo, Matches, Covers, Complete, Shows,
                  Links, CurrentIn
    <3>4. Latest(proc[q].doc)' /\ Aged(proc[q].doc)'
      BY <2>1, <3>1 DEF RunsAlone, Latest, OnlyCurrent, UpTo, Matches, Aged
    <3> QED
      BY <2>1, <3>1, <3>3, <3>4 DEF RunsAlone
  <2>3. /\ Latest(registry.doc)' /\ Aged(registry.doc)'
        /\ Latest(temp.doc)' /\ Aged(temp.doc)'
    BY <2>1 DEF LatestInv, Latest, OnlyCurrent, UpTo, Matches, Aged
  <2> QED
    BY <2>1, <2>2, <2>3 DEF LatestInv
<1> QED
  BY <1>1, <1>2, <1>3, <1>4, <1>5, <1>6, <1>7, <1>8, <1>9, <1>10, <1>11, <1>12
  DEF Next

LEMMA LatestInvariant ==
    ASSUME Alone, Restores = {} PROVE Spec => [](DocsInv /\ LatestInv)
<1>1. DocsInv /\ SingleInv /\ LatestInv /\ [Next]_vars => LatestInv' /\ SingleInv'
  BY LatestNext, LoneNext
<1> QED
  BY <1>1, LatestInit, LoneInit, DocsInvariant, PTL DEF Spec

\* What a registrar that is done has left.
LEMMA DoneFacts ==
    ASSUME DocsInv, LatestInv, NEW p \in Registrars, proc[p].pc = "done",
           proc[p].todo = Order
    PROVE  /\ Published = registry.doc /\ GoodDoc(Published) /\ Latest(Published)
           /\ Complete(Published, Order, proc[p].obs, Len(Order))
<1>1. RunsAlone(proc[p], registry, temp)
  BY DEF LatestInv
<1>2. registry.state = "doc" /\ Complete(registry.doc, Order, proc[p].obs, Len(Order))
  BY <1>1 DEF RunsAlone, Progress
<1> QED
  BY <1>2, PublishedGood DEF Published, LatestInv

\* A lone registrar leaves a registered stage with exactly one current version,
\* wherever it crashes and whenever the stages run, if no content comes back.
THEOREM LoneStageHasOneCurrent ==
    ASSUME Alone, Restores = {} PROVE Spec => []OneCurrent
<1>1. ASSUME LatestInv PROVE OneCurrent
  <2>1. Latest(Published)
    BY <1>1, EmptyLatest DEF LatestInv, Published
  <2> QED
    BY <2>1 DEF OneCurrent, Latest, OnlyCurrent
<1> QED
  BY <1>1, LatestInvariant, PTL

\* If the artifacts are still what a full registration observed, verify succeeds
\* on what it wrote.
THEOREM LoneRegistrationVerifies ==
    ASSUME Alone, Restores = {} PROVE Spec => []FullRegistrationVerifies
<1>1. ASSUME DocsInv, LatestInv PROVE FullRegistrationVerifies
  <2> SUFFICES ASSUME NEW p \in Registrars, proc[p].pc = "done", proc[p].todo = Order,
                      \A s \in Stages : content[s] = proc[p].obs[s].sum,
                      NEW n \in 1..Len(Published), Published[n].is_current
               PROVE  content[Published[n].name] = Published[n].sum
    BY DEF FullRegistrationVerifies, Verified
  <2>1. /\ GoodDoc(Published) /\ Latest(Published)
        /\ Shows(Published, Order, proc[p].obs, Len(Order))
    BY <1>1, DoneFacts DEF Complete
  <2>2. PICK s \in Stages : s = Published[n].name
    BY <2>1, MatchesIn DEF DocEntries
  <2>3. PICK k \in 1..Len(Order) : Order[k] = s
    BY StagesAssumption
  <2>4. PICK m \in Matches(Published, s) :
           Published[m].is_current /\ Published[m].sum = proc[p].obs[s].sum
    BY <2>1, <2>3 DEF Shows
  <2>5. n \in Matches(Published, s)
    BY <2>2 DEF Matches
  <2>6. m = n
    BY <2>1, <2>4, <2>5, LatestOnly DEF OnlyCurrent
  <2> QED
    BY <2>2, <2>4, <2>6
<1> QED
  BY <1>1, LatestInvariant, PTL

\* Registering all stages in the configured order gives a lineage without
\* errors, even when stages run between one observation and the next.
THEOREM LoneRegistrationGivesLineage ==
    ASSUME Alone, Restores = {}, ParentsFirst
    PROVE  Spec => []FullRegistrationGivesLineage
<1>1. ASSUME DocsInv, LatestInv PROVE FullRegistrationGivesLineage
  <2> SUFFICES ASSUME NEW p \in Registrars, proc[p].pc = "done", proc[p].todo = Order
               PROVE  LineageGenerated(Published)
    BY DEF FullRegistrationGivesLineage
  <2>1. /\ GoodDoc(Published) /\ Latest(Published)
        /\ Shows(Published, Order, proc[p].obs, Len(Order)) /\ Links(Published, Len(Order))
    BY <1>1, DoneFacts DEF Complete
  <2>2. ASSUME NEW s \in Stages PROVE HasCurrent(Published, s)
    <3>1. PICK k \in 1..Len(Order) : Order[k] = s
      BY StagesAssumption
    <3>2. PICK m \in Matches(Published, s) : Published[m].is_current
      BY <2>1, <3>1 DEF Shows
    <3>3. CurrentIn(Published, s) = Published[m].version
      BY <2>1, <3>2, LatestOnly, CurrentInOnly
    <3> QED
      BY <2>1, <3>2, <3>3, MatchesIn DEF HasCurrent
  <2>3. ASSUME NEW s \in Stages \ {Root}
        PROVE  Published[CurrentEntry(Published, s)].parent
                  = CurrentIn(Published, Parent[s])
    <3>1. PICK k \in 1..Len(Order) : Order[k] = s
      BY StagesAssumption
    <3>2. PICK e : e = CurrentEntry(Published, s)
      OBVIOUS
    <3>3. e \in Matches(Published, s) /\ Published[e].is_current
      BY <2>1, <2>2, <3>2, CurrentEntryIn
    <3>4. PICK j \in Matches(Published, Parent[s]) :
             Published[j].is_current /\ Published[j].version = Published[e].parent
      BY <2>1, <3>1, <3>3 DEF Links
    <3>5. CurrentIn(Published, Parent[s]) = Published[j].version
      BY <2>1, <3>4, LatestOnly, CurrentInOnly, StagesAssumption
    <3> QED
      BY <3>2, <3>4, <3>5
  <2> QED
    BY <2>2, <2>3 DEF LineageGenerated, LineageErrors
<1> QED
  BY <1>1, LatestInvariant, PTL
=============================================================================
