------------------------- MODULE VendorUpdaterProofs -------------------------
(***************************************************************************)
(* For any number of processes, updates, readers and power failures, and   *)
(* whatever the listings are: the state is typed, a text the registry has, *)
(* may have again, or that a scan has open is not written, the updates     *)
(* implement the registry file of RegistryFile, and the names in the       *)
(* registry are those of the listings an update was served.  The invariant *)
(* has parts.  UpdateInv follows the inodes: the one an update may still   *)
(* write is neither the registry's nor another update's, in any state of   *)
(* the directory a power failure can bring back.  WorkInv says how many of *)
(* the listings an update has at each stage, so that what it converts are  *)
(* the listings of all registries.  TextInv says what the files hold: a    *)
(* temporary file the beginning of its update's text, the registry a whole *)
(* text, and a scan has read the beginning of the file it opened.          *)
(* FollowInv says that the listings an undisturbed update has on disk and  *)
(* in memory are those it was served, and SourceInv that the names of the  *)
(* registry are those of its source.  That a generated text has the names  *)
(* of its listings is a fact of the conversion, the parser and the lookup, *)
(* shown first.                                                            *)
(***************************************************************************)
EXTENDS VendorUpdater, FiniteSetTheorems, SequenceTheorems, LibraryLemmas

-----------------------------------------------------------------------------
(* What the conversion yields *)

\* The mappings that rows of the listings are converted to.
Entry == {Mapping(Stripped(row.assignment), row.vendor) : row \in Rows}

\* The mappings after each of the first n rows.
AreInserted(inserted, rows, n) ==
    inserted = [k \in 0 .. n |-> IF k = 0 THEN <<>> ELSE Insert(inserted[k - 1], rows[k])]

\* A row that is inserted leaves mappings of listed rows.
LEMMA InsertKeeps ==
    ASSUME NEW mappings \in Seq(Entry), NEW row \in Rows
    PROVE  Insert(mappings, row) \in Seq(Entry)
<1> DEFINE prefix == Stripped(row.assignment)
           known == {i \in DOMAIN mappings : mappings[i].prefix = prefix}
           entry == Mapping(prefix, row.vendor)
           changed == [i \in DOMAIN mappings |-> IF i \in known THEN entry ELSE mappings[i]]
<1>1. entry \in Entry
  BY DEF Entry
<1>2. Insert(mappings, row) = IF known = {} THEN Append(mappings, entry) ELSE changed
  BY DEF Insert
<1> HIDE DEF entry, known
<1>3. Append(mappings, entry) \in Seq(Entry)
  BY <1>1
<1>4. changed \in Seq(Entry)
  <2>1. Len(mappings) \in Nat /\ DOMAIN mappings = 1 .. Len(mappings)
    OBVIOUS
  <2>2. \A i \in 1 .. Len(mappings) : (IF i \in known THEN entry ELSE mappings[i]) \in Entry
    BY <1>1
  <2>3. changed = [i \in 1 .. Len(mappings) |-> IF i \in known THEN entry ELSE mappings[i]]
    BY <2>1
  <2> HIDE DEF changed
  <2> QED
    BY <2>1, <2>2, <2>3
<1> HIDE DEF changed
<1> QED
  BY <1>2, <1>3, <1>4

\* The mappings of a listing, row by row, are there.
LEMMA InsertedExist ==
    ASSUME NEW rows \in Seq(Rows)
    PROVE  \E inserted : AreInserted(inserted, rows, Len(rows)) /\ inserted[Len(rows)] \in Seq(Entry)
<1> DEFINE S == {n \in Nat : n <= Len(rows) =>
                    \E inserted : AreInserted(inserted, rows, n) /\ inserted[n] \in Seq(Entry)}
<1>1. 0 \in S
  <2> DEFINE none == [k \in 0 .. 0 |-> <<>>]
  <2>1. AreInserted(none, rows, 0) /\ none[0] \in Seq(Entry)
    BY DEF AreInserted
  <2> QED
    BY <2>1
<1>2. ASSUME NEW n \in Nat, n \in S PROVE n + 1 \in S
  <2> SUFFICES ASSUME n + 1 <= Len(rows)
               PROVE  \E inserted : AreInserted(inserted, rows, n + 1) /\ inserted[n + 1] \in Seq(Entry)
    OBVIOUS
  <2>1. PICK inserted : AreInserted(inserted, rows, n) /\ inserted[n] \in Seq(Entry)
    BY <1>2
  <2> DEFINE next == Insert(inserted[n], rows[n + 1])
             longer == [k \in 0 .. n + 1 |-> IF k = n + 1 THEN next ELSE inserted[k]]
  <2>2. next \in Seq(Entry)
    <3>1. rows[n + 1] \in Rows
      OBVIOUS
    <3> QED
      BY <2>1, <3>1, InsertKeeps
  <2> HIDE DEF next
  <2>3. ASSUME NEW k \in 0 .. n + 1
        PROVE  longer[k] = IF k = 0 THEN <<>> ELSE Insert(longer[k - 1], rows[k])
    <3>1. CASE k = n + 1
      <4>1. k - 1 \in 0 .. n + 1 /\ k - 1 # n + 1 /\ k - 1 = n /\ k # 0
        BY <1>2, <3>1
      <4>2. longer[k - 1] = inserted[n]
        BY <4>1
      <4> QED
        BY <3>1, <4>1, <4>2 DEF next
    <3>2. CASE k # n + 1
      <4>1. k \in 0 .. n
        BY <1>2, <3>2
      <4>2. inserted[k] = IF k = 0 THEN <<>> ELSE Insert(inserted[k - 1], rows[k])
        BY <2>1, <4>1 DEF AreInserted
      <4>3. k # 0 => k - 1 \in 0 .. n + 1 /\ k - 1 # n + 1
        BY <1>2, <4>1
      <4> QED
        BY <3>2, <4>2, <4>3
    <3> QED
      BY <3>1, <3>2
  <2>4. longer = [k \in 0 .. n + 1 |-> longer[k]] /\ longer[n + 1] = next
    OBVIOUS
  <2> HIDE DEF longer
  <2>5. AreInserted(longer, rows, n + 1)
    BY <2>3, <2>4 DEF AreInserted
  <2> QED
    BY <2>2, <2>4, <2>5
<1> HIDE DEF S
<1>3. Nat \subseteq S
  BY <1>1, <1>2, Inductive
<1>4. Len(rows) \in S
  BY <1>3
<1> QED
  BY <1>4 DEF S

\* So a listing is converted to mappings of listed rows.
LEMMA MappingsTyped ==
    ASSUME NEW file, RowsOf(file) \in Seq(Rows)
    PROVE  MappingsOf(file) \in Seq(Entry)
<1> DEFINE rows == RowsOf(file)
           inserted == CHOOSE f : AreInserted(f, rows, Len(rows))
<1>1. PICK f : AreInserted(f, rows, Len(rows)) /\ f[Len(rows)] \in Seq(Entry)
  BY InsertedExist
<1>2. AreInserted(inserted, rows, Len(rows))
  BY <1>1
<1>3. MappingsOf(file) = inserted[Len(rows)]
  BY DEF MappingsOf, AreInserted
<1> HIDE DEF inserted
<1>4. \A n \in Nat : n <= Len(rows) => inserted[n] = f[n]
  <2> DEFINE S == {n \in Nat : n <= Len(rows) => inserted[n] = f[n]}
  <2>1. \A n \in 0 .. Len(rows) :
           /\ inserted[n] = IF n = 0 THEN <<>> ELSE Insert(inserted[n - 1], rows[n])
           /\ f[n] = IF n = 0 THEN <<>> ELSE Insert(f[n - 1], rows[n])
    BY <1>1, <1>2 DEF AreInserted
  <2>2. Len(rows) \in Nat
    OBVIOUS
  <2> HIDE DEF rows
  <2>3. 0 \in S
    BY <2>1, <2>2
  <2>4. ASSUME NEW n \in Nat, n \in S PROVE n + 1 \in S
    <3> SUFFICES ASSUME n + 1 <= Len(rows) PROVE inserted[n + 1] = f[n + 1]
      OBVIOUS
    <3>1. n + 1 \in 0 .. Len(rows) /\ (n + 1) - 1 = n /\ n + 1 # 0 /\ n <= Len(rows)
      BY <2>2
    <3>2. inserted[n] = f[n]
      BY <2>4, <3>1
    <3>3. /\ inserted[n + 1] = Insert(inserted[n], rows[n + 1])
          /\ f[n + 1] = Insert(f[n], rows[n + 1])
      BY <2>1, <3>1
    <3> QED
      BY <3>2, <3>3
  <2> HIDE DEF S
  <2>5. Nat \subseteq S
    BY <2>3, <2>4, Inductive
  <2> QED
    BY <2>5 DEF S
<1> QED
  BY <1>1, <1>3, <1>4

\* The lines of a section before its last.
Body(file) == FlattenSeq([i \in DOMAIN MappingsOf(file) |-> Rendered(MappingsOf(file)[i])])

\* A body has a line for each mapping, in order, unless a vendor name breaks a line.
LEMMA BodyFacts ==
    ASSUME NEW file, RowsOf(file) \in Seq(Rows)
    PROVE  /\ Body(file) \in Seq(Entry \cup {Stray})
           /\ (\A i \in DOMAIN Body(file) : Body(file)[i] # Stray) => Body(file) = MappingsOf(file)
<1> DEFINE m == MappingsOf(file)
           seqs == [i \in DOMAIN m |-> Rendered(m[i])]
           T == Entry \cup {Stray}
           body == FlattenSeq(seqs)
<1>0. Body(file) = body
  BY DEF Body
<1>1. m \in Seq(Entry)
  BY MappingsTyped
<1> HIDE DEF m
<1>2. Len(m) \in Nat /\ DOMAIN m = 1 .. Len(m) /\ \A i \in 1 .. Len(m) : m[i] \in Entry
  BY <1>1
<1>3. \A i \in 1 .. Len(m) :
         /\ Rendered(m[i]) \in Seq(T) /\ Rendered(m[i])[1] = m[i]
         /\ Len(Rendered(m[i])) \in {1, 2}
         /\ Len(Rendered(m[i])) = 2 => Rendered(m[i])[2] = Stray
  <2> SUFFICES ASSUME NEW i \in 1 .. Len(m)
               PROVE  /\ Rendered(m[i]) \in Seq(T) /\ Rendered(m[i])[1] = m[i]
                      /\ Len(Rendered(m[i])) \in {1, 2}
                      /\ Len(Rendered(m[i])) = 2 => Rendered(m[i])[2] = Stray
    OBVIOUS
  <2> DEFINE e == m[i]
             r == Rendered(e)
  <2>1. e \in T /\ Stray \in T
    BY <1>2
  <2>2. r = <<e, Stray>> \/ r = <<e>>
    BY DEF Rendered
  <2> HIDE DEF e, T, r
  <2>5. r \in Seq(T) /\ r[1] = e /\ Len(r) \in {1, 2} /\ (Len(r) = 2 => r[2] = Stray)
    <3>1. CASE r = <<e, Stray>>
      BY <2>1, <3>1
    <3>2. CASE r = <<e>>
      BY <2>1, <3>2
    <3> QED
      BY <2>2, <3>1, <3>2
  <2> QED
    BY <2>5 DEF e, r
<1>4. seqs \in Seq(Seq(T)) /\ Len(seqs) = Len(m) /\ \A i \in 1 .. Len(m) : seqs[i] = Rendered(m[i])
  <2>1. seqs = [i \in 1 .. Len(m) |-> Rendered(m[i])]
    BY <1>2
  <2> HIDE DEF seqs
  <2> QED
    BY <1>2, <1>3, <2>1
<1> HIDE DEF seqs
<1>5. CASE seqs = <<>>
  <2>1. body = <<>>
    BY <1>5 DEF FlattenSeq
  <2>2. Len(m) = 0
    BY <1>4, <1>5
  <2>3. m = <<>>
    BY <1>1, <2>2, EmptySeq
  <2>4. body \in Seq(T) /\ body = m
    BY <2>1, <2>3
  <2> HIDE DEF body
  <2> QED
    BY <1>0, <2>4 DEF m
<1>6. CASE seqs # <<>>
  <2> HIDE DEF body
  <2>1. body \in Seq(T) /\ \E pos : ArePlaces(pos, seqs, body)
    BY <1>4, <1>6, FlattenFacts DEF body
  <2>2. PICK pos : ArePlaces(pos, seqs, body)
    BY <2>1
  <2>3. ASSUME \A i \in DOMAIN body : body[i] # Stray
        PROVE  body = m
    <3>1. /\ pos \in [0 .. Len(m) -> Nat] /\ pos[0] = 0 /\ pos[Len(m)] = Len(body)
          /\ \A k \in 1 .. Len(m) : pos[k] = pos[k - 1] + Len(seqs[k])
          /\ \A k \in 1 .. Len(m) : \A j \in 1 .. Len(seqs[k]) : body[pos[k - 1] + j] = seqs[k][j]
      BY <1>4, <2>2 DEF ArePlaces
    <3>2. \A i, k \in 0 .. Len(m) : i <= k => pos[i] <= pos[k]
      BY <1>4, <2>2, PlacesGrow
    <3>3. DOMAIN body = 1 .. Len(body) /\ Len(body) \in Nat
      BY <2>1
    <3>4. \A k \in 1 .. Len(m) : Len(seqs[k]) = 1 /\ seqs[k][1] = m[k]
      <4> SUFFICES ASSUME NEW k \in 1 .. Len(m), Len(seqs[k]) # 1 PROVE FALSE
        BY <1>3, <1>4
      <4>1. Len(seqs[k]) = 2 /\ seqs[k][2] = Stray
        BY <1>3, <1>4
      <4>2. pos[k] = pos[k - 1] + 2 /\ body[pos[k - 1] + 2] = Stray
        <5>1. 2 \in 1 .. Len(seqs[k])
          BY <4>1
        <5>2. body[pos[k - 1] + 2] = seqs[k][2]
          BY <3>1, <5>1
        <5>3. pos[k] = pos[k - 1] + Len(seqs[k])
          BY <3>1
        <5> QED
          BY <4>1, <5>2, <5>3
      <4>3. k \in 0 .. Len(m) /\ k - 1 \in 0 .. Len(m) /\ Len(m) \in 0 .. Len(m) /\ k <= Len(m)
        BY <1>2
      <4>4. pos[k] <= Len(body) /\ pos[k] \in Nat /\ pos[k - 1] \in Nat
        BY <3>1, <3>2, <4>3
      <4>5. pos[k - 1] + 2 \in 1 .. Len(body)
        BY <3>3, <4>2, <4>4
      <4> QED
        BY <2>3, <3>3, <4>2, <4>5
    <3> DEFINE S == {k \in Nat : k <= Len(m) => pos[k] = k}
    <3>5. 0 \in S
      BY <3>1
    <3>6. ASSUME NEW k \in Nat, k \in S PROVE k + 1 \in S
      <4> SUFFICES ASSUME k + 1 <= Len(m) PROVE pos[k + 1] = k + 1
        OBVIOUS
      <4>1. k + 1 \in 1 .. Len(m) /\ (k + 1) - 1 = k /\ k <= Len(m)
        BY <1>2
      <4>2. pos[k] = k
        BY <3>6, <4>1
      <4>3. pos[k + 1] = pos[(k + 1) - 1] + 1
        BY <3>1, <3>4, <4>1
      <4> QED
        BY <4>1, <4>2, <4>3
    <3> HIDE DEF S
    <3>7. Nat \subseteq S
      BY <3>5, <3>6, Inductive
    <3>8. \A k \in 0 .. Len(m) : pos[k] = k
      BY <1>2, <3>7 DEF S
    <3>9. Len(body) = Len(m)
      BY <1>2, <3>1, <3>8
    <3>10. \A k \in 1 .. Len(m) : body[k] = m[k]
      <4> TAKE k \in 1 .. Len(m)
      <4>1. k - 1 \in 0 .. Len(m) /\ (k - 1) + 1 = k /\ 1 \in 1 .. 1
        BY <1>2
      <4>2. body[pos[k - 1] + 1] = seqs[k][1]
        BY <3>1, <3>4, <4>1
      <4> QED
        BY <3>4, <3>8, <4>1, <4>2
    <3>11. m \in Seq(T)
      BY <1>1, <1>2
    <3> HIDE DEF T
    <3> QED
      BY <2>1, <3>9, <3>10, <3>11, SeqEqual
  <2> QED
    BY <1>0, <2>1, <2>3 DEF m
<1> QED
  BY <1>5, <1>6

\* Every line of a section is a line of the registry, the last one its end.
LEMMA SectionFacts ==
    ASSUME NEW g \in Registry, NEW file, RowsOf(file) \in Seq(Rows)
    PROVE  /\ Section(g, file) \in Seq(Line) /\ Section(g, file) # <<>>
           /\ Parses(Section(g, file)) =>
                LET n == Len(MappingsOf(file))
                IN  /\ n \in Nat /\ Len(Section(g, file)) = n + 1
                    /\ \A j \in 1 .. n : Section(g, file)[j] = MappingsOf(file)[j]
                    /\ \A j \in 1 .. n : Section(g, file)[j].line = "mapping"
                    /\ Section(g, file)[n + 1] = EndOfSection(g, n)
<1> DEFINE m == MappingsOf(file)
           n == Len(m)
           body == Body(file)
           end == EndOfSection(g, n)
           section == Section(g, file)
<1>1. m \in Seq(Entry)
  BY MappingsTyped
<1>2. n \in Nat
  BY <1>1
<1>3. section = Append(body, end)
  BY DEF Section, Body
<1>4. body \in Seq(Entry \cup {Stray})
  BY BodyFacts
<1>5. Entry \subseteq Line
  BY DEF Entry, Mapping, Line
<1>6. Stray \in Line
  BY DEF Stray, Line
<1>7. end \in Line
  BY <1>2 DEF EndOfSection, Line
<1> HIDE DEF end, body, section, m
<1>8. body \in Seq(Line)
  BY <1>4, <1>5, <1>6
<1>9. /\ section \in Seq(Line) /\ Len(section) = Len(body) + 1 /\ Len(body) \in Nat
      /\ \A i \in 1 .. Len(body) : section[i] = body[i]
      /\ section[Len(body) + 1] = end
  BY <1>3, <1>7, <1>8
<1>10. section # <<>>
  BY <1>9
<1>11. ASSUME Parses(section)
       PROVE  /\ n \in Nat /\ Len(section) = n + 1
              /\ \A j \in 1 .. n : section[j] = m[j]
              /\ \A j \in 1 .. n : section[j].line = "mapping"
              /\ section[n + 1] = end
  <2>1. \A i \in 1 .. Len(body) : body[i] # Stray
    <3> SUFFICES ASSUME NEW i \in 1 .. Len(body), body[i] = Stray PROVE FALSE
      OBVIOUS
    <3>1. i \in DOMAIN section /\ section[i] = Stray
      BY <1>9
    <3>2. LineAccepted(Stray)
      BY <1>11, <3>1 DEF Parses
    <3> QED
      BY <3>2 DEF LineAccepted, Stray
  <2>2. DOMAIN body = 1 .. Len(body)
    BY <1>8
  <2>3. body = m
    BY <2>1, <2>2, BodyFacts DEF body, m
  <2>4. \A j \in 1 .. n : m[j].line = "mapping"
    BY <1>1 DEF Entry, Mapping
  <2> QED
    BY <1>2, <1>9, <2>3, <2>4
<1> QED
  BY <1>9, <1>10, <1>11 DEF section, end, m

\* As many numbers as there are places, when the places are apart.
LEMMA CountPlaces ==
    ASSUME NEW k \in Nat, NEW pos, \A i \in 1 .. k : pos[i] \in Nat,
           \A i, j \in 1 .. k : i < j => pos[i] < pos[j]
    PROVE  Cardinality({pos[i] : i \in 1 .. k}) = k
<1> DEFINE S == {pos[i] : i \in 1 .. k}
           f == [i \in 1 .. k |-> pos[i]]
<1>1. f \in [1 .. k -> S]
  OBVIOUS
<1>2. IsInjective(f)
  <2> SUFFICES ASSUME NEW i \in 1 .. k, NEW j \in 1 .. k, pos[i] = pos[j] PROVE i = j
    BY DEF IsInjective
  <2>1. ~(i < j) /\ ~(j < i)
    OBVIOUS
  <2> QED
    BY <2>1
<1>3. f \in Surjection(1 .. k, S)
  BY <1>1 DEF Surjection
<1>4. f \in Bijection(1 .. k, S)
  BY <1>1, <1>2, <1>3 DEF Bijection, Injection
<1>5. IsFiniteSet(1 .. k) /\ Cardinality(1 .. k) = k
  BY FS_Interval
<1> HIDE DEF S
<1> QED
  BY <1>4, <1>5, FS_Bijection DEF ExistsBijection, S

\* A text that was generated from all listings and that the parser accepts is whole.
LEMMA ConvertedWhole ==
    ASSUME NEW files, \A i \in DOMAIN AllRegistries : RowsOf(files[i]) \in Seq(Rows)
    PROVE  /\ Converted(files) \in Seq(Line)
           /\ Parses(Converted(files)) => WholeText(Converted(files))
<1> DEFINE N == Len(AllRegistries)
           seqs == [i \in DOMAIN AllRegistries |-> Section(AllRegistries[i], files[i])]
           text == Converted(files)
           m(i) == MappingsOf(files[i])
<1>1. N \in Nat \ {0} /\ DOMAIN AllRegistries = 1 .. N /\ \A i \in 1 .. N : AllRegistries[i] \in Registry
  BY RegistryAssumption
<1>2. text = FlattenSeq(seqs)
  BY DEF Converted
<1>3. /\ seqs \in Seq(Seq(Line)) /\ Len(seqs) = N
      /\ \A i \in 1 .. N : seqs[i] = Section(AllRegistries[i], files[i]) /\ seqs[i] # <<>>
  <2>1. seqs = [i \in 1 .. N |-> Section(AllRegistries[i], files[i])]
    BY <1>1
  <2>2. \A i \in 1 .. N : /\ Section(AllRegistries[i], files[i]) \in Seq(Line)
                          /\ Section(AllRegistries[i], files[i]) # <<>>
    BY <1>1, SectionFacts
  <2> HIDE DEF seqs
  <2> QED
    BY <1>1, <2>1, <2>2
<1> HIDE DEF seqs, text
<1>4. seqs # <<>>
  BY <1>1, <1>3
<1>5. text \in Seq(Line) /\ \E pos : ArePlaces(pos, seqs, text)
  BY <1>2, <1>3, <1>4, FlattenFacts
<1>6. ASSUME Parses(text) PROVE WholeText(text)
  <2>1. PICK pos : ArePlaces(pos, seqs, text)
    BY <1>5
  <2>2. /\ \A k \in 0 .. N : pos[k] \in Nat
        /\ pos[0] = 0 /\ pos[N] = Len(text)
        /\ \A k \in 1 .. N : pos[k] = pos[k - 1] + Len(seqs[k])
        /\ \A k \in 1 .. N : \A j \in 1 .. Len(seqs[k]) : text[pos[k - 1] + j] = seqs[k][j]
    BY <1>3, <2>1 DEF ArePlaces
  <2>3. /\ \A i, k \in 0 .. N : i <= k => pos[i] <= pos[k]
        /\ \A i, k \in 0 .. N : i < k => pos[i] < pos[k]
    BY <1>3, <2>1, PlacesGrow
  <2>4. Len(text) \in Nat /\ DOMAIN text = 1 .. Len(text)
    BY <1>5
  <2> DEFINE n(k) == Len(m(k))
  <2>5. ASSUME NEW k \in 1 .. N
        PROVE  /\ n(k) \in Nat /\ Len(seqs[k]) = n(k) + 1
               /\ \A j \in 1 .. n(k) : seqs[k][j].line = "mapping"
               /\ seqs[k][n(k) + 1] = EndOfSection(AllRegistries[k], n(k))
    <3>1. seqs[k] = Section(AllRegistries[k], files[k]) /\ seqs[k] \in Seq(Line)
      BY <1>3
    <3>2. Parses(seqs[k])
      <4> SUFFICES ASSUME NEW j \in 1 .. Len(seqs[k]) PROVE LineAccepted(seqs[k][j])
        BY <3>1 DEF Parses
      <4>1. Len(seqs[k]) \in Nat
        BY <3>1
      <4>2. k \in 0 .. N /\ k - 1 \in 0 .. N /\ N \in 0 .. N /\ k <= N
        BY <1>1
      <4>3. pos[k] <= Len(text) /\ pos[k - 1] \in Nat /\ pos[k] = pos[k - 1] + Len(seqs[k])
        BY <2>2, <2>3, <4>2
      <4>4. pos[k - 1] + j \in 1 .. Len(text)
        BY <2>4, <4>1, <4>3
      <4>5. text[pos[k - 1] + j] = seqs[k][j]
        BY <2>2
      <4> QED
        BY <1>6, <2>4, <4>4, <4>5 DEF Parses
    <3> QED
      BY <1>1, <3>1, <3>2, SectionFacts
  <2> HIDE DEF n
  <2> DEFINE ends == {i \in DOMAIN text : text[i].line = "end"}
  <2>6. ASSUME NEW k \in 1 .. N
        PROVE  /\ pos[k] \in ends /\ pos[k] = pos[k - 1] + n(k) + 1 /\ pos[k - 1] \in Nat
               /\ text[pos[k]] = EndOfSection(AllRegistries[k], n(k))
               /\ \A i \in (pos[k - 1] + 1) .. pos[k] : i \in ends => i = pos[k]
    <3>1. k \in 0 .. N /\ k - 1 \in 0 .. N /\ N \in 0 .. N /\ k <= N
      BY <1>1
    <3>2. n(k) \in Nat /\ Len(seqs[k]) = n(k) + 1
      BY <2>5
    <3>3. pos[k] <= Len(text) /\ pos[k - 1] \in Nat /\ pos[k] = pos[k - 1] + Len(seqs[k])
      BY <2>2, <2>3, <3>1
    <3>4. pos[k] = pos[k - 1] + n(k) + 1 /\ pos[k] \in 1 .. Len(text)
      BY <2>4, <3>2, <3>3
    <3>5. n(k) + 1 \in 1 .. Len(seqs[k])
      BY <3>2
    <3>6. text[pos[k - 1] + (n(k) + 1)] = seqs[k][n(k) + 1]
      BY <2>2, <3>5
    <3>7. pos[k - 1] + (n(k) + 1) = pos[k]
      BY <3>2, <3>3
    <3>8. text[pos[k]] = EndOfSection(AllRegistries[k], n(k))
      BY <2>5, <3>6, <3>7
    <3>9. pos[k] \in ends
      BY <2>4, <3>4, <3>8 DEF EndOfSection
    <3>10. ASSUME NEW i \in (pos[k - 1] + 1) .. pos[k], i # pos[k] PROVE i \notin ends
      <4>1. i - pos[k - 1] \in 1 .. n(k) /\ i - pos[k - 1] \in 1 .. Len(seqs[k])
            /\ pos[k - 1] + (i - pos[k - 1]) = i
        BY SMTT(60), <3>2, <3>3, <3>4, <3>10
      <4>2. text[i] = seqs[k][i - pos[k - 1]]
        BY <2>2, <4>1
      <4>3. text[i].line = "mapping"
        BY <2>5, <4>1, <4>2
      <4> QED
        BY <4>3
    <3> QED
      BY <3>3, <3>4, <3>8, <3>9, <3>10
  <2>7. \A i \in ends : \E k \in 1 .. N : i = pos[k]
    <3> SUFFICES ASSUME NEW i \in ends PROVE \E k \in 1 .. N : i = pos[k]
      OBVIOUS
    <3>1. i \in 1 .. Len(text)
      BY <2>4
    <3> DEFINE S == {k \in 0 .. N : i <= pos[k]}
    <3>2. S \subseteq Nat /\ N \in S
      BY <1>1, <2>2, <3>1
    <3>3. PICK k \in S : \A l \in S : k <= l
      <4> HIDE DEF S
      <4> QED
        BY <3>2, LeastElement
    <3>4. k \in 1 .. N
      BY <2>2, <3>1
    <3>5. k - 1 \notin S /\ k - 1 \in 0 .. N
      BY <1>1, <3>3, <3>4
    <3>6. pos[k - 1] \in Nat /\ pos[k] \in Nat /\ pos[k - 1] < i /\ i <= pos[k]
      BY <2>2, <3>1, <3>4, <3>5
    <3>7. i \in (pos[k - 1] + 1) .. pos[k]
      BY <3>1, <3>6
    <3> QED
      BY <2>6, <3>4, <3>7
  <2>8. \A k \in 1 .. N : \A i, j \in 1 .. k : pos[i] \in Nat /\ (i < j => pos[i] < pos[j])
    <3> TAKE k \in 1 .. N
    <3> TAKE i, j \in 1 .. k
    <3>1. i \in 0 .. N /\ j \in 0 .. N
      BY <1>1
    <3> QED
      BY <2>2, <2>3, <3>1
  <2> DEFINE upTo(i) == {j \in ends : j <= i}
  <2>9. \A k \in 1 .. N : Cardinality(upTo(pos[k])) = k
    <3> SUFFICES ASSUME NEW k \in 1 .. N PROVE Cardinality(upTo(pos[k])) = k
      OBVIOUS
    <3>1. \A j \in 1 .. k : j \in 1 .. N /\ pos[j] \in ends /\ pos[j] <= pos[k]
      <4> TAKE j \in 1 .. k
      <4>1. j \in 1 .. N /\ j \in 0 .. N /\ k \in 0 .. N /\ j <= k
        BY <1>1
      <4> QED
        BY <2>3, <2>6, <4>1
    <3>2. ASSUME NEW i \in ends, i <= pos[k] PROVE \E j \in 1 .. k : i = pos[j]
      <4>1. PICK j \in 1 .. N : i = pos[j]
        BY <2>7
      <4>2. j \in 0 .. N /\ k \in 0 .. N /\ pos[j] \in Nat /\ pos[k] \in Nat
        BY <1>1, <2>2
      <4>3. ~(k < j)
        BY <2>3, <3>2, <4>1, <4>2
      <4>4. j \in 1 .. k
        BY <4>1, <4>3
      <4> QED
        BY <4>1, <4>4
    <3> HIDE DEF ends
    <3>3. upTo(pos[k]) = {pos[j] : j \in 1 .. k}
      BY <3>1, <3>2
    <3>4. Cardinality({pos[j] : j \in 1 .. k}) = k
      <4>1. k \in Nat /\ \A i \in 1 .. k : pos[i] \in Nat
        BY <2>8
      <4>2. \A i, j \in 1 .. k : i < j => pos[i] < pos[j]
        BY <2>8
      <4> QED
        BY <4>1, <4>2, CountPlaces
    <3> QED
      BY <3>3, <3>4
  <2>10. Cardinality(ends) = N /\ Len(text) \in ends
    <3>1. N \in 1 .. N /\ pos[N] = Len(text)
      BY <1>1, <2>2
    <3>2. upTo(pos[N]) = ends
      BY <2>4, <3>1
    <3> QED
      BY <2>6, <2>9, <3>1, <3>2
  <2> DEFINE endOf(k) == CHOOSE i \in ends : Cardinality({j \in ends : j <= i}) = k
             from(k) == IF k = 1 THEN 0 ELSE endOf(k - 1)
  <2>11. \A k \in 1 .. N : endOf(k) = pos[k]
    <3> SUFFICES ASSUME NEW k \in 1 .. N PROVE endOf(k) = pos[k]
      OBVIOUS
    <3>1. pos[k] \in ends /\ Cardinality(upTo(pos[k])) = k
      BY <2>6, <2>9
    <3>2. ASSUME NEW i \in ends, Cardinality(upTo(i)) = k PROVE i = pos[k]
      <4>1. PICK j \in 1 .. N : i = pos[j]
        BY <2>7
      <4> HIDE DEF ends, upTo
      <4>2. Cardinality(upTo(pos[j])) = j
        BY <2>9
      <4> QED
        BY <3>2, <4>1, <4>2
    <3> HIDE DEF ends
    <3>3. endOf(k) \in ends /\ Cardinality(upTo(endOf(k))) = k
      BY <3>1
    <3> HIDE DEF upTo, endOf
    <3> QED
      BY <3>2, <3>3
  <2> HIDE DEF ends, endOf
  <2>12. ASSUME NEW k \in 1 .. N
         PROVE  text[endOf(k)].vendor = <<AllRegistries[k], endOf(k) - from(k) - 1>>
    <3>1. from(k) = pos[k - 1]
      <4>1. CASE k = 1
        BY <2>2, <4>1
      <4>2. CASE k # 1
        <5>1. k - 1 \in 1 .. N
          BY <1>1, <4>2
        <5> QED
          BY <2>11, <4>2, <5>1
      <4> QED
        BY <4>1, <4>2
    <3>2. endOf(k) = pos[k]
      BY <2>11
    <3>3. pos[k] - pos[k - 1] - 1 = n(k)
      <4>1. n(k) \in Nat /\ pos[k - 1] \in Nat /\ pos[k] = pos[k - 1] + n(k) + 1
        BY <2>5, <2>6
      <4> HIDE DEF N
      <4> QED
        BY <4>1
    <3>4. text[pos[k]].vendor = <<AllRegistries[k], n(k)>>
      <4>1. text[pos[k]] = EndOfSection(AllRegistries[k], n(k))
        BY <2>6
      <4>2. EndOfSection(AllRegistries[k], n(k)).vendor = <<AllRegistries[k], n(k)>>
        BY DEF EndOfSection
      <4> QED
        BY <4>1, <4>2, Zenon
    <3> HIDE DEF from
    <3> QED
      BY <3>1, <3>2, <3>3, <3>4
  <2>13. \A k \in DOMAIN AllRegistries :
            text[endOf(k)].vendor = <<AllRegistries[k], endOf(k) - from(k) - 1>>
    <3> HIDE DEF from
    <3> QED
      BY <1>1, <2>12
  <2> QED
    BY <1>6, <2>10, <2>13, Zenon DEF WholeText, ends, endOf
<1> QED
  BY <1>5, <1>6 DEF text
-----------------------------------------------------------------------------
(* The characters that are kept *)

\* What is kept of the first n characters, for each n.
AreKept(kept, chars, wanted) ==
    kept = [n \in 0 .. Len(chars) |->
                IF n = 0 THEN <<>>
                ELSE IF chars[n] \in wanted THEN Append(kept[n - 1], chars[n])
                ELSE kept[n - 1]]

\* Characters can be kept one by one.
LEMMA KeptExist ==
    ASSUME NEW C, NEW chars \in Seq(C), NEW wanted
    PROVE  \E kept : AreKept(kept, chars, wanted)
<1> DEFINE n == Len(chars)
           next(k, s) == IF k + 1 <= n /\ chars[k + 1] \in wanted THEN Append(s, chars[k + 1]) ELSE s
           step == [k \in Nat |-> [s \in Seq(C) |-> next(k, s)]]
<1>1. n \in Nat /\ \A k \in 1 .. n : chars[k] \in C
  OBVIOUS
<1>2. step \in [Nat -> [Seq(C) -> Seq(C)]]
  <2>1. ASSUME NEW k \in Nat, NEW s \in Seq(C) PROVE next(k, s) \in Seq(C)
    <3>1. CASE k + 1 <= n
      <4>1. chars[k + 1] \in C
        BY <1>1, <3>1
      <4> QED
        BY <4>1
    <3> QED
      BY <3>1
  <2> HIDE DEF next
  <2> QED
    BY <2>1
<1>3. <<>> \in Seq(C)
  OBVIOUS
<1>4. \A k \in Nat, s \in Seq(C) : step[k][s] = next(k, s)
  OBVIOUS
<1> HIDE DEF step, n
<1>5. PICK f \in [Nat -> Seq(C)] : f[0] = <<>> /\ \A k \in Nat : f[k + 1] = step[k][f[k]]
  <2> DEFINE S == Seq(C)
             first == <<>>
  <2>1. first \in S /\ step \in [Nat -> [S -> S]]
    BY <1>2, <1>3
  <2> HIDE DEF S, first
  <2>2. \E f \in [Nat -> S] : GoesBy(f, first, step)
    BY <2>1, StepsExist
  <2> QED
    BY <2>2 DEF S, first, GoesBy
<1> DEFINE kept == [k \in 0 .. n |-> f[k]]
<1>6. ASSUME NEW k \in 0 .. n
      PROVE  kept[k] = IF k = 0 THEN <<>>
                       ELSE IF chars[k] \in wanted THEN Append(kept[k - 1], chars[k]) ELSE kept[k - 1]
  <2>1. CASE k = 0
    BY <1>5, <2>1
  <2>2. CASE k # 0
    <3>1. k - 1 \in Nat /\ k - 1 \in 0 .. n /\ (k - 1) + 1 = k /\ k <= n
      BY <1>1, <2>2
    <3>2. f[k] = next(k - 1, f[k - 1])
      <4>1. f[(k - 1) + 1] = step[k - 1][f[k - 1]] /\ f[k - 1] \in Seq(C)
        BY <1>5, <3>1
      <4> QED
        BY <1>4, <3>1, <4>1
    <3> QED
      BY <2>2, <3>1, <3>2
  <2> QED
    BY <2>1, <2>2
<1>7. kept = [k \in 0 .. n |-> kept[k]]
  OBVIOUS
<1> HIDE DEF kept
<1>8. AreKept(kept, chars, wanted)
  BY <1>6, <1>7 DEF AreKept, n
<1> QED
  BY <1>8

\* Only wanted characters are kept, and all of them when there are no others.
LEMMA OnlyWanted ==
    ASSUME NEW C, NEW chars \in Seq(C), NEW wanted
    PROVE  /\ Only(chars, wanted) \in Seq(C \cap wanted)
           /\ chars \in Seq(wanted) => Only(chars, wanted) = chars
<1> DEFINE n == Len(chars)
           kept == CHOOSE f : AreKept(f, chars, wanted)
           D == C \cap wanted
<1>1. AreKept(kept, chars, wanted)
  BY KeptExist
<1>2. Only(chars, wanted) = kept[n]
  BY DEF Only, AreKept
<1>3. n \in Nat /\ \A k \in 1 .. n : chars[k] \in C
  OBVIOUS
<1> HIDE DEF kept, n
<1>4. \A k \in 0 .. n :
         kept[k] = IF k = 0 THEN <<>>
                   ELSE IF chars[k] \in wanted THEN Append(kept[k - 1], chars[k]) ELSE kept[k - 1]
  BY <1>1 DEF AreKept, n
<1> DEFINE Whole(k) == Len(kept[k]) = k /\ \A i \in 1 .. k : kept[k][i] = chars[i]
           S == {k \in Nat : k <= n =>
                    kept[k] \in Seq(D) /\ ((\A i \in 1 .. n : chars[i] \in wanted) => Whole(k))}
<1>5. 0 \in S
  <2>1. kept[0] = <<>>
    BY <1>3, <1>4
  <2>2. kept[0] \in Seq(D) /\ Len(kept[0]) = 0
    BY <2>1
  <2> QED
    BY <2>2
<1>6. ASSUME NEW k \in Nat, k \in S PROVE k + 1 \in S
  <2> SUFFICES ASSUME k + 1 <= n
               PROVE  /\ kept[k + 1] \in Seq(D)
                      /\ (\A i \in 1 .. n : chars[i] \in wanted) => Whole(k + 1)
    BY DEF S
  <2>1. k + 1 \in 0 .. n /\ k + 1 \in 1 .. n /\ k + 1 # 0 /\ (k + 1) - 1 = k /\ k <= n
    BY <1>3
  <2>2. kept[k] \in Seq(D) /\ ((\A i \in 1 .. n : chars[i] \in wanted) => Whole(k))
    BY <1>6, <2>1 DEF S
  <2>3. kept[k + 1] = IF chars[k + 1] \in wanted THEN Append(kept[k], chars[k + 1]) ELSE kept[k]
    BY <1>4, <2>1
  <2> DEFINE c == chars[k + 1]
             s == kept[k]
  <2> HIDE DEF S, c, s, D
  <2>4. CASE c \in wanted
    <3>1. c \in D
      BY <1>3, <2>1, <2>4 DEF c, D
    <3>2. kept[k + 1] = Append(s, c) /\ s \in Seq(D)
      BY <2>2, <2>3, <2>4 DEF c, s
    <3>3. /\ Append(s, c) \in Seq(D) /\ Len(Append(s, c)) = Len(s) + 1
          /\ \A i \in 1 .. Len(s) : Append(s, c)[i] = s[i]
          /\ Append(s, c)[Len(s) + 1] = c
      BY <3>1, <3>2
    <3>4. Whole(k) => Whole(k + 1)
      <4> SUFFICES ASSUME Whole(k) PROVE Whole(k + 1)
        OBVIOUS
      <4>1. Len(s) = k /\ \A i \in 1 .. k : s[i] = chars[i]
        BY DEF s
      <4>2. Len(kept[k + 1]) = k + 1 /\ kept[k + 1][k + 1] = c
        BY <3>2, <3>3, <4>1
      <4>3. ASSUME NEW i \in 1 .. k + 1 PROVE kept[k + 1][i] = chars[i]
        <5>1. CASE i = k + 1
          BY <4>2, <5>1 DEF c
        <5>2. CASE i # k + 1
          <6>1. i \in 1 .. k
            BY <5>2
          <6> QED
            BY <3>2, <3>3, <4>1, <6>1
        <5> QED
          BY <5>1, <5>2
      <4> QED
        BY <4>2, <4>3
    <3> QED
      BY <2>2, <3>2, <3>3, <3>4
  <2>5. CASE c \notin wanted
    <3>1. kept[k + 1] = s
      BY <2>3, <2>5 DEF c, s
    <3>2. ~(\A i \in 1 .. n : chars[i] \in wanted)
      BY <2>1, <2>5 DEF c
    <3> QED
      BY <2>2, <3>1, <3>2 DEF s
  <2> QED
    BY <2>4, <2>5
<1> HIDE DEF S
<1>7. Nat \subseteq S
  BY <1>5, <1>6, Inductive
<1>8. kept[n] \in Seq(D) /\ ((\A i \in 1 .. n : chars[i] \in wanted) => Whole(n))
  BY <1>3, <1>7 DEF S
<1>9. ASSUME chars \in Seq(wanted) PROVE kept[n] = chars
  <2>1. \A i \in 1 .. n : chars[i] \in wanted
    BY <1>9 DEF n
  <2>2. Len(kept[n]) = Len(chars) /\ \A i \in 1 .. Len(chars) : kept[n][i] = chars[i]
    BY <1>8, <2>1 DEF n
  <2>3. kept[n] \in Seq(C)
    BY <1>8
  <2> HIDE DEF Whole, D
  <2> QED
    BY <2>2, <2>3, SeqEqual
<1> QED
  BY <1>2, <1>8, <1>9

\* The assignment of a row that is accepted is a prefix the parser takes as it is.
LEMMA AcceptedPrefix ==
    ASSUME NEW g \in Registry, NEW row \in Rows, RowAccepted(g, row)
    PROVE  /\ Stripped(row.assignment) \in Seq(Hex)
           /\ Len(Stripped(row.assignment)) \in MinPrefixDigits .. AddressDigits
           /\ Normalized(Stripped(row.assignment)) = Stripped(row.assignment)
<1> DEFINE prefix == Stripped(row.assignment)
           C == Range(row.assignment)
<1>1. row.assignment \in Seq(C)
  BY RowsAssumption
<1>2. prefix \in Seq(C \cap (C \ Separator))
  BY <1>1, OnlyWanted DEF Stripped
<1>3. Len(prefix) = AssignmentDigits[g] /\ Range(prefix) \subseteq Hex
  BY DEF RowAccepted, AssignmentFits
<1>4. AssignmentDigits[g] \in MinPrefixDigits .. AddressDigits
  BY RegistryAssumption
<1> HIDE DEF prefix, C
<1>5. prefix \in Seq(Hex)
  <2>1. \A i \in 1 .. Len(prefix) : prefix[i] \in Range(prefix)
    BY <1>2 DEF Range
  <2> QED
    BY <1>2, <1>3, <2>1
<1>6. Normalized(prefix) = prefix
  BY <1>5, OnlyWanted DEF Normalized
<1> QED
  BY <1>3, <1>4, <1>5, <1>6 DEF prefix

\* The rows that a listing of whole cells is read as.
LEMMA RowsOfCells ==
    ASSUME NEW rows \in Seq(Rows)
    PROVE  RowsOf(Cells(rows)) = rows
<1> DEFINE n == Len(rows)
           file == Cells(rows)
<1>1. n \in Nat /\ rows = [i \in 1 .. n |-> rows[i]]
  OBVIOUS
<1>2. file = [i \in 1 .. 2 * n |->
                [part |-> IF i % 2 = 1 THEN "front" ELSE "back", row |-> rows[(i + 1) \div 2]]]
  BY DEF Cells
<1>3. Len(file) = 2 * n
  BY <1>1, <1>2
<1>4. RowsOf(file) = [i \in 1 .. Len(file) \div 2 |-> file[2 * i - 1].row]
  BY DEF RowsOf
<1> HIDE DEF file
<1>5. Len(file) \div 2 = n
  <2>1. ASSUME NEW k \in Nat PROVE (2 * k) \div 2 = k
    OBVIOUS
  <2> HIDE DEF n
  <2> QED
    BY <1>1, <1>3, <2>1
<1>6. ASSUME NEW i \in 1 .. n PROVE file[2 * i - 1].row = rows[i]
  <2>1. 2 * i - 1 \in 1 .. 2 * n /\ ((2 * i - 1) + 1) \div 2 = i
    BY <1>1
  <2> DEFINE j == 2 * i - 1
  <2>2. j \in 1 .. 2 * n /\ (j + 1) \div 2 = i
    BY <2>1
  <2> HIDE DEF j
  <2>3. file[j].row = rows[(j + 1) \div 2]
    BY <1>2, <2>2
  <2> QED
    BY <2>2, <2>3 DEF j
<1>7. RowsOf(file) = [i \in 1 .. n |-> rows[i]]
  BY <1>4, <1>5, <1>6
<1> QED
  BY <1>1, <1>7 DEF file
-----------------------------------------------------------------------------
(* Which rows the mappings are made of *)

PrefixOf(row) == Stripped(row.assignment)
EntryOf(row) == Mapping(PrefixOf(row), row.vendor)

\* Of the first n rows, row i is the last with its prefix.
IsLastRow(rows, n, i) == \A k \in 1 .. n : PrefixOf(rows[k]) = PrefixOf(rows[i]) => k <= i

\* The mappings have the prefixes of the first n rows, each with the vendor of the
\* last row that has the prefix.
Records(mappings, rows, n) ==
    /\ mappings \in Seq(Entry)
    /\ \A i \in 1 .. n : \E j \in 1 .. Len(mappings) : mappings[j].prefix = PrefixOf(rows[i])
    /\ \A j \in 1 .. Len(mappings) : \E i \in 1 .. n :
            mappings[j] = EntryOf(rows[i]) /\ IsLastRow(rows, n, i)

\* One more row is recorded: its prefix has its vendor now, and other prefixes keep theirs.
LEMMA InsertRecords ==
    ASSUME NEW rows \in Seq(Rows), NEW n \in Nat, n + 1 <= Len(rows),
           NEW m, Records(m, rows, n)
    PROVE  Records(Insert(m, rows[n + 1]), rows, n + 1)
<1> DEFINE row == rows[n + 1]
           prefix == PrefixOf(row)
           entry == EntryOf(row)
           known == {i \in DOMAIN m : m[i].prefix = prefix}
           changed == [i \in DOMAIN m |-> IF i \in known THEN entry ELSE m[i]]
           new == Insert(m, row)
<1>1. row \in Rows
  OBVIOUS
<1>2. new = IF known = {} THEN Append(m, entry) ELSE changed
  BY DEF Insert, EntryOf, PrefixOf
<1>3. /\ m \in Seq(Entry) /\ Len(m) \in Nat /\ DOMAIN m = 1 .. Len(m)
      /\ \A i \in 1 .. n : \E j \in 1 .. Len(m) : m[j].prefix = PrefixOf(rows[i])
      /\ \A j \in 1 .. Len(m) : \E i \in 1 .. n : m[j] = EntryOf(rows[i]) /\ IsLastRow(rows, n, i)
  BY DEF Records
<1>4. new \in Seq(Entry)
  BY <1>1, <1>3, InsertKeeps
<1>5. entry \in Entry /\ entry.prefix = prefix
  BY <1>1 DEF EntryOf, Mapping, PrefixOf, Entry
<1>6. \A i \in 1 .. n : EntryOf(rows[i]).prefix = PrefixOf(rows[i])
  BY DEF EntryOf, Mapping
<1>7. n + 1 \in 1 .. n + 1 /\ \A i \in 1 .. n : i \in 1 .. n + 1
  OBVIOUS
<1>8. IsLastRow(rows, n + 1, n + 1)
  BY DEF IsLastRow
<1>9. ASSUME NEW j \in 1 .. Len(m), j \notin known
      PROVE  \E i \in 1 .. n + 1 : m[j] = EntryOf(rows[i]) /\ IsLastRow(rows, n + 1, i)
  <2>1. PICK i \in 1 .. n : m[j] = EntryOf(rows[i]) /\ IsLastRow(rows, n, i)
    BY <1>3
  <2>2. PrefixOf(rows[i]) # PrefixOf(rows[n + 1])
    BY <1>3, <1>6, <1>9, <2>1
  <2>3. IsLastRow(rows, n + 1, i)
    <3> SUFFICES ASSUME NEW k \in 1 .. n + 1, PrefixOf(rows[k]) = PrefixOf(rows[i]) PROVE k <= i
      BY DEF IsLastRow
    <3>1. k # n + 1
      BY <2>2
    <3>2. k \in 1 .. n
      BY <3>1
    <3> QED
      BY <2>1, <3>2 DEF IsLastRow
  <2> QED
    BY <1>7, <2>1, <2>3
<1> HIDE DEF entry, prefix, row, new
<1>10. ASSUME known = {} PROVE Records(new, rows, n + 1)
  <2>1. new = Append(m, entry)
    BY <1>2, <1>10
  <2>2. /\ Len(new) = Len(m) + 1 /\ new[Len(m) + 1] = entry
        /\ \A j \in 1 .. Len(m) : new[j] = m[j]
    BY <1>3, <1>5, <2>1
  <2>3. /\ Len(m) + 1 \in 1 .. Len(new) /\ \A j \in 1 .. Len(m) : j \in 1 .. Len(new)
        /\ \A j \in 1 .. Len(new) : j = Len(m) + 1 \/ j \in 1 .. Len(m)
    BY <1>3, <2>2
  <2>4. ASSUME NEW i \in 1 .. n + 1
        PROVE  \E j \in 1 .. Len(new) : new[j].prefix = PrefixOf(rows[i])
    <3>1. CASE i = n + 1
      BY <1>5, <2>2, <2>3, <3>1 DEF prefix, row
    <3>2. CASE i # n + 1
      <4>1. i \in 1 .. n
        BY <3>2
      <4>2. PICK j \in 1 .. Len(m) : m[j].prefix = PrefixOf(rows[i])
        BY <1>3, <4>1
      <4> QED
        BY <2>2, <2>3, <4>2
    <3> QED
      BY <3>1, <3>2
  <2>5. ASSUME NEW j \in 1 .. Len(new)
        PROVE  \E i \in 1 .. n + 1 : new[j] = EntryOf(rows[i]) /\ IsLastRow(rows, n + 1, i)
    <3>1. CASE j = Len(m) + 1
      BY <1>7, <1>8, <2>2, <3>1 DEF entry, row
    <3>2. CASE j \in 1 .. Len(m)
      <4>1. j \notin known
        BY <1>10
      <4> HIDE DEF known
      <4> QED
        BY <1>9, <2>2, <3>2, <4>1
    <3> QED
      BY <2>3, <3>1, <3>2
  <2> QED
    BY <1>4, <2>4, <2>5 DEF Records
<1>11. ASSUME known # {} PROVE Records(new, rows, n + 1)
  <2>1. new = [i \in 1 .. Len(m) |-> IF i \in known THEN entry ELSE m[i]]
    BY <1>2, <1>3, <1>11
  <2>2. Len(new) = Len(m) /\ \A j \in 1 .. Len(m) : new[j] = IF j \in known THEN entry ELSE m[j]
    BY <1>3, <2>1
  <2>3. known \subseteq 1 .. Len(m) /\ \A j \in known : m[j].prefix = prefix
    BY <1>3
  <2> HIDE DEF known
  <2>4. ASSUME NEW i \in 1 .. n + 1
        PROVE  \E j \in 1 .. Len(new) : new[j].prefix = PrefixOf(rows[i])
    <3>1. CASE i = n + 1
      <4>1. PICK j \in known : TRUE
        BY <1>11
      <4> QED
        BY <1>5, <2>2, <2>3, <3>1, <4>1 DEF prefix, row
    <3>2. CASE i # n + 1
      <4>1. i \in 1 .. n
        BY <3>2
      <4>2. PICK j \in 1 .. Len(m) : m[j].prefix = PrefixOf(rows[i])
        BY <1>3, <4>1
      <4>3. new[j].prefix = m[j].prefix
        BY <1>5, <2>2, <2>3
      <4> QED
        BY <2>2, <4>2, <4>3
    <3> QED
      BY <3>1, <3>2
  <2>5. ASSUME NEW j \in 1 .. Len(new)
        PROVE  \E i \in 1 .. n + 1 : new[j] = EntryOf(rows[i]) /\ IsLastRow(rows, n + 1, i)
    <3>1. CASE j \in known
      BY <1>7, <1>8, <2>2, <3>1 DEF entry, row
    <3>2. CASE j \notin known
      BY <1>9, <2>2, <3>2
    <3> QED
      BY <3>1, <3>2
  <2> QED
    BY SMTT(60), <1>4, <2>4, <2>5 DEF Records
<1> QED
  BY <1>10, <1>11 DEF new, row

\* The mappings of a listing record all its rows.
LEMMA MappingsRecord ==
    ASSUME NEW file, RowsOf(file) \in Seq(Rows)
    PROVE  Records(MappingsOf(file), RowsOf(file), Len(RowsOf(file)))
<1> DEFINE rows == RowsOf(file)
           n == Len(rows)
           inserted == CHOOSE f : AreInserted(f, rows, n)
<1>1. AreInserted(inserted, rows, n)
  <2>1. \E f : AreInserted(f, rows, n)
    BY InsertedExist
  <2> QED
    BY <2>1
<1>2. MappingsOf(file) = inserted[n]
  BY DEF MappingsOf, AreInserted
<1>3. n \in Nat /\ rows \in Seq(Rows)
  OBVIOUS
<1> HIDE DEF inserted, rows
<1>4. \A k \in 0 .. n : inserted[k] = IF k = 0 THEN <<>> ELSE Insert(inserted[k - 1], rows[k])
  BY <1>1 DEF AreInserted
<1> DEFINE S == {k \in Nat : k <= n => Records(inserted[k], rows, k)}
<1>5. 0 \in S
  <2>1. inserted[0] = <<>>
    BY <1>3, <1>4
  <2>2. Records(<<>>, rows, 0)
    BY DEF Records
  <2> QED
    BY <2>1, <2>2
<1>6. ASSUME NEW k \in Nat, k \in S PROVE k + 1 \in S
  <2> SUFFICES ASSUME k + 1 <= n PROVE Records(inserted[k + 1], rows, k + 1)
    BY DEF S
  <2>1. k + 1 \in 0 .. n /\ k + 1 # 0 /\ (k + 1) - 1 = k /\ k <= n
    BY <1>3
  <2>2. Records(inserted[k], rows, k) /\ inserted[k + 1] = Insert(inserted[k], rows[k + 1])
    BY <1>4, <1>6, <2>1 DEF S
  <2> QED
    BY <1>3, <2>2, InsertRecords
<1> HIDE DEF S
<1>7. Nat \subseteq S
  BY <1>5, <1>6, Inductive
<1> QED
  BY <1>2, <1>3, <1>7 DEF S, rows

-----------------------------------------------------------------------------
(* Which lines a generated text has *)

\* Where the sections of a text end: the lines of each are the mappings of its listing.
AreSections(pos, files, text) ==
    /\ pos \in [0 .. Len(AllRegistries) -> Nat]
    /\ \A i, k \in 0 .. Len(AllRegistries) : i <= k => pos[i] <= pos[k]
    /\ \A k \in 1 .. Len(AllRegistries) : \A j \in 1 .. Len(MappingsOf(files[k])) :
          /\ pos[k - 1] + j \in MappingLines(text)
          /\ text[pos[k - 1] + j] = MappingsOf(files[k])[j]
          /\ pos[k - 1] + j <= pos[k]
    /\ \A i \in MappingLines(text) :
          \E k \in 1 .. Len(AllRegistries) : \E j \in 1 .. Len(MappingsOf(files[k])) :
              i = pos[k - 1] + j

\* A text that was generated from all listings and that the parser accepts has the
\* mappings of each, section by section, and no others.
LEMMA ConvertedSections ==
    ASSUME NEW files, \A i \in DOMAIN AllRegistries : RowsOf(files[i]) \in Seq(Rows),
           Parses(Converted(files))
    PROVE  \E pos : AreSections(pos, files, Converted(files))
<1> DEFINE N == Len(AllRegistries)
           seqs == [i \in DOMAIN AllRegistries |-> Section(AllRegistries[i], files[i])]
           text == Converted(files)
           m(k) == MappingsOf(files[k])
           n(k) == Len(m(k))
<1>1. N \in Nat \ {0} /\ DOMAIN AllRegistries = 1 .. N /\ \A i \in 1 .. N : AllRegistries[i] \in Registry
  BY RegistryAssumption
<1>2. text = FlattenSeq(seqs)
  BY DEF Converted
<1>3. /\ seqs \in Seq(Seq(Line)) /\ Len(seqs) = N
      /\ \A i \in 1 .. N : seqs[i] = Section(AllRegistries[i], files[i])
  <2>1. seqs = [i \in 1 .. N |-> Section(AllRegistries[i], files[i])]
    BY <1>1
  <2>2. \A i \in 1 .. N : Section(AllRegistries[i], files[i]) \in Seq(Line)
    BY <1>1, SectionFacts
  <2> HIDE DEF seqs
  <2> QED
    BY <1>1, <2>1, <2>2
<1>4. \A k \in 1 .. N : m(k) \in Seq(Entry)
  BY <1>1, MappingsTyped
<1> HIDE DEF seqs, text, m
<1>5. seqs # <<>>
  BY <1>1, <1>3
<1>6. text \in Seq(Line) /\ \E pos : ArePlaces(pos, seqs, text)
  BY <1>2, <1>3, <1>5, FlattenFacts
<1>7. Len(text) \in Nat /\ DOMAIN text = 1 .. Len(text) /\ Parses(text)
  BY <1>6 DEF text
<1>8. PICK pos : ArePlaces(pos, seqs, text)
  BY <1>6
<1>9. /\ pos \in [0 .. N -> Nat] /\ \A k \in 0 .. N : pos[k] \in Nat
      /\ pos[N] = Len(text)
      /\ \A k \in 1 .. N : pos[k] = pos[k - 1] + Len(seqs[k])
      /\ \A k \in 1 .. N : \A j \in 1 .. Len(seqs[k]) : text[pos[k - 1] + j] = seqs[k][j]
  BY <1>3, <1>8 DEF ArePlaces
<1>10. \A i, k \in 0 .. N : i <= k => pos[i] <= pos[k]
  BY <1>3, <1>8, PlacesGrow
<1>11. ASSUME NEW k \in 1 .. N
       PROVE  /\ n(k) \in Nat /\ Len(seqs[k]) = n(k) + 1
              /\ pos[k - 1] \in Nat /\ pos[k] = pos[k - 1] + n(k) + 1 /\ pos[k] <= Len(text)
              /\ \A j \in 1 .. n(k) : seqs[k][j] = m(k)[j]
              /\ seqs[k][n(k) + 1].line = "end"
  <2>1. seqs[k] = Section(AllRegistries[k], files[k]) /\ seqs[k] \in Seq(Line) /\ Len(seqs[k]) \in Nat
    BY <1>3
  <2>2. k \in 0 .. N /\ k - 1 \in 0 .. N /\ N \in 0 .. N /\ k <= N
    BY <1>1
  <2>3. pos[k] <= Len(text) /\ pos[k - 1] \in Nat /\ pos[k] = pos[k - 1] + Len(seqs[k])
    BY <1>9, <1>10, <2>2
  <2>4. Parses(seqs[k])
    <3> SUFFICES ASSUME NEW j \in 1 .. Len(seqs[k]) PROVE LineAccepted(seqs[k][j])
      BY <2>1 DEF Parses
    <3>1. pos[k - 1] + j \in 1 .. Len(text)
      BY <1>7, <2>1, <2>3
    <3>2. text[pos[k - 1] + j] = seqs[k][j]
      BY <1>9
    <3> QED
      BY <1>7, <3>1, <3>2 DEF Parses
  <2>5. /\ n(k) \in Nat /\ Len(seqs[k]) = n(k) + 1
        /\ \A j \in 1 .. n(k) : seqs[k][j] = m(k)[j]
        /\ seqs[k][n(k) + 1] = EndOfSection(AllRegistries[k], n(k))
    BY <1>1, <2>1, <2>4, SectionFacts DEF m
  <2>6. seqs[k][n(k) + 1].line = "end"
    BY <2>5 DEF EndOfSection
  <2>7. pos[k] = pos[k - 1] + n(k) + 1
    <3>1. n(k) \in Nat /\ Len(seqs[k]) = n(k) + 1
      BY <2>5
    <3> HIDE DEF n
    <3> QED
      BY <2>3, <3>1
  <2> QED
    BY <2>3, <2>5, <2>6, <2>7
<1>12. ASSUME NEW k \in 1 .. N, NEW j \in 1 .. n(k)
       PROVE  /\ pos[k - 1] + j \in MappingLines(text) /\ text[pos[k - 1] + j] = m(k)[j]
              /\ pos[k - 1] + j <= pos[k]
  <2>1. j \in 1 .. Len(seqs[k]) /\ pos[k - 1] + j \in 1 .. Len(text) /\ pos[k - 1] + j <= pos[k]
    <3>1. /\ n(k) \in Nat /\ Len(seqs[k]) = n(k) + 1
          /\ pos[k - 1] \in Nat /\ pos[k] = pos[k - 1] + n(k) + 1 /\ pos[k] <= Len(text)
      BY <1>11
    <3> HIDE DEF n
    <3> QED
      BY <1>7, <3>1
  <2>2. text[pos[k - 1] + j] = m(k)[j]
    BY <1>9, <1>11, <2>1
  <2>3. m(k)[j].line = "mapping"
    <3>1. m(k)[j] \in Entry
      BY <1>4
    <3> QED
      BY <3>1 DEF Entry, Mapping
  <2> QED
    BY <1>7, <2>1, <2>2, <2>3 DEF MappingLines
<1>13. ASSUME NEW i \in MappingLines(text)
       PROVE  \E k \in 1 .. N : \E j \in 1 .. n(k) : i = pos[k - 1] + j
  <2>1. i \in DOMAIN text /\ text[i].line = "mapping"
    BY DEF MappingLines
  <2>2. PICK k \in 1 .. N : \E j \in 1 .. Len(seqs[k]) : i = pos[k - 1] + j /\ text[i] = seqs[k][j]
    <3>1. \E k \in 1 .. Len(seqs) : \E j \in 1 .. Len(seqs[k]) :
             i = pos[k - 1] + j /\ text[i] = seqs[k][j]
      <4>1. seqs \in Seq(Seq(Line)) /\ text \in Seq(Line)
        BY <1>3, <1>6
      <4> QED
        BY <1>8, <2>1, <4>1, PlaceInBlock
    <3> HIDE DEF N
    <3> QED
      BY <1>3, <3>1
  <2>3. PICK j \in 1 .. Len(seqs[k]) : i = pos[k - 1] + j /\ text[i] = seqs[k][j]
    BY <2>2
  <2>4. j # n(k) + 1
    BY <1>11, <2>1, <2>3
  <2>5. j \in 1 .. n(k)
    <3>1. n(k) \in Nat /\ Len(seqs[k]) = n(k) + 1
      BY <1>11
    <3> HIDE DEF n
    <3> QED
      BY <2>4, <3>1
  <2> QED
    BY <2>3, <2>5
<1>14. AreSections(pos, files, text)
  BY <1>9, <1>10, <1>12, <1>13 DEF AreSections, m
<1> QED
  BY <1>14 DEF text

\* Places in joined sequences: of two elements the later is not in an earlier one.
LEMMA BlocksInOrder ==
    ASSUME NEW n \in Nat, NEW pos, \A k \in 0 .. n : pos[k] \in Nat,
           \A i, k \in 0 .. n : i <= k => pos[i] <= pos[k],
           NEW c \in 1 .. n, NEW k \in 1 .. n, NEW h \in Nat \ {0}, NEW j \in Nat \ {0},
           pos[k - 1] + j <= pos[k], pos[c - 1] + h <= pos[k - 1] + j
    PROVE  c <= k
<1> SUFFICES ASSUME k <= c - 1 PROVE FALSE
  OBVIOUS
<1>1. k \in 0 .. n /\ k - 1 \in 0 .. n /\ c - 1 \in 0 .. n
  OBVIOUS
<1>2. pos[k] <= pos[c - 1] /\ pos[k] \in Nat /\ pos[k - 1] \in Nat /\ pos[c - 1] \in Nat
  BY <1>1
<1> QED
  BY <1>2

\* A place that is not behind the end of its sequence.
LEMMA NextPlace ==
    \A start, end, n, j \in Nat : end = start + n /\ j <= n => start + j <= end
  OBVIOUS

\* Places in one sequence.
LEMMA SamePlace == \A start, i, j \in Nat : start + i <= start + j => i <= j
  OBVIOUS

\* The text of a generated registry has the prefixes of all rows, and the last line with
\* a prefix has the vendor of the last row with it.
Reflects(text, rows) ==
    /\ \A i \in 1 .. Len(rows) : \E l \in MappingLines(text) : text[l].prefix = PrefixOf(rows[i])
    /\ \A l \in MappingLines(text) : \E i \in 1 .. Len(rows) : text[l].prefix = PrefixOf(rows[i])
    /\ \A l \in MappingLines(text), i \in 1 .. Len(rows) :
          /\ text[l].prefix = PrefixOf(rows[i])
          /\ \A k \in MappingLines(text) : text[k].prefix = text[l].prefix => k <= l
          /\ IsLastRow(rows, Len(rows), i)
          => text[l].vendor = rows[i].vendor

\* A row is one of the rows of a listing.
IsRowOf(at, listings, rows, i) ==
    \E k \in 1 .. Len(listings) : \E j \in 1 .. Len(listings[k]) :
        i = at[k - 1] + j /\ rows[i] = listings[k][j]

\* Every element of joined sequences is in one of them.
LEMMA PlacesCover ==
    \A T : \A seqs \in Seq(Seq(T)), all \in Seq(T) : \A pos :
        ArePlaces(pos, seqs, all) => \A i \in DOMAIN all : IsRowOf(pos, seqs, all, i)
  BY PlaceInBlock DEF IsRowOf

\* A text that was generated from whole listings reflects their rows.
LEMMA ConvertedReflects ==
    ASSUME NEW files, NEW listings \in Seq(Seq(Rows)), Len(listings) = Len(AllRegistries),
           \A k \in 1 .. Len(AllRegistries) : RowsOf(files[k]) = listings[k],
           Parses(Converted(files))
    PROVE  /\ FlattenSeq(listings) \in Seq(Rows)
           /\ Reflects(Converted(files), FlattenSeq(listings))
<1> DEFINE N == Len(AllRegistries)
           text == Converted(files)
           rows == FlattenSeq(listings)
           m(k) == MappingsOf(files[k])
           Lines == MappingLines(text)
<1>1. N \in Nat \ {0} /\ DOMAIN AllRegistries = 1 .. N
  BY RegistryAssumption
<1>2. ASSUME NEW k \in 1 .. N PROVE listings[k] \in Seq(Rows) /\ Records(m(k), listings[k], Len(listings[k]))
  <2>1. listings[k] \in Seq(Rows) /\ RowsOf(files[k]) = listings[k]
    OBVIOUS
  <2> QED
    BY <2>1, MappingsRecord
<1>3. PICK pos : AreSections(pos, files, text)
  BY <1>1, <1>2, ConvertedSections
<1>4. listings # <<>>
  BY <1>1
<1>5. rows \in Seq(Rows) /\ \E at : ArePlaces(at, listings, rows)
  BY <1>4, FlattenFacts
<1>6. PICK at : ArePlaces(at, listings, rows)
  BY <1>5
<1> HIDE DEF rows, text, m
<1>7. Len(rows) \in Nat /\ DOMAIN rows = 1 .. Len(rows)
  BY <1>5
<1>8. /\ \A k \in 0 .. N : at[k] \in Nat
      /\ at[N] = Len(rows)
      /\ \A k \in 1 .. N : at[k] = at[k - 1] + Len(listings[k])
      /\ \A k \in 1 .. N : \A j \in 1 .. Len(listings[k]) : rows[at[k - 1] + j] = listings[k][j]
      /\ \A i, k \in 0 .. N : i <= k => at[i] <= at[k]
  BY <1>6, PlacesGrow DEF ArePlaces
<1>9. /\ \A k \in 0 .. N : pos[k] \in Nat
      /\ \A i, k \in 0 .. N : i <= k => pos[i] <= pos[k]
      /\ \A k \in 1 .. N : \A j \in 1 .. Len(m(k)) :
            /\ pos[k - 1] + j \in Lines /\ text[pos[k - 1] + j] = m(k)[j]
            /\ pos[k - 1] + j <= pos[k]
      /\ \A l \in Lines : \E k \in 1 .. N : \E j \in 1 .. Len(m(k)) : l = pos[k - 1] + j
  BY <1>3 DEF AreSections, m
<1>10. \A i \in 1 .. Len(rows) : \E k \in 1 .. N : \E j \in 1 .. Len(listings[k]) :
          i = at[k - 1] + j /\ rows[i] = listings[k][j]
  <2>1. \A i \in 1 .. Len(rows) : IsRowOf(at, listings, rows, i)
    BY <1>5, <1>6, <1>7, PlacesCover
  <2> QED
    BY <2>1 DEF IsRowOf
<1>11. ASSUME NEW k \in 1 .. N, NEW j \in 1 .. Len(listings[k])
       PROVE  at[k - 1] + j \in 1 .. Len(rows) /\ rows[at[k - 1] + j] = listings[k][j]
  <2>1. k \in 0 .. N /\ k - 1 \in 0 .. N /\ N \in 0 .. N /\ k <= N
    BY <1>1
  <2>2. at[k] <= Len(rows) /\ at[k - 1] \in Nat /\ at[k] = at[k - 1] + Len(listings[k])
    BY <1>8, <2>1
  <2>3. Len(listings[k]) \in Nat
    BY <1>2
  <2>4. at[k - 1] + j \in 1 .. Len(rows)
    BY <1>7, <2>2, <2>3
  <2> QED
    BY <1>8, <2>4
\* Every row is in a line of its own section.
<1>12. ASSUME NEW k \in 1 .. N, NEW j \in 1 .. Len(listings[k])
       PROVE  \E i \in 1 .. Len(m(k)) : text[pos[k - 1] + i].prefix = PrefixOf(listings[k][j])
  <2>1. PICK i \in 1 .. Len(m(k)) : m(k)[i].prefix = PrefixOf(listings[k][j])
    BY <1>2 DEF Records
  <2> QED
    BY <1>9, <2>1
\* Every line has a row of its own section.
<1>13. ASSUME NEW k \in 1 .. N, NEW j \in 1 .. Len(m(k))
       PROVE  \E i \in 1 .. Len(listings[k]) :
                 /\ text[pos[k - 1] + j] = EntryOf(listings[k][i])
                 /\ IsLastRow(listings[k], Len(listings[k]), i)
  BY <1>2, <1>9 DEF Records
<1>14. \A row : EntryOf(row).prefix = PrefixOf(row) /\ EntryOf(row).vendor = row.vendor
  BY DEF EntryOf, Mapping
<1>15. ASSUME NEW i \in 1 .. Len(rows) PROVE \E l \in Lines : text[l].prefix = PrefixOf(rows[i])
  <2>1. PICK k \in 1 .. N : \E j \in 1 .. Len(listings[k]) : i = at[k - 1] + j /\ rows[i] = listings[k][j]
    BY <1>10
  <2>2. PICK j \in 1 .. Len(listings[k]) : i = at[k - 1] + j /\ rows[i] = listings[k][j]
    BY <2>1
  <2>3. PICK h \in 1 .. Len(m(k)) : text[pos[k - 1] + h].prefix = PrefixOf(listings[k][j])
    BY <1>12
  <2> QED
    BY <1>9, <2>2, <2>3
<1>16. ASSUME NEW l \in Lines PROVE \E i \in 1 .. Len(rows) : text[l].prefix = PrefixOf(rows[i])
  <2>1. PICK k \in 1 .. N : \E j \in 1 .. Len(m(k)) : l = pos[k - 1] + j
    BY <1>9
  <2>2. PICK j \in 1 .. Len(m(k)) : l = pos[k - 1] + j
    BY <2>1
  <2>3. PICK h \in 1 .. Len(listings[k]) : text[pos[k - 1] + j] = EntryOf(listings[k][h])
    BY <1>13
  <2> QED
    BY <1>11, <1>14, <2>2, <2>3
<1>17. ASSUME NEW l \in Lines, NEW i \in 1 .. Len(rows), text[l].prefix = PrefixOf(rows[i]),
              \A k \in Lines : text[k].prefix = text[l].prefix => k <= l,
              IsLastRow(rows, Len(rows), i)
       PROVE  text[l].vendor = rows[i].vendor
  <2>1. PICK k \in 1 .. N : \E j \in 1 .. Len(m(k)) : l = pos[k - 1] + j
    BY <1>9
  <2>2. PICK j \in 1 .. Len(m(k)) : l = pos[k - 1] + j
    BY <2>1
  <2>3. PICK c \in 1 .. N : \E b \in 1 .. Len(listings[c]) : i = at[c - 1] + b /\ rows[i] = listings[c][b]
    BY <1>10
  <2>4. PICK b \in 1 .. Len(listings[c]) : i = at[c - 1] + b /\ rows[i] = listings[c][b]
    BY <2>3
  <2>5. PICK a \in 1 .. Len(listings[k]) :
           text[l] = EntryOf(listings[k][a]) /\ IsLastRow(listings[k], Len(listings[k]), a)
    BY <1>13, <2>2
  <2>6. PICK h \in 1 .. Len(m(c)) : text[pos[c - 1] + h].prefix = PrefixOf(rows[i])
    BY <1>12, <2>4
  <2>7. at[k - 1] + a <= i
    <3>1. at[k - 1] + a \in 1 .. Len(rows) /\ PrefixOf(rows[at[k - 1] + a]) = PrefixOf(rows[i])
      BY <1>11, <1>14, <1>17, <2>5
    <3> QED
      BY <1>17, <3>1 DEF IsLastRow
  <2>8. pos[c - 1] + h <= l
    BY <1>9, <1>17, <2>6
  <2>9. /\ k \in 0 .. N /\ k - 1 \in 0 .. N /\ c \in 0 .. N /\ c - 1 \in 0 .. N
    BY SMTT(60), <1>1
  <2>10. /\ at[k - 1] \in Nat /\ at[c - 1] \in Nat /\ at[c - 1] + b <= at[c]
         /\ a \in Nat \ {0} /\ b \in Nat \ {0}
    <3>1. /\ at[k - 1] \in Nat /\ at[c - 1] \in Nat /\ at[c] = at[c - 1] + Len(listings[c])
      BY <1>8, <2>9
    <3>2. Len(listings[c]) \in Nat /\ Len(listings[k]) \in Nat
      BY SMTT(60), <1>2
    <3>3. a \in Nat \ {0} /\ b \in Nat \ {0} /\ b <= Len(listings[c])
      BY SMTT(60), <3>2
    <3> QED
      BY SMTT(60), <3>1, <3>2, <3>3, NextPlace
  <2>11. k <= c
    <3>1. at[k - 1] + a <= at[c - 1] + b
      BY <2>4, <2>7
    <3> QED
      BY <1>1, <1>8, <2>10, <3>1, BlocksInOrder
  <2>12. c <= k
    <3>1. pos[c - 1] + h <= pos[k - 1] + j
      BY <2>2, <2>8
    <3>2. pos[k - 1] + j <= pos[k]
      BY <1>9
    <3>3. j \in Nat \ {0} /\ h \in Nat \ {0}
      <4>1. m(k) \in Seq(Entry) /\ m(c) \in Seq(Entry)
        BY <1>2 DEF Records
      <4> QED
        BY SMTT(60), <4>1
    <3> QED
      BY <1>1, <1>9, <3>1, <3>2, <3>3, BlocksInOrder
  <2>13. k = c
    BY <2>9, <2>11, <2>12
  <2>14. a <= b
    <3>1. at[k - 1] + a <= at[k - 1] + b
      BY <2>4, <2>7, <2>13
    <3> QED
      BY <2>10, <3>1, SamePlace
  <2>15. b <= a
    <3>1. PrefixOf(listings[k][b]) = PrefixOf(listings[k][a])
      BY <1>14, <1>17, <2>4, <2>5, <2>13
    <3> QED
      BY <2>4, <2>5, <2>13, <3>1 DEF IsLastRow
  <2>16. a = b
    BY <2>10, <2>14, <2>15
  <2> QED
    BY <1>14, <2>4, <2>5, <2>13, <2>16
<1>18. Reflects(text, rows)
  BY <1>15, <1>16, <1>17 DEF Reflects
<1> QED
  BY <1>5, <1>18 DEF text, rows

-----------------------------------------------------------------------------
(* What is looked up in a generated text *)

\* A nonempty set of numbers up to a bound has a largest.
LEMMA LargestIn ==
    ASSUME NEW n \in Nat, NEW S, S \subseteq 0 .. n, S # {}
    PROVE  Max(S) \in S /\ \A x \in S : x <= Max(S)
<1> DEFINE bounds == {b \in Nat : \A x \in S : x <= b}
<1>1. bounds \subseteq Nat /\ n \in bounds
  OBVIOUS
<1>2. PICK b \in bounds : \A c \in bounds : b <= c
  <2> HIDE DEF bounds
  <2> QED
    BY <1>1, LeastElement
<1>3. b \in S
  <2> SUFFICES ASSUME b \notin S PROVE FALSE
    OBVIOUS
  <2>1. \A x \in S : x <= b - 1 /\ x \in Nat
    <3> TAKE x \in S
    <3>1. x <= b /\ x # b /\ x \in Nat /\ b \in Nat
      OBVIOUS
    <3> QED
      BY <3>1
  <2>2. b - 1 \in Nat
    <3>1. PICK x \in S : TRUE
      OBVIOUS
    <3> QED
      BY <2>1, <3>1
  <2>3. b - 1 \in bounds
    BY <2>1, <2>2
  <2> QED
    BY <1>2, <2>2, <2>3
<1>4. \A x \in S : b >= x
  OBVIOUS
<1> QED
  BY <1>3, <1>4 DEF Max

\* The first n characters of an address.
LEMMA AddressStart ==
    ASSUME NEW address \in [1 .. AddressDigits -> Hex], NEW n \in 0 .. AddressDigits
    PROVE  /\ address \in Seq(Hex) /\ Len(address) = AddressDigits
           /\ SubSeq(address, 1, n) \in Seq(Hex) /\ Len(SubSeq(address, 1, n)) = n
<1>1. AddressDigits \in Nat
  BY RegistryAssumption
<1>2. address \in Seq(Hex) /\ Len(address) = AddressDigits
  BY <1>1
<1>3. \A i \in 1 .. n : address[i] \in Hex
  BY <1>1
<1>4. /\ SubSeq(address, 1, n) \in Seq(Hex)
      /\ Len(SubSeq(address, 1, n)) = IF 1 <= n THEN n - 1 + 1 ELSE 0
  BY <1>1, <1>3, SubSeqProperties
<1> QED
  BY <1>1, <1>2, <1>4

\* An assignment begins an address.
LEMMA BeginsAddress ==
    ASSUME NEW address \in [1 .. AddressDigits -> Hex], NEW prefix \in Seq(Hex),
           Len(prefix) \in 0 .. AddressDigits
    PROVE  IsPrefix(prefix, address) <=> SubSeq(address, 1, Len(prefix)) = prefix
<1>1. Len(address) = AddressDigits
  BY RegistryAssumption, AddressStart
<1>2. SubSeq(prefix, 1, Len(prefix)) = prefix
  OBVIOUS
<1>3. Len(prefix) <= Len(address)
  BY <1>1
<1> QED
  BY <1>2, <1>3 DEF IsPrefix

\* Assignments the updater accepts, which are prefixes the parser takes as they are.
Acceptable(rows) ==
    \A i \in 1 .. Len(rows) :
        /\ PrefixOf(rows[i]) \in Seq(Hex)
        /\ Len(PrefixOf(rows[i])) \in MinPrefixDigits .. AddressDigits
        /\ Normalized(PrefixOf(rows[i])) = PrefixOf(rows[i])

\* What the parser makes of a generated text: the vendor of a prefix is that of the
\* last row with it.
LEMMA ParsedReflects ==
    ASSUME NEW text \in Seq(Line), NEW rows \in Seq(Rows), Reflects(text, rows), Acceptable(rows)
    PROVE  /\ DOMAIN Parsed(text) = {PrefixOf(rows[i]) : i \in 1 .. Len(rows)}
           /\ \A i \in 1 .. Len(rows) :
                 IsLastRow(rows, Len(rows), i) => Parsed(text)[PrefixOf(rows[i])] = rows[i].vendor
<1> DEFINE L == MappingLines(text)
           P(i) == PrefixOf(rows[i])
           with(p) == {l \in L : Normalized(text[l].prefix) = p}
           D == {Normalized(text[l].prefix) : l \in L}
<1>1. Parsed(text) = [p \in D |-> text[Max(with(p))].vendor]
  BY DEF Parsed
<1>2. L \subseteq 0 .. Len(text) /\ Len(text) \in Nat
  BY DEF MappingLines
<1> HIDE DEF L
<1>3. /\ \A i \in 1 .. Len(rows) : \E l \in L : text[l].prefix = P(i)
      /\ \A l \in L : \E i \in 1 .. Len(rows) : text[l].prefix = P(i)
      /\ \A l \in L, i \in 1 .. Len(rows) :
            /\ text[l].prefix = P(i)
            /\ \A k \in L : text[k].prefix = text[l].prefix => k <= l
            /\ IsLastRow(rows, Len(rows), i)
            => text[l].vendor = rows[i].vendor
  BY DEF Reflects, L
<1>4. \A i \in 1 .. Len(rows) : Normalized(P(i)) = P(i)
  BY DEF Acceptable
<1> HIDE DEF P
<1>5. \A l \in L : Normalized(text[l].prefix) = text[l].prefix
  BY <1>3, <1>4
<1>6. D = {P(i) : i \in 1 .. Len(rows)}
  BY SMTT(60), <1>3, <1>5
<1>7. ASSUME NEW i \in 1 .. Len(rows), IsLastRow(rows, Len(rows), i)
      PROVE  Parsed(text)[P(i)] = rows[i].vendor
  <2> DEFINE l == Max(with(P(i)))
  <2>1. P(i) \in D
    BY <1>6
  <2>2. Parsed(text)[P(i)] = text[l].vendor
    BY <1>1, <2>1
  <2>3. with(P(i)) # {} /\ with(P(i)) \subseteq 0 .. Len(text)
    BY <1>2, <2>1
  <2>4. l \in with(P(i)) /\ \A k \in with(P(i)) : k <= l
    <3> HIDE DEF with
    <3> QED
      BY <1>2, <2>3, LargestIn
  <2> HIDE DEF l
  <2>5. l \in L /\ text[l].prefix = P(i)
    BY <1>5, <2>4
  <2>6. \A k \in L : text[k].prefix = text[l].prefix => k <= l
    BY <1>5, <2>4, <2>5
  <2> QED
    BY <1>3, <1>7, <2>2, <2>5, <2>6
<1> QED
  BY <1>1, <1>6, <1>7 DEF P

\* A text that reflects the rows of listings gives every address the vendor they do.
LEMMA NamesReflected ==
    ASSUME NEW text \in Seq(Line), NEW listings, FlattenSeq(listings) \in Seq(Rows),
           Reflects(text, FlattenSeq(listings)), Acceptable(FlattenSeq(listings))
    PROVE  NamesAsListed(text, listings)
<1> DEFINE rows == FlattenSeq(listings)
           P(i) == PrefixOf(rows[i])
           names == Parsed(text)
<1>1. rows \in Seq(Rows) /\ Len(rows) \in Nat /\ DOMAIN rows = 1 .. Len(rows)
  OBVIOUS
<1>2. /\ DOMAIN names = {P(i) : i \in 1 .. Len(rows)}
      /\ \A i \in 1 .. Len(rows) : IsLastRow(rows, Len(rows), i) => names[P(i)] = rows[i].vendor
  BY ParsedReflects
<1>3. \A i \in 1 .. Len(rows) : P(i) \in Seq(Hex) /\ Len(P(i)) \in MinPrefixDigits .. AddressDigits
  BY DEF Acceptable
<1>4. MinPrefixDigits \in Nat /\ AddressDigits \in Nat
  BY RegistryAssumption
<1> SUFFICES ASSUME NEW address \in [1 .. AddressDigits -> Hex]
             PROVE  VendorNameFor(names, address) = VendorListed(listings, address)
  BY DEF NamesAsListed
<1> DEFINE start(n) == SubSeq(address, 1, n)
           lengths == {n \in MinPrefixDigits .. AddressDigits : start(n) \in DOMAIN names}
           owners == {i \in DOMAIN rows : IsPrefix(P(i), address)}
           closest == {i \in owners : \A j \in owners : Len(P(j)) <= Len(P(i))}
<1>5. VendorNameFor(names, address) = IF lengths = {} THEN None ELSE names[start(Max(lengths))]
  BY DEF VendorNameFor
<1>6. VendorListed(listings, address) = IF owners = {} THEN None ELSE rows[Max(closest)].vendor
  BY DEF VendorListed, PrefixOf
<1>7. lengths \subseteq 0 .. AddressDigits
  BY <1>4
<1> HIDE DEF rows, P, names
<1>8. \A i \in 1 .. Len(rows) : i \in owners <=> start(Len(P(i))) = P(i)
  <2> TAKE i \in 1 .. Len(rows)
  <2>1. P(i) \in Seq(Hex) /\ Len(P(i)) \in 0 .. AddressDigits
    BY <1>3, <1>4
  <2>2. IsPrefix(P(i), address) <=> start(Len(P(i))) = P(i)
    BY <2>1, BeginsAddress
  <2> QED
    BY <1>1, <2>2
<1>9. \A n \in 0 .. AddressDigits : Len(start(n)) = n
  BY AddressStart
<1> HIDE DEF start
\* An owner's length is one of the lengths that are looked up, and none is without owner.
<1>10. ASSUME NEW i \in owners PROVE i \in 1 .. Len(rows) /\ Len(P(i)) \in lengths
  <2>1. i \in 1 .. Len(rows)
    BY <1>1
  <2>2. start(Len(P(i))) = P(i) /\ P(i) \in DOMAIN names
    BY <1>2, <1>8, <2>1
  <2> QED
    BY <1>3, <2>1, <2>2
<1>11. ASSUME NEW n \in lengths PROVE \E i \in owners : P(i) = start(n) /\ Len(P(i)) = n
  <2>1. PICK i \in 1 .. Len(rows) : start(n) = P(i)
    BY <1>2
  <2>2. Len(P(i)) = n
    BY <1>7, <1>9, <2>1
  <2>3. i \in owners
    BY <1>8, <2>1, <2>2
  <2> QED
    BY <2>1, <2>2, <2>3
<1>12. owners \subseteq 0 .. Len(rows)
  BY <1>1
<1> HIDE DEF lengths, owners
<1>13. CASE owners = {}
  <2>1. lengths = {}
    BY <1>11, <1>13
  <2> QED
    BY <1>5, <1>6, <1>13, <2>1
<1>14. CASE owners # {}
  <2> DEFINE n == Max(lengths)
             i == Max(closest)
  <2>1. lengths # {}
    BY <1>10, <1>14
  <2>2. n \in lengths /\ \A k \in lengths : k <= n
    BY <1>4, <1>7, <2>1, LargestIn
  <2> HIDE DEF n
  <2>3. n \in Nat /\ \A j \in owners : Len(P(j)) \in Nat /\ Len(P(j)) <= n
    BY <1>7, <1>10, <2>2
  <2>4. \A j \in owners : j \in closest <=> Len(P(j)) = n
    <3>1. PICK h \in owners : Len(P(h)) = n
      BY <1>11, <2>2
    <3>2. \A j \in owners : Len(P(j)) = n => j \in closest
      BY <2>3
    <3>3. \A j \in owners : j \in closest => n <= Len(P(j))
      BY <3>1
    <3> QED
      BY <2>3, <3>2, <3>3
  <2>5. closest # {} /\ closest \subseteq 0 .. Len(rows) /\ closest \subseteq owners
    <3>1. PICK h \in owners : Len(P(h)) = n
      BY <1>11, <2>2
    <3>2. h \in closest
      BY <2>4, <3>1
    <3> QED
      BY <1>12, <3>2
  <2> HIDE DEF closest
  <2>6. i \in closest /\ \A k \in closest : k <= i
    BY <1>1, <2>5, LargestIn
  <2> HIDE DEF i
  <2>7. i \in owners /\ i \in 1 .. Len(rows) /\ Len(P(i)) = n
    BY <1>10, <2>4, <2>5, <2>6
  <2>8. start(n) = P(i)
    BY <1>8, <2>7
  <2>9. IsLastRow(rows, Len(rows), i)
    <3> SUFFICES ASSUME NEW k \in 1 .. Len(rows), P(k) = P(i) PROVE k <= i
      BY DEF IsLastRow, P
    <3>1. k \in owners
      BY <1>8, <2>7, <2>8
    <3> QED
      BY <2>4, <2>6, <2>7, <3>1
  <2> QED
    BY <1>2, <1>5, <1>6, <1>14, <2>1, <2>7, <2>8, <2>9 DEF n, i
<1> QED
  BY <1>13, <1>14


\* A text that was generated from the listings as they were served gives every address
\* the vendor they do.
LEMMA NamesFollow ==
    ASSUME NEW files, NEW listings \in Seq(Seq(Rows)), Len(listings) = Len(AllRegistries),
           \A k \in 1 .. Len(AllRegistries) : files[k] = Cells(listings[k]),
           Convertible(files), Parses(Converted(files))
    PROVE  NamesAsListed(Converted(files), listings)
<1> DEFINE N == Len(AllRegistries)
           rows == FlattenSeq(listings)
           text == Converted(files)
<1>1. N \in Nat \ {0} /\ DOMAIN AllRegistries = 1 .. N /\ \A k \in 1 .. N : AllRegistries[k] \in Registry
  BY RegistryAssumption
<1>2. ASSUME NEW k \in 1 .. N PROVE listings[k] \in Seq(Rows) /\ RowsOf(files[k]) = listings[k]
  <2>1. listings[k] \in Seq(Rows)
    OBVIOUS
  <2> QED
    BY <2>1, RowsOfCells
<1>3. rows \in Seq(Rows) /\ Reflects(text, rows)
  BY <1>2, ConvertedReflects
<1>4. text \in Seq(Line)
  BY <1>1, <1>2, ConvertedWhole
<1>5. listings # <<>>
  BY <1>1
<1>6. PICK at : ArePlaces(at, listings, rows)
  BY <1>5, FlattenFacts
<1> HIDE DEF rows, text
<1>7. ASSUME NEW i \in 1 .. Len(rows)
      PROVE  /\ PrefixOf(rows[i]) \in Seq(Hex)
             /\ Len(PrefixOf(rows[i])) \in MinPrefixDigits .. AddressDigits
             /\ Normalized(PrefixOf(rows[i])) = PrefixOf(rows[i])
  <2>1. IsRowOf(at, listings, rows, i)
    <3>1. i \in DOMAIN rows
      BY <1>3
    <3> QED
      BY <1>3, <1>6, <3>1, PlacesCover
  <2>2. PICK k \in 1 .. N : \E j \in 1 .. Len(listings[k]) : rows[i] = listings[k][j]
    BY <2>1 DEF IsRowOf
  <2>3. PICK j \in 1 .. Len(listings[k]) : rows[i] = listings[k][j]
    BY <2>2
  <2>4. ListingAccepted(AllRegistries[k], files[k])
    BY <1>1 DEF Convertible
  <2>5. j \in DOMAIN RowsOf(files[k]) /\ RowsOf(files[k])[j] = rows[i]
    BY <1>2, <2>3
  <2>6. RowAccepted(AllRegistries[k], rows[i])
    BY <2>4, <2>5 DEF ListingAccepted
  <2>7. rows[i] \in Rows
    BY <1>3
  <2> QED
    BY <1>1, <2>6, <2>7, AcceptedPrefix DEF PrefixOf
<1>8. Acceptable(rows)
  BY <1>7 DEF Acceptable
<1> QED
  BY <1>3, <1>4, <1>8, NamesReflected DEF rows, text
-----------------------------------------------------------------------------
(* The inodes *)

\* Updates that have not opened a temporary file yet.
Unopened == Collecting \cup {"convert", "open"}

\* In each state of the directory that may be on disk the registry is synced, and
\* no inode has two names.
DirectoriesProper ==
    \A d \in dirOnDisk :
        /\ d.dest # None => d.dest <= runs /\ synced[d.dest]
        /\ \A u \in Updater : d.temp[u] # None =>
            /\ d.temp[u] <= runs
            /\ d.temp[u] # d.dest
            /\ \A v \in Updater \ {u} : d.temp[v] # d.temp[u]

\* A temporary file that may be written is the registry in no such state.
TempsApart ==
    \A u \in Updater : dir.temp[u] # None => \A d \in dirOnDisk : d.dest # dir.temp[u]

\* The inode an update would create has no name yet, and is its own.
FreshApart ==
    \A u \in Updater : stage[u] \in Unopened =>
        /\ serial[u] \in 1 .. runs
        /\ \A d \in dirOnDisk : d.dest # serial[u]
        /\ \A v \in Updater : dir.temp[v] # serial[u]
        /\ \A v \in Updater \ {u} : stage[v] \in Unopened => serial[v] # serial[u]

\* An update that writes has its file, and one that renames has synced it.
TempsReady ==
    \A u \in Updater :
        /\ stage[u] \in {"write", "rename"} => dir.temp[u] # None
        /\ stage[u] = "rename" => synced[dir.temp[u]]

\* A scan has an inode open that was the registry's since power last failed.
ReadersApart ==
    \A r \in Reader : load[r].stage \in {"reading", "loaded", "refused"} =>
        \E d \in dirOnDisk : d.dest = load[r].inode /\ d.dest # None

\* What the inodes are, together.
UpdateInv ==
    /\ FilesTyped
    /\ DirectoriesProper
    /\ TempsApart
    /\ FreshApart
    /\ TempsReady
    /\ ReadersApart
-----------------------------------------------------------------------------
\* The file state is as declared, no inode has two names, and every inode an
\* update may write is apart from the registry's, at the start.
LEMMA UpdateInit == Init => UpdateInv
<1> SUFFICES ASSUME Init PROVE UpdateInv
    OBVIOUS
<1> USE DEF Init
<1>0. MaxRuns \in Nat /\ None \notin Nat
    BY UpdaterAssumption
<1>1. dirOnDisk = {dir} /\ dir.dest \in {0, None} /\ dir.temp = [u \in Updater |-> None]
    OBVIOUS
<1>2. FilesTyped
    BY <1>0, <1>1 DEF FilesTyped, Stage, Working, Collecting, Fetching, Ended, Inode, Directory, LoadStage
<1>3. DirectoriesProper /\ TempsApart
    BY <1>0, <1>1 DEF DirectoriesProper, TempsApart, Inode
<1>4. FreshApart /\ TempsReady
    BY DEF FreshApart, TempsReady, Unopened, Collecting, Fetching
<1>5. ReadersApart
    BY DEF ReadersApart
<1> QED
    BY <1>2, <1>3, <1>4, <1>5 DEF UpdateInv

\* A step of one update that touches neither files nor readers, begins no update
\* and opens nothing, keeps the invariant.
LEMMA QuietStep ==
    ASSUME UpdateInv, NEW u \in Updater, NEW next \in Stage, GoesTo(u, next),
           UNCHANGED <<registryFiles, load, runs>>,
           next \in Unopened => stage[u] \in Unopened,
           next \notin {"write", "rename"}
    PROVE  UpdateInv'
<1> USE DEF GoesTo, registryFiles
<1>0. FilesTyped
    BY DEF UpdateInv
<1>1. FilesTyped'
    BY <1>0 DEF FilesTyped, Inode
<1>2. DirectoriesProper' /\ TempsApart' /\ ReadersApart'
    BY DEF UpdateInv, DirectoriesProper, TempsApart, ReadersApart
<1>3. \A v \in Updater : stage'[v] = IF v = u THEN next ELSE stage[v]
    BY <1>0 DEF FilesTyped
<1>4. FreshApart'
    BY <1>3 DEF UpdateInv, FreshApart
<1>5. TempsReady'
    BY <1>3 DEF UpdateInv, TempsReady
<1> QED
    BY <1>1, <1>2, <1>4, <1>5 DEF UpdateInv

\* An update that begins gets an inode number no file has had.
LEMMA StartStep ==
    ASSUME UpdateInv, NEW u \in Updater, NEW first \in {"curl", "read"}, NEW task, NEW rivals,
           Starts(u, first, task, rivals)
    PROVE  UpdateInv'
<1> USE UpdaterAssumption DEF Starts, registryFiles, scans
<1>0. FilesTyped /\ runs \in Nat /\ runs' = runs + 1
    BY DEF UpdateInv, FilesTyped
<1>1. FilesTyped'
    BY <1>0 DEF FilesTyped, Inode, Stage, Working, Collecting, Fetching
<1>2. /\ \A d \in dirOnDisk : d.dest \in Inode \cup {None} /\ \A v \in Updater : d.temp[v] \in Inode \cup {None}
      /\ dir \in dirOnDisk
    BY <1>0 DEF FilesTyped, Directory
<1>3. DirectoriesProper'
    BY <1>0, <1>2 DEF UpdateInv, DirectoriesProper, Inode
<1>4. TempsApart' /\ ReadersApart'
    BY DEF UpdateInv, TempsApart, ReadersApart
<1>5. /\ \A v \in Updater : stage'[v] = IF v = u THEN first ELSE stage[v]
      /\ \A v \in Updater : serial'[v] = IF v = u THEN runs + 1 ELSE serial[v]
      /\ \A v \in Updater : serial[v] \in 0 .. runs
    BY <1>0 DEF FilesTyped
<1>6. \A d \in dirOnDisk : d.dest # runs + 1 /\ \A v \in Updater : d.temp[v] # runs + 1
    BY <1>0, <1>2 DEF UpdateInv, DirectoriesProper, Inode
<1>7. FreshApart'
  <2> SUFFICES ASSUME NEW w \in Updater, stage'[w] \in Unopened
               PROVE  /\ serial'[w] \in 1 .. runs'
                      /\ \A d \in dirOnDisk : d.dest # serial'[w]
                      /\ \A v \in Updater : dir.temp[v] # serial'[w]
                      /\ \A v \in Updater \ {w} : stage'[v] \in Unopened => serial'[v] # serial'[w]
    BY DEF FreshApart
  <2>1. CASE w = u
    BY <2>1, <1>0, <1>2, <1>5, <1>6
  <2>2. CASE w # u
    BY <2>2, <1>0, <1>2, <1>5 DEF UpdateInv, FreshApart
  <2> QED
    BY <2>1, <2>2
<1>8. TempsReady'
    BY <1>5 DEF UpdateInv, TempsReady
<1> QED
    BY <1>1, <1>3, <1>4, <1>7, <1>8 DEF UpdateInv

\* What opening the temporary file opens is not the registry, nor another's file.
LEMMA TempInodeApart ==
    ASSUME UpdateInv, NEW u \in Updater, stage[u] = "open"
    PROVE  /\ TempInode(u) \in Inode /\ TempInode(u) # None /\ TempInode(u) <= runs
           /\ \A d \in dirOnDisk : d.dest # TempInode(u)
           /\ \A v \in Updater \ {u} : dir.temp[v] # TempInode(u)
           /\ \A v \in Updater \ {u} : stage[v] \in Unopened => serial[v] # TempInode(u)
<1> USE UpdaterAssumption DEF TempInode, UpdateInv
<1>1. /\ runs \in 0 .. MaxRuns /\ dir \in dirOnDisk
      /\ \A v \in Updater : dir.temp[v] \in Inode \cup {None}
    BY DEF FilesTyped, Directory
<1>2. CASE dir.temp[u] = None
    BY <1>1, <1>2 DEF FreshApart, Unopened, Inode
<1>3. CASE dir.temp[u] # None
    BY <1>1, <1>3 DEF DirectoriesProper, TempsApart, FreshApart
<1> QED
    BY <1>2, <1>3

\* Opening the temporary file: the inode it yields is apart from all that can be read.
LEMMA OpenStep ==
    ASSUME UpdateInv, NEW u \in Updater, OpenTemp(u)
    PROVE  UpdateInv'
<1> DEFINE i == TempInode(u)
           new == [dir EXCEPT !.temp = [@ EXCEPT ![u] = i]]
<1> USE UpdaterAssumption DEF OpenTemp, Renamed, GoesTo, scans
<1>0. FilesTyped
    BY DEF UpdateInv
<1>1. /\ i \in Inode /\ i # None /\ i <= runs
      /\ \A d \in dirOnDisk : d.dest # i
      /\ \A v \in Updater \ {u} : dir.temp[v] # i
      /\ \A v \in Updater \ {u} : stage[v] \in Unopened => serial[v] # i
    BY TempInodeApart
<1>2. /\ dir \in dirOnDisk /\ dir \in Directory
      /\ new \in Directory /\ new.dest = dir.dest
      /\ \A v \in Updater : new.temp[v] = IF v = u THEN i ELSE dir.temp[v]
    BY SMTT(60), <1>0, <1>1 DEF FilesTyped, Directory
<1>3. /\ dir' = new /\ dirOnDisk' = dirOnDisk \cup {new} /\ UNCHANGED <<serial, load, runs>>
      /\ \A v \in Updater : stage'[v] = IF v = u THEN "write" ELSE stage[v]
      /\ \A j \in Inode : synced'[j] = IF j = i THEN FALSE ELSE synced[j]
    BY <1>0, <1>1 DEF FilesTyped
<1> HIDE DEF i, new
<1>4. FilesTyped'
    BY <1>0, <1>1, <1>2, <1>3 DEF FilesTyped, Stage, Working, i
<1>5. DirectoriesProper'
  <2>1. \A d \in dirOnDisk : d.dest # None => d.dest <= runs /\ synced'[d.dest]
    BY ZenonT(60), <1>0, <1>1, <1>3 DEF UpdateInv, DirectoriesProper, FilesTyped, Directory
  <2>2. \A v \in Updater : new.temp[v] # None =>
            /\ new.temp[v] <= runs
            /\ new.temp[v] # new.dest
            /\ \A w \in Updater \ {v} : new.temp[w] # new.temp[v]
    BY <1>1, <1>2 DEF UpdateInv, DirectoriesProper
  <2> QED
    BY <1>2, <1>3, <2>1, <2>2 DEF UpdateInv, DirectoriesProper
<1>6. TempsApart'
  <2> SUFFICES ASSUME NEW v \in Updater, new.temp[v] # None, NEW d \in dirOnDisk
               PROVE  d.dest # new.temp[v]
    BY <1>2, <1>3 DEF TempsApart
  <2> QED
    BY <1>1, <1>2 DEF UpdateInv, TempsApart
<1>7. FreshApart'
  <2> SUFFICES ASSUME NEW w \in Updater, stage'[w] \in Unopened
               PROVE  /\ serial'[w] \in 1 .. runs'
                      /\ \A d \in dirOnDisk' : d.dest # serial'[w]
                      /\ \A v \in Updater : dir'.temp[v] # serial'[w]
                      /\ \A v \in Updater \ {w} : stage'[v] \in Unopened => serial'[v] # serial'[w]
    BY DEF FreshApart
  <2>1. w # u /\ stage[w] \in Unopened
    BY <1>3 DEF Unopened, Collecting, Fetching
  <2>2. \A v \in Updater : stage'[v] \in Unopened => stage[v] \in Unopened
    BY <1>3 DEF Unopened, Collecting, Fetching
  <2>3. /\ serial[w] \in 1 .. runs
        /\ \A d \in dirOnDisk : d.dest # serial[w]
        /\ \A v \in Updater : dir.temp[v] # serial[w]
        /\ \A v \in Updater \ {w} : stage[v] \in Unopened => serial[v] # serial[w]
    BY <2>1 DEF UpdateInv, FreshApart
  <2>4. serial[w] # i
    BY <1>1, <2>1
  <2> QED
    BY <1>2, <1>3, <2>2, <2>3, <2>4
<1>8. TempsReady'
    BY <1>0, <1>1, <1>2, <1>3 DEF UpdateInv, TempsReady, Directory
<1>9. ReadersApart'
    BY <1>3 DEF UpdateInv, ReadersApart
<1> QED
    BY <1>4, <1>5, <1>6, <1>7, <1>8, <1>9 DEF UpdateInv

\* A write changes a text, and no name, stage or flag the invariant is about.
LEMMA WriteStep ==
    ASSUME UpdateInv, NEW u \in Updater, WriteTemp(u)
    PROVE  UpdateInv'
<1> USE DEF WriteTemp, scans
<1>1. FilesTyped'
    BY DEF UpdateInv, FilesTyped
<1>2. DirectoriesProper' /\ TempsApart' /\ FreshApart' /\ TempsReady' /\ ReadersApart'
    BY DEF UpdateInv, DirectoriesProper, TempsApart, FreshApart, TempsReady, ReadersApart
<1> QED
    BY <1>1, <1>2 DEF UpdateInv

\* After the sync the update may rename: its file is there and safe.
LEMMA SyncStep ==
    ASSUME UpdateInv, NEW u \in Updater, SyncTemp(u)
    PROVE  UpdateInv'
<1> USE UpdaterAssumption DEF SyncTemp, GoesTo, scans
<1>0. FilesTyped
    BY DEF UpdateInv
<1>1. FilesTyped'
    BY <1>0 DEF FilesTyped, Stage, Working
<1>2. /\ \A v \in Updater : stage'[v] = IF v = u THEN "rename" ELSE stage[v]
      /\ \A j \in Inode : synced[j] => synced'[j]
      /\ \A d \in dirOnDisk : d \in Directory
      /\ dir \in dirOnDisk /\ dir.temp[u] # None /\ synced'[dir.temp[u]]
      /\ UNCHANGED <<serial, dir, dirOnDisk, load, runs>>
    BY <1>0 DEF UpdateInv, FilesTyped, TempsReady, Directory
<1>3. DirectoriesProper'
    BY <1>2 DEF UpdateInv, DirectoriesProper, Directory
<1>4. TempsApart' /\ ReadersApart'
    BY <1>2 DEF UpdateInv, TempsApart, ReadersApart
<1>5. FreshApart'
    BY <1>2 DEF UpdateInv, FreshApart, Unopened, Collecting, Fetching
<1>6. TempsReady'
    BY <1>2 DEF UpdateInv, TempsReady, Directory
<1> QED
    BY <1>1, <1>3, <1>4, <1>5, <1>6 DEF UpdateInv

\* The rename: the new registry is synced, and no update has its inode any more.
LEMMA RenameStep ==
    ASSUME UpdateInv, NEW u \in Updater, RenameTemp(u)
    PROVE  UpdateInv'
<1> DEFINE i == dir.temp[u]
           new == [dest |-> i, temp |-> [dir.temp EXCEPT ![u] = None]]
<1> USE UpdaterAssumption DEF RenameTemp, Renamed, EndsAs, GoesTo, scans
<1>0. FilesTyped
    BY DEF UpdateInv
<1>1. /\ dir \in dirOnDisk /\ dir \in Directory
      /\ i \in Inode /\ i # None /\ i <= runs /\ synced[i]
      /\ \A v \in Updater \ {u} : dir.temp[v] # i
      /\ \A v \in Updater : stage[v] \in Unopened => serial[v] # i
    BY <1>0 DEF UpdateInv, FilesTyped, TempsReady, DirectoriesProper, FreshApart, Directory
<1>2. /\ new \in Directory /\ new.dest = i
      /\ \A v \in Updater : new.temp[v] = IF v = u THEN None ELSE dir.temp[v]
    BY <1>1 DEF Directory
<1>3. /\ dir' = new /\ dirOnDisk' = dirOnDisk \cup {new} /\ UNCHANGED <<serial, synced, content, load, runs>>
      /\ \A v \in Updater : stage'[v] = IF v = u THEN "summary" ELSE stage[v]
    BY <1>0 DEF FilesTyped
<1>4. stage' \in [Updater -> Stage]
    BY <1>0 DEF FilesTyped, Stage
<1> HIDE DEF i, new
<1>5. FilesTyped'
    BY <1>0, <1>2, <1>3, <1>4 DEF FilesTyped
<1>6. DirectoriesProper'
  <2>1. new.dest <= runs /\ synced[new.dest]
    BY <1>1, <1>2
  <2>2. \A v \in Updater : new.temp[v] # None =>
            /\ new.temp[v] <= runs
            /\ new.temp[v] # new.dest
            /\ \A w \in Updater \ {v} : new.temp[w] # new.temp[v]
    BY <1>1, <1>2 DEF UpdateInv, DirectoriesProper
  <2> QED
    BY SMTT(60), <1>3, <2>1, <2>2 DEF UpdateInv, DirectoriesProper
<1>7. TempsApart'
    BY <1>1, <1>2, <1>3 DEF UpdateInv, TempsApart
<1>8. FreshApart'
    BY <1>1, <1>2, <1>3 DEF UpdateInv, FreshApart, Unopened, Collecting, Fetching
<1>9. TempsReady'
    BY <1>1, <1>2, <1>3 DEF UpdateInv, TempsReady
<1>10. ReadersApart'
    BY <1>3 DEF UpdateInv, ReadersApart
<1> QED
    BY <1>5, <1>6, <1>7, <1>8, <1>9, <1>10 DEF UpdateInv

\* Whether the temporary file could be removed or not, no other name changes.
LEMMA DiscardStep ==
    ASSUME UpdateInv, NEW u \in Updater, DiscardTemp(u)
    PROVE  UpdateInv'
<1> DEFINE new == [dir EXCEPT !.temp = [@ EXCEPT ![u] = None]]
<1> USE DEF DiscardTemp, Renamed, EndsAs, GoesTo, registryFiles, scans
<1>0. FilesTyped
    BY DEF UpdateInv
<1>1. CASE UNCHANGED <<dir, dirOnDisk>>
  <2>1. "failed" \in Stage /\ "failed" \notin Unopened \cup {"write", "rename"}
    BY DEF Stage, Ended, Unopened, Collecting, Fetching
  <2>2. GoesTo(u, "failed") /\ UNCHANGED <<registryFiles, load, runs>>
    BY <1>1 DEF GoesTo
  <2> QED
    BY <2>1, <2>2, QuietStep
<1>2. CASE dir' = new /\ dirOnDisk' = dirOnDisk \cup {new}
  <2>1. dir \in dirOnDisk /\ dir \in Directory
    BY <1>0 DEF FilesTyped
  <2>2. /\ new \in Directory /\ new.dest = dir.dest
        /\ \A v \in Updater : new.temp[v] = IF v = u THEN None ELSE dir.temp[v]
    BY <2>1 DEF Directory
  <2>3. /\ UNCHANGED <<serial, synced, content, load, runs>>
        /\ \A v \in Updater : stage'[v] = IF v = u THEN "failed" ELSE stage[v]
    BY <1>0 DEF FilesTyped
  <2>4. stage' \in [Updater -> Stage]
    BY <1>0 DEF FilesTyped, Stage, Ended
  <2> HIDE DEF new
  <2>5. FilesTyped'
    BY <1>0, <1>2, <2>2, <2>3, <2>4 DEF FilesTyped
  <2>6. \A v \in Updater : new.temp[v] # None => new.temp[v] = dir.temp[v]
    BY <2>2
  <2>7. DirectoriesProper'
    BY <1>2, <2>1, <2>2, <2>3, <2>6 DEF UpdateInv, DirectoriesProper
  <2>8. TempsApart'
    BY <1>2, <2>1, <2>2 DEF UpdateInv, TempsApart
  <2>9. FreshApart'
    <3>1. "failed" \notin Unopened
      BY DEF Unopened, Collecting, Fetching
    <3> SUFFICES ASSUME NEW w \in Updater, stage'[w] \in Unopened
                 PROVE  /\ serial'[w] \in 1 .. runs'
                        /\ \A d \in dirOnDisk' : d.dest # serial'[w]
                        /\ \A v \in Updater : dir'.temp[v] # serial'[w]
                        /\ \A v \in Updater \ {w} : stage'[v] \in Unopened => serial'[v] # serial'[w]
      BY DEF FreshApart
    <3>2. stage[w] \in Unopened /\ \A v \in Updater : stage'[v] \in Unopened => stage[v] \in Unopened
      BY <2>3, <3>1
    <3>3. /\ serial[w] \in 1 .. runs
          /\ \A d \in dirOnDisk : d.dest # serial[w]
          /\ \A v \in Updater : dir.temp[v] # serial[w]
          /\ \A v \in Updater \ {w} : stage[v] \in Unopened => serial[v] # serial[w]
      BY <3>2 DEF UpdateInv, FreshApart
    <3>4. serial[w] # None
      BY <3>3, UpdaterAssumption
    <3> QED
      BY <1>2, <2>1, <2>2, <2>3, <3>2, <3>3, <3>4
  <2>10. TempsReady'
    BY <1>2, <2>2, <2>3 DEF UpdateInv, TempsReady
  <2>11. ReadersApart'
    BY <1>2, <2>3 DEF UpdateInv, ReadersApart
  <2> QED
    BY <2>5, <2>7, <2>8, <2>9, <2>10, <2>11 DEF UpdateInv
<1> QED
    BY <1>1, <1>2

\* A scan that opens the registry has an inode open that it had at some moment.
LEMMA LoadKeeps ==
    ASSUME UpdateInv, NEW r \in Reader, LoadStep(r)
    PROVE  UpdateInv'
<1> USE DEF updates, registryFiles
<1>0. FilesTyped
    BY DEF UpdateInv
<1>1. UNCHANGED <<updates, registryFiles, runs>>
    BY DEF LoadStep, LoadFindsNone, LoadOpens, LoadReads, LoadEnds
<1>2. \/ UNCHANGED load
      \/ load' = [load EXCEPT ![r] = [stage |-> "noRegistry", inode |-> None]]
      \/ dir.dest # None /\ load' = [load EXCEPT ![r] = [stage |-> "reading", inode |-> dir.dest]]
      \/ /\ load[r].stage = "reading"
         /\ \E s \in {"loaded", "refused"} :
                load' = [load EXCEPT ![r] = [stage |-> s, inode |-> load[r].inode]]
    BY DEF LoadStep, LoadFindsNone, LoadOpens, LoadReads, LoadEnds
<1>3. FilesTyped'
    BY <1>0, <1>1, <1>2 DEF FilesTyped, LoadStage, Directory
<1>4. ReadersApart'
    BY <1>0, <1>1, <1>2 DEF UpdateInv, ReadersApart, FilesTyped, LoadStage
<1>5. DirectoriesProper' /\ TempsApart' /\ FreshApart' /\ TempsReady'
    BY <1>1 DEF UpdateInv, DirectoriesProper, TempsApart, FreshApart, TempsReady
<1> QED
    BY <1>3, <1>4, <1>5 DEF UpdateInv

\* A power failure: the directory is one that could be on disk, everyone starts anew.
LEMMA PowerLossStep ==
    ASSUME UpdateInv, PowerLoss
    PROVE  UpdateInv'
<1> USE DEF PowerLoss
<1>0. FilesTyped
    BY DEF UpdateInv
<1>1. FilesTyped'
    BY <1>0 DEF FilesTyped, Stage, Ended, LoadStage
<1>2. DirectoriesProper' /\ TempsApart'
    BY <1>0 DEF UpdateInv, DirectoriesProper, TempsApart, FilesTyped, Directory
<1>3. FreshApart' /\ TempsReady' /\ ReadersApart'
    BY DEF FreshApart, TempsReady, ReadersApart, Unopened, Collecting, Fetching
<1> QED
    BY <1>1, <1>2, <1>3 DEF UpdateInv

\* Every step of an update, a scan or the power keeps the invariant.
LEMMA UpdateNext == UpdateInv /\ [Next]_vars => UpdateInv'
<1> SUFFICES ASSUME UpdateInv, [Next]_vars PROVE UpdateInv'
    OBVIOUS
<1>1. ASSUME NEW u \in Updater, UpdateStep(u) PROVE UpdateInv'
  <2> USE DEF Stage, Working, Collecting, Fetching, Ended, Unopened
  <2>1. CASE StartOnline(u)
    BY <2>1, StartStep DEF StartOnline
  <2>2. CASE \E listings \in Directories : StartOffline(u, listings)
    BY <2>2, StartStep DEF StartOffline
  <2>3. CASE \E rows \in Served(u) : CurlOpens(u, rows)
    BY <2>3, QuietStep DEF CurlOpens, scans
  <2>4. CASE CurlWrites(u)
    <3>1. UNCHANGED <<stage, serial, registryFiles, load, runs>>
        BY <2>4 DEF CurlWrites, scans
    <3>2. UNCHANGED <<stage, serial, content, synced, dir, dirOnDisk, load, runs>>
        BY <3>1 DEF registryFiles
    <3> QED
        BY <3>2 DEF UpdateInv, FilesTyped, DirectoriesProper, TempsApart, FreshApart,
                    TempsReady, ReadersApart
  <2>5. CASE CurlDone(u)
    BY <2>5, QuietStep DEF CurlDone, Looped, scans
  <2>6. CASE CurlFails(u)
    BY <2>6, QuietStep DEF CurlFails, EndsAs, scans
  <2>7. CASE ReadListing(u)
    BY <2>7, QuietStep DEF ReadListing, Looped, scans
  <2>8. CASE ReadFails(u)
    BY <2>8, QuietStep DEF ReadFails, EndsAs, scans
  <2>9. CASE ConvertListings(u)
    BY <2>9, QuietStep DEF ConvertListings, scans
  <2>10. CASE ConversionRefused(u)
    BY <2>10, QuietStep DEF ConversionRefused, EndsAs, scans
  <2>11. CASE OpenTemp(u)
    BY <2>11, OpenStep
  <2>12. CASE WriteTemp(u)
    BY <2>12, WriteStep
  <2>13. CASE SyncTemp(u)
    BY <2>13, SyncStep
  <2>14. CASE RenameTemp(u)
    BY <2>14, RenameStep
  <2>15. CASE ReplaceFails(u)
    BY <2>15, QuietStep DEF ReplaceFails, scans
  <2>16. CASE DiscardTemp(u)
    BY <2>16, DiscardStep
  <2>17. CASE WriteSummary(u)
    BY <2>17, QuietStep DEF WriteSummary, EndsAs, scans
  <2>18. CASE Crash(u)
    BY <2>18, QuietStep DEF Crash, EndsAs, scans
  <2> QED
    BY <1>1, <2>1, <2>2, <2>3, <2>4, <2>5, <2>6, <2>7, <2>8, <2>9, <2>10, <2>11, <2>12,
       <2>13, <2>14, <2>15, <2>16, <2>17, <2>18 DEF UpdateStep
<1>2. CASE UNCHANGED vars
  <2>1. UNCHANGED <<stage, serial, content, synced, dir, dirOnDisk, load, runs>>
    BY <1>2 DEF vars, updates, registryFiles, scans
  <2> QED
    BY <2>1 DEF UpdateInv, FilesTyped, DirectoriesProper, TempsApart, FreshApart,
                TempsReady, ReadersApart
<1> QED
    BY <1>1, <1>2, LoadKeeps, PowerLossStep DEF Next
-----------------------------------------------------------------------------
\* Stages, inodes and directories stay what they are declared to be, whatever is
\* killed between two system calls (the type invariant of the file state).
THEOREM FilesStayTyped == Spec => []FilesTyped
<1>1. UpdateInv => FilesTyped
    BY DEF UpdateInv
<1> QED
    BY <1>1, UpdateInit, UpdateNext, PTL DEF Spec

\* While the inodes are apart, no step writes to a text the registry has, may have
\* again, or that a scan has open.
LEMMA ExposedStay ==
    ASSUME UpdateInv, Next, NEW i \in Inode, Exposed(i)
    PROVE  content'[i] = content[i]
<1> USE UpdaterAssumption DEF registryFiles
<1>0. FilesTyped
    BY DEF UpdateInv
<1>1. i # None
    BY DEF Inode
<1>2. PICK d \in dirOnDisk : d.dest = i
    BY DEF UpdateInv, ReadersApart, Exposed
<1>3. synced[i]
    BY <1>1, <1>2 DEF UpdateInv, DirectoriesProper
<1>4. ASSUME NEW u \in Updater, UpdateStep(u) PROVE content'[i] = content[i]
  <2>1. CASE OpenTemp(u)
    <3>1. TempInode(u) \in Inode /\ TempInode(u) # i
      BY <1>2, <2>1, TempInodeApart DEF OpenTemp
    <3> QED
      BY <1>0, <2>1, <3>1 DEF OpenTemp, FilesTyped
  <2>2. CASE WriteTemp(u)
    <3>1. dir.temp[u] # None /\ dir.temp[u] # i
      BY <1>2, <2>2 DEF UpdateInv, TempsReady, TempsApart, WriteTemp
    <3> QED
      BY <1>0, <2>2, <3>1 DEF WriteTemp, FilesTyped
  <2>3. CASE \/ SyncTemp(u) \/ RenameTemp(u) \/ DiscardTemp(u)
    BY <2>3 DEF SyncTemp, RenameTemp, DiscardTemp
  <2>4. CASE \/ StartOnline(u) \/ \E listings \in Directories : StartOffline(u, listings)
    BY <2>4 DEF StartOnline, StartOffline, Starts
  <2>5. CASE \/ \E rows \in Served(u) : CurlOpens(u, rows)
             \/ CurlWrites(u) \/ CurlDone(u) \/ CurlFails(u) \/ ReadListing(u) \/ ReadFails(u)
    BY <2>5 DEF CurlOpens, CurlWrites, CurlDone, CurlFails, ReadListing, ReadFails
  <2>6. CASE \/ ConvertListings(u) \/ ConversionRefused(u) \/ ReplaceFails(u)
             \/ WriteSummary(u) \/ Crash(u)
    BY <2>6 DEF ConvertListings, ConversionRefused, ReplaceFails, WriteSummary, Crash
  <2> QED
    BY <1>4, <2>1, <2>2, <2>3, <2>4, <2>5, <2>6 DEF UpdateStep
<1>5. ASSUME NEW r \in Reader, LoadStep(r) PROVE content'[i] = content[i]
    BY <1>5 DEF LoadStep, LoadFindsNone, LoadOpens, LoadReads, LoadEnds
<1>6. ASSUME PowerLoss PROVE content'[i] = content[i]
    BY <1>3, <1>6 DEF PowerLoss
<1> QED
    BY <1>4, <1>5, <1>6 DEF Next

\* Replacing the registry never writes into a file somebody may read: not with
\* overlapping updates, process ids used again, leftovers of killed updates, or a
\* directory that a power failure took back (replace_file_atomically, write.rs:16).
THEOREM ExposedTextsAreNotWritten == Spec => ExposedTextsStay
<1> DEFINE Stay == \A i \in Inode : Exposed(i) => content'[i] = content[i]
<1>1. UpdateInv /\ [Next]_vars => [Stay]_vars
    BY ExposedStay
<1>2. Spec => [][Stay]_vars
    BY <1>1, UpdateInit, UpdateNext, PTL DEF Spec
<1> QED
    BY <1>2 DEF ExposedTextsStay
-----------------------------------------------------------------------------
(* What an update has collected *)

\* How many registries there are.
Registries == Len(AllRegistries)

\* The fields of the record of an update.
WorkFields == {"offline", "at", "rows", "sent", "files", "documents", "alone"}

\* What an update knows, at any stage.
IsWork(w) ==
    /\ DOMAIN w = WorkFields
    /\ w.at \in 1 .. Registries
    /\ w.rows \in Seq(Rows)
    /\ w.sent \in Nat
    /\ w.files \in Seq(Seq(Cell)) /\ Len(w.files) <= Registries
    /\ w.documents \in Seq(Seq(Rows)) /\ Len(w.documents) <= Registries

\* What it has fetched and read at each stage.
HasCollected(w, at) ==
    /\ at \in Fetching => w.files = <<>> /\ Len(w.documents) = w.at - 1
    /\ at = "read" => Len(w.files) = w.at - 1 /\ Len(w.documents) = Registries
    /\ at \in {"convert", "open", "write", "rename"} => Len(w.files) = Registries
    /\ at \in {"read", "convert", "open"} => w.sent = 0

\* What updates and listings are, together.
WorkInv ==
    /\ work = [u \in Updater |-> work[u]]
    /\ \A u \in Updater : IsWork(work[u]) /\ HasCollected(work[u], stage[u])
    /\ csv \in [Registry -> Seq(Cell) \cup {None}]
    /\ \A u \in Updater : stage[u] = "curling" => csv[Here(u)] \in Seq(Cell)

\* Listings are fetched again, never removed.
ListingsStay ==
    /\ csv' \in [Registry -> Seq(Cell) \cup {None}]
    /\ \A g \in Registry : csv[g] \in Seq(Cell) => csv'[g] \in Seq(Cell)

\* There are registries, and as many places in a loop over them.
LEMMA RegistriesNumber ==
    /\ Registries \in Nat \ {0}
    /\ DOMAIN AllRegistries = 1 .. Registries
    /\ \A i \in 1 .. Registries : AllRegistries[i] \in Registry
  BY RegistryAssumption DEF Registries

\* A listing is cut into cells.
LEMMA CellsTyped ==
    ASSUME NEW rows \in Seq(Rows)
    PROVE  Cells(rows) \in Seq(Cell) /\ Len(Cells(rows)) \in Nat
<1> DEFINE n == 2 * Len(rows)
           cell(i) == [part |-> IF i % 2 = 1 THEN "front" ELSE "back", row |-> rows[(i + 1) \div 2]]
           cells == [i \in 1 .. n |-> cell(i)]
<1>1. n \in Nat
  OBVIOUS
<1>2. ASSUME NEW i \in 1 .. n PROVE cell(i) \in Cell
  <2>1. (i + 1) \div 2 \in 1 .. Len(rows)
    OBVIOUS
  <2>2. rows[(i + 1) \div 2] \in Rows
    BY <2>1
  <2> QED
    BY <2>2 DEF Cell
<1> HIDE DEF n, cell
<1>3. cells \in Seq(Cell)
  BY <1>1, <1>2
<1> QED
  BY <1>3 DEF cell, n, Cells

\* The larger and the smaller of two numbers.
LEMMA MaxMin ==
    ASSUME NEW a \in Nat, NEW b \in Nat
    PROVE  /\ Max({a, b}) = IF a >= b THEN a ELSE b
           /\ Min({a, b}) = IF a <= b THEN a ELSE b
<1> DEFINE x == IF a >= b THEN a ELSE b
           y == IF a <= b THEN a ELSE b
<1>1. x \in {a, b} /\ \A z \in {a, b} : x >= z
  OBVIOUS
<1>2. \A w \in {a, b} : (\A z \in {a, b} : w >= z) => w = x
  OBVIOUS
<1>3. y \in {a, b} /\ \A z \in {a, b} : y <= z
  OBVIOUS
<1>4. \A w \in {a, b} : (\A z \in {a, b} : w <= z) => w = y
  OBVIOUS
<1> HIDE DEF x, y
<1>5. Max({a, b}) = x
  BY <1>1, <1>2 DEF Max
<1>6. Min({a, b}) = y
  BY <1>3, <1>4 DEF Min
<1> QED
  BY <1>5, <1>6 DEF x, y

\* What a write leaves, item by item.
LEMMA WrittenFacts ==
    ASSUME NEW T, Hole \in T, NEW file \in Seq(T), NEW k \in Nat, NEW part \in Seq(T)
    PROVE  LET n == IF k + Len(part) >= Len(file) THEN k + Len(part) ELSE Len(file)
           IN  WrittenAt(file, k, part) \in Seq(T) /\ Len(WrittenAt(file, k, part)) = n
<1> DEFINE n == IF k + Len(part) >= Len(file) THEN k + Len(part) ELSE Len(file)
           item(i) == IF i > k /\ i <= k + Len(part) THEN part[i - k]
                      ELSE IF i <= Len(file) THEN file[i] ELSE Hole
           written == [i \in 1 .. n |-> item(i)]
<1>1. Len(part) \in Nat /\ Len(file) \in Nat
  OBVIOUS
<1>2. k + Len(part) \in Nat
  BY <1>1
<1>3. Max({k + Len(part), Len(file)}) = n /\ n \in Nat
  BY <1>1, <1>2, MaxMin
<1>4. ASSUME NEW i \in 1 .. n PROVE item(i) \in T
  <2>1. CASE i > k /\ i <= k + Len(part)
    <3>1. i - k \in 1 .. Len(part)
      BY <1>1, <2>1
    <3>2. part[i - k] \in T
      BY <3>1
    <3> QED
      BY <2>1, <3>2
  <2>2. CASE ~(i > k /\ i <= k + Len(part)) /\ i <= Len(file)
    <3>1. i \in 1 .. Len(file)
      BY <1>1, <1>3, <2>2
    <3>2. file[i] \in T
      BY <3>1
    <3> QED
      BY <2>2, <3>2
  <2>3. CASE ~(i > k /\ i <= k + Len(part)) /\ ~(i <= Len(file))
    BY <2>3
  <2> QED
    BY <2>1, <2>2, <2>3
<1>5. WrittenAt(file, k, part) = written
  BY <1>3 DEF WrittenAt
<1> HIDE DEF n, item
<1>6. written \in Seq(T) /\ Len(written) = n
  BY <1>3, <1>4
<1> QED
  BY <1>5, <1>6 DEF n

\* The rows of a listing that was read whole.
LEMMA RowsTyped ==
    ASSUME NEW file \in Seq(Cell), Readable(file)
    PROVE  RowsOf(file) \in Seq(Rows)
<1> DEFINE n == Len(file) \div 2
           rows == [i \in 1 .. n |-> file[2 * i - 1].row]
<1>1. Len(file) \in Nat /\ n \in Nat
  OBVIOUS
<1>2. ASSUME NEW i \in 1 .. n PROVE file[2 * i - 1].row \in Rows
  <2>1. 2 * i - 1 \in 1 .. Len(file) /\ (2 * i - 1) % 2 = 1
    BY <1>1
  <2>2. file[2 * i - 1].part = "front" /\ file[2 * i - 1] \in Cell
    BY <2>1 DEF Readable
  <2> QED
    BY <2>2 DEF Cell, Hole
<1>3. RowsOf(file) = rows
  BY DEF RowsOf
<1> HIDE DEF n
<1>4. rows \in Seq(Rows)
  BY <1>1, <1>2
<1> QED
  BY <1>3, <1>4

\* Nothing but whether another update fetches depends on that mark.
LEMMA MarkedAlone ==
    ASSUME NEW w, NEW b, IsWork(w)
    PROVE  /\ IsWork([w EXCEPT !.alone = b])
           /\ \A at : HasCollected(w, at) => HasCollected([w EXCEPT !.alone = b], at)
<1> DEFINE t == [w EXCEPT !.alone = b]
<1>1. t = [x \in DOMAIN w |-> IF x = "alone" THEN b ELSE w[x]]
  BY Zenon
<1> HIDE DEF t
<1>2. /\ DOMAIN t = WorkFields /\ t.at = w.at /\ t.rows = w.rows /\ t.sent = w.sent
      /\ t.files = w.files /\ t.documents = w.documents
  BY <1>1 DEF IsWork, WorkFields
<1>3. IsWork(t)
  BY <1>2 DEF IsWork
<1>4. \A at : HasCollected(w, at) => HasCollected(t, at)
  BY <1>2 DEF HasCollected
<1> QED
  BY <1>3, <1>4 DEF t

\* An update that has nothing yet, or nothing any more.
LEMMA NoWorkIsWork ==
    /\ IsWork(NoWork) /\ NoWork.sent = 0
    /\ \A at \in Ended \cup {"summary", "curl"} : HasCollected(NoWork, at)
<1>1. IsWork(NoWork)
  BY RegistriesNumber DEF IsWork, NoWork, WorkFields
<1>2. \A at \in Ended \cup {"summary", "curl"} : HasCollected(NoWork, at)
  BY DEF HasCollected, NoWork, Ended, Fetching
<1> QED
  BY <1>1, <1>2 DEF NoWork

\* At first no update has anything.
LEMMA WorkInit == Init => WorkInv
<1> SUFFICES ASSUME Init PROVE WorkInv
  OBVIOUS
<1>1. \A u \in Updater : work[u] = NoWork /\ stage[u] = "away"
  BY DEF Init
<1>2. work = [u \in Updater |-> work[u]] /\ csv \in [Registry -> Seq(Cell) \cup {None}]
  BY DEF Init
<1> QED
  BY <1>1, <1>2, NoWorkIsWork DEF WorkInv, Ended

\* One update goes on to another stage with other work.
LEMMA WorkMoves ==
    ASSUME WorkInv, FilesTyped, NEW u \in Updater, NEW next, NEW w,
           IsWork(w), HasCollected(w, next),
           work' = [work EXCEPT ![u] = w], stage' = [stage EXCEPT ![u] = next],
           ListingsStay, next = "curling" => csv'[AllRegistries[w.at]] \in Seq(Cell)
    PROVE  WorkInv'
<1>1. work = [v \in Updater |-> work[v]] /\ DOMAIN stage = Updater
  BY DEF WorkInv, FilesTyped
<1>2. /\ work' = [v \in Updater |-> work'[v]]
      /\ \A v \in Updater : work'[v] = IF v = u THEN w ELSE work[v]
      /\ \A v \in Updater : stage'[v] = IF v = u THEN next ELSE stage[v]
  BY <1>1
<1>3. \A v \in Updater : IsWork(work'[v]) /\ HasCollected(work'[v], stage'[v])
  BY <1>2 DEF WorkInv
<1>4. ASSUME NEW v \in Updater, stage'[v] = "curling" PROVE csv'[Here(v)'] \in Seq(Cell)
  <2>1. CASE v = u
    BY <1>2, <1>4, <2>1 DEF Here
  <2>2. CASE v # u
    <3>1. Here(v)' = Here(v) /\ stage[v] = "curling"
      BY <1>2, <1>4, <2>2 DEF Here
    <3>2. csv[Here(v)] \in Seq(Cell) /\ Here(v) \in Registry
      BY <3>1, RegistriesNumber DEF WorkInv, Here, IsWork
    <3> QED
      BY <3>1, <3>2 DEF ListingsStay
  <2> QED
    BY <2>1, <2>2
<1> QED
  BY <1>2, <1>3, <1>4 DEF WorkInv, ListingsStay

\* One update ends, or goes to its summary.
LEMMA WorkEnds ==
    ASSUME WorkInv, FilesTyped, NEW u \in Updater, NEW end \in Ended \cup {"summary"},
           EndsAs(u, end), UNCHANGED csv
    PROVE  WorkInv'
<1>1. ListingsStay
  BY DEF WorkInv, ListingsStay
<1>2. IsWork(NoWork) /\ HasCollected(NoWork, end) /\ end # "curling"
  BY NoWorkIsWork DEF Ended
<1> QED
  BY <1>1, <1>2, WorkMoves DEF EndsAs, GoesTo

\* One update goes on to another stage and keeps its work.
LEMMA WorkKept ==
    ASSUME WorkInv, FilesTyped, NEW u \in Updater, NEW next,
           HasCollected(work[u], next), GoesTo(u, next), next # "curling", UNCHANGED <<work, csv>>
    PROVE  WorkInv'
<1>1. ListingsStay
  BY DEF WorkInv, ListingsStay
<1>2. work' = [work EXCEPT ![u] = work[u]]
  BY DEF WorkInv
<1>3. IsWork(work[u])
  BY DEF WorkInv
<1> QED
  BY <1>1, <1>2, <1>3, WorkMoves DEF GoesTo

\* The counter of a loop over the registries goes on, or back to the first.
LEMMA LoopedTask ==
    ASSUME NEW task, IsWork(task)
    PROVE  LET last == task.at = Len(AllRegistries)
               w == [task EXCEPT !.at = IF last THEN 1 ELSE @ + 1]
           IN  /\ IsWork(w) /\ w.at = IF last THEN 1 ELSE task.at + 1
               /\ w.files = task.files /\ w.documents = task.documents /\ w.sent = task.sent
<1> DEFINE last == task.at = Len(AllRegistries)
           next == IF last THEN 1 ELSE task.at + 1
           w == [task EXCEPT !.at = IF last THEN 1 ELSE @ + 1]
<1>1. next \in 1 .. Registries
  BY RegistriesNumber DEF IsWork, Registries
<1>2. w = [task EXCEPT !.at = next]
  OBVIOUS
<1> HIDE DEF next
<1>3. /\ DOMAIN w = WorkFields /\ w.at = next /\ w.rows = task.rows /\ w.sent = task.sent
      /\ w.files = task.files /\ w.documents = task.documents
  BY <1>2 DEF IsWork, WorkFields
<1> HIDE DEF w
<1>4. IsWork(w)
  BY <1>1, <1>3 DEF IsWork
<1> QED
  BY <1>3, <1>4 DEF next, w

\* A fetched listing is added to those the update has.
LEMMA CurlDoneWork ==
    ASSUME WorkInv, FilesTyped, NEW u \in Updater, CurlDone(u)
    PROVE  WorkInv'
<1> DEFINE task == [work[u] EXCEPT !.documents = Append(@, work[u].rows), !.rows = <<>>, !.sent = 0]
           last == task.at = Len(AllRegistries)
           w == [task EXCEPT !.at = IF last THEN 1 ELSE @ + 1]
           next == IF last THEN "read" ELSE "curl"
<1>1. IsWork(work[u]) /\ HasCollected(work[u], "curling") /\ csv' = csv
  BY DEF CurlDone, WorkInv
<1>2. /\ work' = [work EXCEPT ![u] = w] /\ stage' = [stage EXCEPT ![u] = next]
  BY DEF CurlDone, Looped, GoesTo
<1>3. work[u].files = <<>> /\ Len(work[u].documents) = work[u].at - 1
  BY <1>1 DEF HasCollected, Fetching
<1>4. /\ DOMAIN task = WorkFields /\ task.at = work[u].at /\ task.rows = <<>> /\ task.sent = 0
      /\ task.files = work[u].files /\ task.documents = Append(work[u].documents, work[u].rows)
  BY <1>1 DEF IsWork, WorkFields
<1> HIDE DEF task
<1>5. IsWork(task) /\ Len(task.documents) = task.at /\ task.files = <<>>
  <2>1. /\ work[u].documents \in Seq(Seq(Rows)) /\ work[u].rows \in Seq(Rows)
        /\ work[u].at \in 1 .. Registries /\ work[u].files \in Seq(Seq(Cell))
        /\ Len(work[u].files) <= Registries
    BY <1>1 DEF IsWork
  <2>2. /\ Append(work[u].documents, work[u].rows) \in Seq(Seq(Rows))
        /\ Len(Append(work[u].documents, work[u].rows)) = work[u].at
    BY <1>3, <2>1
  <2>3. work[u].at <= Registries
    BY <2>1
  <2>4. <<>> \in Seq(Rows) /\ 0 \in Nat
    OBVIOUS
  <2> QED
    BY <1>3, <1>4, <2>1, <2>2, <2>3, <2>4 DEF IsWork
<1>6. /\ IsWork(w) /\ w.at = IF last THEN 1 ELSE task.at + 1
      /\ w.files = task.files /\ w.documents = task.documents /\ w.sent = task.sent
  BY <1>5, LoopedTask
<1> HIDE DEF w
<1>7. HasCollected(w, next)
  <2>1. w.files = <<>> /\ w.sent = 0 /\ Len(w.documents) = task.at /\ task.at \in Nat
    BY <1>4, <1>5, <1>6, RegistriesNumber DEF IsWork
  <2>2. CASE last
    <3>1. Len(w.documents) = Registries /\ w.at = 1 /\ next = "read" /\ Len(w.files) = 0
      BY <1>6, <2>1, <2>2 DEF Registries
    <3> QED
      BY <2>1, <3>1 DEF HasCollected, Fetching
  <2>3. CASE ~last
    <3>1. Len(w.documents) = w.at - 1 /\ next = "curl"
      BY <1>6, <2>1, <2>3
    <3> HIDE DEF next
    <3> QED
      BY <2>1, <3>1 DEF HasCollected, Fetching
  <2> QED
    BY <2>2, <2>3
<1>8. ListingsStay /\ next # "curling"
  BY <1>1 DEF WorkInv, ListingsStay
<1> HIDE DEF next
<1> QED
  BY <1>2, <1>6, <1>7, <1>8, WorkMoves

\* A listing that was read is added to the files of the update.
LEMMA ReadListingWork ==
    ASSUME WorkInv, FilesTyped, NEW u \in Updater, ReadListing(u)
    PROVE  WorkInv'
<1> DEFINE file == IF work[u].offline THEN Cells(work[u].documents[work[u].at]) ELSE csv[Here(u)]
           task == [work[u] EXCEPT !.files = Append(@, file)]
           last == task.at = Len(AllRegistries)
           w == [task EXCEPT !.at = IF last THEN 1 ELSE @ + 1]
           next == IF last THEN "convert" ELSE "read"
<1>1. IsWork(work[u]) /\ HasCollected(work[u], "read") /\ csv' = csv /\ file # None
  BY DEF ReadListing, WorkInv
<1>2. /\ work' = [work EXCEPT ![u] = w] /\ stage' = [stage EXCEPT ![u] = next]
  BY DEF ReadListing, Looped, GoesTo
<1>3. file \in Seq(Cell)
  <2>1. work[u].at \in 1 .. Registries /\ Len(work[u].documents) = Registries
    BY <1>1 DEF IsWork, HasCollected
  <2>2. CASE work[u].offline
    <3>1. work[u].documents[work[u].at] \in Seq(Rows)
      BY <1>1, <2>1 DEF IsWork
    <3> QED
      BY <2>2, <3>1, CellsTyped
  <2>3. CASE ~work[u].offline
    <3>1. Here(u) \in Registry
      BY <2>1, RegistriesNumber DEF Here
    <3> QED
      BY <1>1, <2>3, <3>1 DEF WorkInv
  <2> QED
    BY <2>2, <2>3
<1> HIDE DEF file
<1>4. /\ DOMAIN task = WorkFields /\ task.at = work[u].at /\ task.rows = work[u].rows
      /\ task.sent = work[u].sent /\ task.files = Append(work[u].files, file)
      /\ task.documents = work[u].documents
  BY <1>1 DEF IsWork, WorkFields
<1>5. work[u].sent = 0 /\ Len(work[u].files) = work[u].at - 1 /\ Len(work[u].documents) = Registries
  BY <1>1 DEF HasCollected
<1> HIDE DEF task
<1>6. IsWork(task) /\ Len(task.files) = task.at
  <2>1. work[u].files \in Seq(Seq(Cell)) /\ work[u].at \in 1 .. Registries
    BY <1>1 DEF IsWork
  <2>2. /\ Append(work[u].files, file) \in Seq(Seq(Cell))
        /\ Len(Append(work[u].files, file)) = work[u].at
    BY <1>3, <1>5, <2>1
  <2>3. work[u].at <= Registries
    BY <2>1
  <2> QED
    BY <1>1, <1>4, <2>1, <2>2, <2>3 DEF IsWork
<1>7. /\ IsWork(w) /\ w.at = IF last THEN 1 ELSE task.at + 1
      /\ w.files = task.files /\ w.documents = task.documents /\ w.sent = task.sent
  BY <1>6, LoopedTask
<1> HIDE DEF w
<1>8. HasCollected(w, next)
  <2>1. w.sent = 0 /\ Len(w.files) = task.at /\ Len(w.documents) = Registries /\ task.at \in Nat
    BY <1>4, <1>5, <1>6, <1>7, RegistriesNumber DEF IsWork
  <2>2. CASE last
    <3>1. Len(w.files) = Registries /\ next = "convert"
      BY <2>1, <2>2 DEF Registries
    <3> HIDE DEF next
    <3> QED
      BY <2>1, <3>1 DEF HasCollected, Fetching
  <2>3. CASE ~last
    <3>1. Len(w.files) = w.at - 1 /\ next = "read"
      BY <1>7, <2>1, <2>3
    <3> HIDE DEF next
    <3> QED
      BY <2>1, <3>1 DEF HasCollected, Fetching
  <2> QED
    BY <2>2, <2>3
<1>9. ListingsStay /\ next # "curling"
  BY <1>1 DEF WorkInv, ListingsStay
<1> HIDE DEF next
<1> QED
  BY <1>2, <1>7, <1>8, <1>9, WorkMoves

\* curl is served a listing and opens its file, empty.
LEMMA CurlOpensWork ==
    ASSUME WorkInv, UpdateInv, NEW u \in Updater, NEW rows \in Served(u), CurlOpens(u, rows)
    PROVE  WorkInv'
<1> DEFINE w == [work[u] EXCEPT !.rows = rows, !.sent = 0]
<1>1. IsWork(work[u]) /\ HasCollected(work[u], "curl")
  BY DEF CurlOpens, WorkInv
<1>2. Here(u) \in Registry
  BY <1>1, RegistriesNumber DEF Here, IsWork
<1>3. serial[u] \in 1 .. MaxRuns
  <2>1. serial[u] \in 1 .. runs /\ runs \in 0 .. MaxRuns
    BY DEF UpdateInv, FreshApart, Unopened, Collecting, Fetching, CurlOpens, FilesTyped
  <2> QED
    BY <2>1, UpdaterAssumption
<1>4. rows \in Seq(Rows)
  <2>1. rows \in Published[Here(u)][serial[u]]
    BY DEF CurlOpens, Served
  <2>2. serial[u] \in DOMAIN Published[Here(u)]
    BY <1>2, <1>3, UpdaterAssumption
  <2>3. Published[Here(u)][serial[u]] \in Range(Published[Here(u)])
    BY <2>2 DEF Range
  <2>4. rows \in UNION UNION {Range(Published[g]) : g \in Registry}
    BY <1>2, <2>1, <2>3
  <2>5. rows \in Listings
    BY <2>4 DEF Listings
  <2> QED
    BY <2>5, UpdaterAssumption
<1>5. work' = [work EXCEPT ![u] = w]
  BY DEF CurlOpens
<1>6. /\ DOMAIN w = WorkFields /\ w.at = work[u].at /\ w.rows = rows /\ w.sent = 0
      /\ w.files = work[u].files /\ w.documents = work[u].documents
  BY <1>1 DEF IsWork, WorkFields
<1> HIDE DEF w
<1>7. IsWork(w)
  BY <1>1, <1>4, <1>6 DEF IsWork
<1>8. HasCollected(w, "curling")
  BY <1>1, <1>6 DEF HasCollected, Fetching
<1>9. ListingsStay /\ csv'[AllRegistries[w.at]] \in Seq(Cell)
  <2>1. csv' = [csv EXCEPT ![Here(u)] = <<>>] /\ csv \in [Registry -> Seq(Cell) \cup {None}]
    BY DEF CurlOpens, WorkInv
  <2>2. <<>> \in Seq(Cell)
    OBVIOUS
  <2>3. AllRegistries[w.at] = Here(u)
    BY <1>6 DEF Here
  <2> QED
    BY <1>2, <2>1, <2>2, <2>3 DEF ListingsStay
<1>10. stage' = [stage EXCEPT ![u] = "curling"] /\ FilesTyped
  BY DEF CurlOpens, GoesTo, UpdateInv
<1> QED
  BY <1>5, <1>7, <1>8, <1>9, <1>10, WorkMoves

\* A write moves on in what the update has to send.
LEMMA SentMoves ==
    ASSUME WorkInv, NEW u \in Updater, NEW k \in Nat, stage[u] \in {"curling", "write"},
           work' = [work EXCEPT ![u].sent = k], UNCHANGED stage,
           ListingsStay, FilesTyped
    PROVE  WorkInv'
<1> DEFINE w == [work[u] EXCEPT !.sent = k]
<1>1. IsWork(work[u]) /\ HasCollected(work[u], stage[u])
  BY DEF WorkInv
<1>2. work' = [work EXCEPT ![u] = w]
  OBVIOUS
<1>3. /\ DOMAIN w = WorkFields /\ w.at = work[u].at /\ w.rows = work[u].rows /\ w.sent = k
      /\ w.files = work[u].files /\ w.documents = work[u].documents
  BY <1>1 DEF IsWork, WorkFields
<1> HIDE DEF w
<1>4. IsWork(w)
  BY <1>1, <1>3 DEF IsWork
<1>5. HasCollected(w, stage[u])
  BY <1>1, <1>3 DEF HasCollected, Fetching
<1>6. stage' = [stage EXCEPT ![u] = stage[u]]
  BY DEF FilesTyped
<1>7. stage[u] = "curling" => csv'[AllRegistries[w.at]] \in Seq(Cell)
  <2>1. stage[u] = "curling" => csv[Here(u)] \in Seq(Cell)
    BY DEF WorkInv
  <2>2. AllRegistries[w.at] = Here(u) /\ Here(u) \in Registry
    BY <1>1, <1>3, RegistriesNumber DEF Here, IsWork
  <2> QED
    BY <2>1, <2>2 DEF ListingsStay
<1> QED
  BY <1>2, <1>4, <1>5, <1>6, <1>7, WorkMoves

\* The next cell of the answer is written to the listing.
LEMMA CurlWritesWork ==
    ASSUME WorkInv, FilesTyped, NEW u \in Updater, CurlWrites(u)
    PROVE  WorkInv'
<1> DEFINE k == work[u].sent
           part == <<Cells(work[u].rows)[k + 1]>>
<1>1. IsWork(work[u]) /\ HasCollected(work[u], "curling")
  BY DEF CurlWrites, WorkInv
<1>2. k \in Nat /\ work[u].rows \in Seq(Rows) /\ Here(u) \in Registry
  BY <1>1, RegistriesNumber DEF IsWork, Here
<1>3. part \in Seq(Cell)
  <2>1. Cells(work[u].rows) \in Seq(Cell) /\ Len(Cells(work[u].rows)) \in Nat
    BY <1>2, CellsTyped
  <2>2. k + 1 \in 1 .. Len(Cells(work[u].rows))
    BY <1>2, <2>1 DEF CurlWrites
  <2>3. Cells(work[u].rows)[k + 1] \in Cell
    BY <2>1, <2>2
  <2> QED
    BY <2>3
<1>4. csv' = [csv EXCEPT ![Here(u)] = WrittenAt(@, k, part)]
  BY DEF CurlWrites
<1> HIDE DEF part
<1>5. csv[Here(u)] \in Seq(Cell) /\ Hole \in Cell
  BY DEF WorkInv, CurlWrites, Cell
<1>6. WrittenAt(csv[Here(u)], k, part) \in Seq(Cell)
  BY <1>2, <1>3, <1>5, WrittenFacts
<1>7. ListingsStay
  <2>1. csv \in [Registry -> Seq(Cell) \cup {None}]
    BY DEF WorkInv
  <2> DEFINE new == WrittenAt(csv[Here(u)], k, part)
  <2>2. csv' = [csv EXCEPT ![Here(u)] = new]
    BY <1>4
  <2> HIDE DEF new
  <2> QED
    BY <1>2, <1>6, <2>1, <2>2 DEF ListingsStay, new
<1>8. k + 1 \in Nat /\ work' = [work EXCEPT ![u].sent = k + 1] /\ stage' = stage /\ stage[u] = "curling"
  BY <1>2 DEF CurlWrites
<1> QED
  BY <1>7, <1>8, SentMoves

\* The file is written on, as far as its text goes.
LEMMA WriteTempWork ==
    ASSUME WorkInv, FilesTyped, NEW u \in Updater, WriteTemp(u),
           Len(NextChunk(NewText(u), work[u].sent)) \in Nat
    PROVE  WorkInv'
<1> DEFINE k == work[u].sent + Len(NextChunk(NewText(u), work[u].sent))
<1>1. work[u].sent \in Nat
  BY DEF WorkInv, IsWork
<1>2. k \in Nat
  BY <1>1
<1>3. work' = [work EXCEPT ![u].sent = k] /\ stage' = stage /\ stage[u] = "write" /\ csv' = csv
  BY DEF WriteTemp
<1>4. ListingsStay
  BY <1>3 DEF ListingsStay, WorkInv
<1> HIDE DEF k
<1> QED
  BY <1>2, <1>3, <1>4, SentMoves

\* Another update begins; those that fetch at the same time are marked.
LEMMA StartsWork ==
    ASSUME WorkInv, FilesTyped, NEW u \in Updater, NEW first \in {"curl", "read"}, NEW task, NEW rivals,
           IsWork(task), HasCollected(task, first), Starts(u, first, task, rivals)
    PROVE  WorkInv'
<1> DEFINE alone == rivals = {}
           t == [task EXCEPT !.alone = alone]
           w(v) == [work[v] EXCEPT !.alone = FALSE]
<1>1. /\ work' = [v \in Updater |-> IF v = u THEN t ELSE IF v \in rivals THEN w(v) ELSE work[v]]
      /\ stage' = [stage EXCEPT ![u] = first] /\ csv' = csv
  BY DEF Starts
<1>2. IsWork(t) /\ HasCollected(t, first)
  BY MarkedAlone
<1>3. \A v \in Updater : IsWork(w(v)) /\ HasCollected(w(v), stage[v])
  BY MarkedAlone DEF WorkInv
<1>4. \A v \in Updater : w(v).at = work[v].at
  <2> SUFFICES ASSUME NEW v \in Updater PROVE w(v).at = work[v].at
    OBVIOUS
  <2>1. w(v) = [x \in DOMAIN work[v] |-> IF x = "alone" THEN FALSE ELSE work[v][x]]
    BY Zenon
  <2>2. "at" \in DOMAIN work[v]
    BY DEF WorkInv, IsWork, WorkFields
  <2> HIDE DEF w
  <2> QED
    BY <2>1, <2>2
<1> HIDE DEF t, w
<1>5. \A v \in Updater : stage'[v] = IF v = u THEN first ELSE stage[v]
  BY <1>1 DEF FilesTyped
<1>6. \A v \in Updater : IsWork(work'[v]) /\ HasCollected(work'[v], stage'[v])
  BY <1>1, <1>2, <1>3, <1>5 DEF WorkInv
<1>7. work' = [v \in Updater |-> work'[v]]
  BY <1>1
<1>8. ASSUME NEW v \in Updater, stage'[v] = "curling" PROVE csv'[Here(v)'] \in Seq(Cell)
  <2>1. v # u /\ stage[v] = "curling"
    BY <1>5, <1>8
  <2>2. work'[v].at = work[v].at
    BY <1>1, <1>4, <2>1
  <2>3. Here(v)' = Here(v)
    BY <2>2 DEF Here
  <2> QED
    BY <1>1, <2>1, <2>3 DEF WorkInv
<1> QED
  BY <1>1, <1>6, <1>7, <1>8 DEF WorkInv

\* With --from-dir the listings of the directory are all there.
LEMMA OfflineTask ==
    ASSUME NEW listings \in Directories, NEW b
    PROVE  LET t == [NoWork EXCEPT !.offline = b, !.documents = listings]
           IN  IsWork(t) /\ HasCollected(t, "read")
<1> DEFINE t == [NoWork EXCEPT !.offline = b, !.documents = listings]
<1>1. /\ DOMAIN t = WorkFields /\ t.at = 1 /\ t.rows = <<>> /\ t.sent = 0 /\ t.files = <<>>
      /\ t.documents = listings
  BY DEF NoWork, WorkFields
<1>2. listings \in Seq(Seq(Rows)) /\ Len(listings) = Registries
  <2>1. listings \in [1 .. Registries -> Listings] /\ Listings \subseteq Seq(Rows)
    BY RegistriesNumber, UpdaterAssumption
  <2> QED
    BY <2>1, RegistriesNumber
<1> HIDE DEF t
<1>3. IsWork(t)
  BY <1>1, <1>2, RegistriesNumber DEF IsWork
<1>4. HasCollected(t, "read")
  BY <1>1, <1>2 DEF HasCollected, Fetching
<1> QED
  BY <1>3, <1>4 DEF t
-----------------------------------------------------------------------------
(* What the files hold *)

\* What the temporary file of an update holds.
TempHolds(u) ==
    /\ stage[u] \in {"open", "write", "rename"} => NewText(u) \in Text /\ WholeText(NewText(u))
    /\ stage[u] = "write" =>
        /\ work[u].sent <= Len(NewText(u))
        /\ content[dir.temp[u]] = SubSeq(NewText(u), 1, work[u].sent)
    /\ stage[u] = "rename" => content[dir.temp[u]] = NewText(u)

\* The registry is whole in every state of the directory.
RegistryWhole ==
    \A d \in dirOnDisk : d.dest # None => content[d.dest] \in Text /\ WholeText(content[d.dest])

\* What a scan has read is the beginning of the file it has open.
ReaderFollows(r) ==
    /\ got[r] \in Text
    /\ load[r].stage = "start" => got[r] = <<>>
    /\ load[r].stage = "reading" =>
        /\ Len(got[r]) <= Len(content[load[r].inode])
        /\ got[r] = SubSeq(content[load[r].inode], 1, Len(got[r]))

\* What the files and the scans hold, together.
TextInv ==
    /\ \A u \in Updater : TempHolds(u)
    /\ RegistryWhole
    /\ \A r \in Reader : ReaderFollows(r)
    /\ got = [r \in Reader |-> got[r]]

\* At first the registry, if there is one, holds the old text.
LEMMA TextInit == Init => TextInv
<1> SUFFICES ASSUME Init PROVE TextInv
  OBVIOUS
<1> USE DEF Init
<1>1. \A u \in Updater : TempHolds(u)
  BY DEF TempHolds
<1>2. RegistryWhole
  <2> SUFFICES ASSUME NEW d \in dirOnDisk, d.dest # None
               PROVE  content[d.dest] \in Text /\ WholeText(content[d.dest])
    BY DEF RegistryWhole
  <2>1. d.dest = 0 /\ 0 \in Inode
    BY UpdaterAssumption DEF Inode
  <2>2. content[0] = OldText
    BY <2>1
  <2> QED
    BY <2>1, <2>2, UpdaterAssumption
<1>3. \A r \in Reader : ReaderFollows(r)
  <2>1. <<>> \in Text
    BY DEF Text
  <2> QED
    BY <2>1 DEF ReaderFollows
<1> QED
  BY <1>1, <1>2, <1>3 DEF TextInv

\* The text of an update whose listings were all taken.
LEMMA NewTextWhole ==
    ASSUME WorkInv, NEW u \in Updater, stage[u] = "convert", Convertible(work[u].files), Parses(NewText(u))
    PROVE  NewText(u) \in Text /\ WholeText(NewText(u))
<1> DEFINE files == work[u].files
<1>1. files \in Seq(Seq(Cell)) /\ Len(files) = Registries
  BY DEF WorkInv, IsWork, HasCollected
<1>2. ASSUME NEW i \in DOMAIN AllRegistries PROVE RowsOf(files[i]) \in Seq(Rows)
  <2>1. files[i] \in Seq(Cell)
    BY <1>1, RegistriesNumber
  <2>2. Readable(files[i])
    BY DEF Convertible, ListingAccepted
  <2> QED
    BY <2>1, <2>2, RowsTyped
<1> HIDE DEF files
<1>3. Converted(files) \in Seq(Line) /\ (Parses(Converted(files)) => WholeText(Converted(files)))
  BY <1>2, ConvertedWhole
<1>4. NewText(u) = Converted(files)
  BY DEF NewText, files
<1>5. NewText(u) \in Text
  BY <1>3, <1>4 DEF Text
<1> QED
  BY <1>3, <1>4, <1>5

\* The chunk that is moved next.
LEMMA ChunkFacts ==
    ASSUME NEW T, NEW text \in Seq(T), NEW k \in Nat, k <= Len(text)
    PROVE  LET part == NextChunk(text, k)
           IN  /\ part \in Seq(T) /\ Len(part) \in Nat /\ k + Len(part) <= Len(text)
               /\ \A i \in 1 .. Len(part) : part[i] = text[k + i]
               /\ part = <<>> => k = Len(text)
<1> DEFINE end == Min({k + Chunk, Len(text)})
           part == NextChunk(text, k)
<1>0. Len(text) \in Nat /\ Chunk \in Nat \ {0} /\ k + Chunk \in Nat
  BY UpdaterAssumption
<1>1. end = IF k + Chunk <= Len(text) THEN k + Chunk ELSE Len(text)
  BY <1>0, MaxMin
<1>2. part = SubSeq(text, k + 1, end)
  BY DEF NextChunk
<1> HIDE DEF end, part
<1>3. k + 1 \in Int /\ end \in Int /\ end <= Len(text) /\ end >= k /\ (end = k => k = Len(text))
  BY <1>0, <1>1
<1>4. \A i \in (k + 1) .. end : text[i] \in T
  BY <1>0, <1>3
<1>5. /\ part \in Seq(T) /\ Len(part) = IF k + 1 <= end THEN end - (k + 1) + 1 ELSE 0
      /\ \A i \in 1 .. (end - (k + 1) + 1) : part[i] = text[(k + 1) + i - 1]
  BY <1>2, <1>3, <1>4, SubSeqProperties
<1>6. Len(part) = end - k
  BY <1>3, <1>5
<1>7. \A i \in 1 .. Len(part) : part[i] = text[k + i]
  <2> TAKE i \in 1 .. Len(part)
  <2>1. i \in 1 .. (end - (k + 1) + 1) /\ (k + 1) + i - 1 = k + i
    BY <1>3, <1>6
  <2> QED
    BY <1>5, <2>1
<1>8. part = <<>> => k = Len(text)
  <2>1. part = <<>> => Len(part) = 0
    BY EmptySeq
  <2> QED
    BY <1>3, <1>6, <2>1
<1> QED
  BY <1>3, <1>5, <1>6, <1>7, <1>8 DEF part

\* Two beginnings of a text are one, when they are as long.
LEMMA Beginning ==
    ASSUME NEW T, NEW text \in Seq(T), NEW n \in 0 .. Len(text), NEW s \in Seq(T), Len(s) = n,
           \A i \in 1 .. n : s[i] = text[i]
    PROVE  s = SubSeq(text, 1, n)
<1> DEFINE t == SubSeq(text, 1, n)
<1>1. Len(text) \in Nat /\ n \in Nat
  OBVIOUS
<1>2. /\ t \in Seq(T) /\ Len(t) = IF 1 <= n THEN n - 1 + 1 ELSE 0
      /\ \A i \in 1 .. (n - 1 + 1) : t[i] = text[1 + i - 1]
  <2>1. \A i \in 1 .. n : text[i] \in T
    BY <1>1
  <2> QED
    BY <1>1, <2>1, SubSeqProperties
<1> HIDE DEF t
<1>3. Len(t) = n
  BY <1>1, <1>2
<1>4. \A i \in 1 .. n : t[i] = text[i]
  <2> TAKE i \in 1 .. n
  <2>1. i \in 1 .. (n - 1 + 1) /\ 1 + i - 1 = i
    BY <1>1
  <2> QED
    BY <1>2, <2>1
<1>5. s = t
  BY <1>2, <1>3, <1>4, SeqEqual
<1> QED
  BY <1>5 DEF t

\* A write of the items that come next, behind what is written of a sequence, makes
\* a longer beginning of it.
LEMMA WriteContinues ==
    ASSUME NEW T, NEW text \in Seq(T), NEW k \in 0 .. Len(text), NEW part \in Seq(T),
           k + Len(part) <= Len(text), \A i \in 1 .. Len(part) : part[i] = text[k + i]
    PROVE  WrittenAt(SubSeq(text, 1, k), k, part) = SubSeq(text, 1, k + Len(part))
<1> DEFINE file == SubSeq(text, 1, k)
           n == k + Len(part)
           written == WrittenAt(file, k, part)
<1>1. k \in Nat /\ k <= Len(text) /\ Len(text) \in Nat
  OBVIOUS
<1>2. /\ Len(part) \in Nat /\ n <= Len(text)
      /\ \A i \in 1 .. Len(part) : part[i] = text[k + i]
  OBVIOUS
<1>3. /\ Len(file) = k /\ \A i \in 1 .. k : file[i] = text[i]
  <2>1. \A i \in 1 .. k : text[i] \in T
    BY <1>1
  <2>2. /\ Len(file) = IF 1 <= k THEN k - 1 + 1 ELSE 0
        /\ \A i \in 1 .. (k - 1 + 1) : file[i] = text[1 + i - 1]
    BY <1>1, <2>1, SubSeqProperties
  <2> HIDE DEF file
  <2>3. \A i \in 1 .. k : i \in 1 .. (k - 1 + 1) /\ 1 + i - 1 = i
    BY <1>1
  <2> QED
    BY <1>1, <2>2, <2>3
<1> HIDE DEF file
<1> DEFINE item(i) == IF i > k /\ i <= k + Len(part) THEN part[i - k]
                      ELSE IF i <= Len(file) THEN file[i] ELSE Hole
<1>4. Max({k + Len(part), Len(file)}) = n /\ n \in Nat
  <2>1. k + Len(part) \in Nat /\ k + Len(part) >= k
    BY <1>1, <1>2
  <2> QED
    BY <1>1, <1>3, <2>1, MaxMin
<1>5. written = [i \in 1 .. n |-> item(i)]
  BY <1>4 DEF WrittenAt
<1> HIDE DEF written
<1>6. ASSUME NEW i \in 1 .. n PROVE item(i) = text[i]
  <2>1. CASE i > k
    <3>1. i - k \in 1 .. Len(part) /\ k + (i - k) = i
      BY <1>1, <1>2, <2>1
    <3>2. part[i - k] = text[i]
      BY <1>2, <3>1
    <3> QED
      BY <1>1, <1>2, <2>1, <3>2
  <2>2. CASE ~(i > k)
    <3>1. i \in 1 .. k
      BY <1>1, <1>2, <2>2
    <3> QED
      BY <1>1, <1>3, <2>2, <3>1
  <2> QED
    BY <2>1, <2>2
<1>7. \A i \in 1 .. n : text[i] \in T
  BY <1>1, <1>2
<1> HIDE DEF item
<1>8. written \in Seq(T) /\ Len(written) = n /\ \A i \in 1 .. n : written[i] = text[i]
  <2>1. written = [i \in 1 .. n |-> text[i]]
    BY <1>5, <1>6
  <2> HIDE DEF n
  <2> QED
    BY <1>4, <1>7, <2>1
<1>9. n \in 0 .. Len(text)
  BY <1>1, <1>2, <1>4
<1> HIDE DEF n
<1>10. written = SubSeq(text, 1, n)
  BY <1>1, <1>8, <1>9, Beginning
<1> QED
  BY <1>10 DEF written, file, n

\* So does a write of the next chunk of a text.
LEMMA WriteGrows ==
    ASSUME NEW text \in Text, NEW k \in 0 .. Len(text)
    PROVE  LET part == NextChunk(text, k)
           IN  WrittenAt(SubSeq(text, 1, k), k, part) = SubSeq(text, 1, k + Len(part))
<1> DEFINE part == NextChunk(text, k)
           T == Line \cup Range(OldText)
<1>1. text \in Seq(T) /\ k \in Nat /\ k <= Len(text)
  <2>1. text \in Seq(T)
    BY DEF Text
  <2> QED
    BY <2>1
<1> HIDE DEF T
<1>2. /\ part \in Seq(T) /\ k + Len(part) <= Len(text)
      /\ \A i \in 1 .. Len(part) : part[i] = text[k + i]
  BY <1>1, ChunkFacts
<1> HIDE DEF part
<1>3. WrittenAt(SubSeq(text, 1, k), k, part) = SubSeq(text, 1, k + Len(part))
  BY <1>1, <1>2, WriteContinues
<1> QED
  BY <1>3 DEF part

\* What an update's file holds stays, as long as nobody writes it.
LEMMA TempStays ==
    ASSUME NEW u \in Updater, TempHolds(u), stage'[u] = stage[u],
           work'[u].files = work[u].files, work'[u].sent = work[u].sent,
           stage[u] \in {"write", "rename"} =>
               dir'.temp[u] = dir.temp[u] /\ content'[dir.temp[u]] = content[dir.temp[u]]
    PROVE  TempHolds(u)'
<1>1. NewText(u)' = NewText(u)
  BY DEF NewText
<1> QED
  BY <1>1 DEF TempHolds

\* An update at a stage without a file to replace the registry with.
LEMMA TempIdle ==
    ASSUME NEW u \in Updater, stage'[u] \notin {"open", "write", "rename"}
    PROVE  TempHolds(u)'
  BY DEF TempHolds

\* The names the registry may have in the directory all had it before.
SameRegistries == \A d \in dirOnDisk' : \E e \in dirOnDisk : e.dest = d.dest

\* A registry file that is whole stays so: nobody writes it.
LEMMA RegistryStays ==
    ASSUME UpdateInv, RegistryWhole, Next, SameRegistries
    PROVE  RegistryWhole'
<1> SUFFICES ASSUME NEW d \in dirOnDisk', d.dest # None
             PROVE  content'[d.dest] \in Text /\ WholeText(content'[d.dest])
  BY DEF RegistryWhole
<1>1. PICK e \in dirOnDisk : e.dest = d.dest
  BY DEF SameRegistries
<1>2. e.dest \in Inode
  BY <1>1 DEF UpdateInv, FilesTyped, Directory
<1>3. content'[e.dest] = content[e.dest]
  BY <1>1, <1>2, ExposedStay DEF Exposed
<1> QED
  BY <1>1, <1>3 DEF RegistryWhole

\* The file a scan reads is one the registry had.
LEMMA OpenedFile ==
    ASSUME UpdateInv, TextInv, NEW r \in Reader, load[r].stage = "reading"
    PROVE  /\ load[r].inode \in Inode
           /\ content[load[r].inode] \in Text /\ WholeText(content[load[r].inode])
           /\ Exposed(load[r].inode)
<1>1. PICK d \in dirOnDisk : d.dest = load[r].inode /\ d.dest # None
  BY DEF UpdateInv, ReadersApart
<1>2. d.dest \in Inode
  BY <1>1 DEF UpdateInv, FilesTyped, Directory
<1> QED
  BY <1>1, <1>2 DEF TextInv, RegistryWhole, Exposed

\* A scan that does nothing keeps what it has: nobody writes the file it has open.
LEMMA ReadersStay ==
    ASSUME UpdateInv, TextInv, Next, UNCHANGED scans
    PROVE  (\A r \in Reader : ReaderFollows(r))' /\ (got = [r \in Reader |-> got[r]])'
<1>1. ASSUME NEW r \in Reader PROVE ReaderFollows(r)'
  <2>1. load[r].stage = "reading" => content'[load[r].inode] = content[load[r].inode]
    BY OpenedFile, ExposedStay
  <2> QED
    BY <2>1 DEF scans, TextInv, ReaderFollows
<1> QED
  BY <1>1 DEF scans, TextInv

\* A step of one update that leaves the registry's names, and the other updates'
\* files, alone keeps every text, when it keeps that of the update itself.
LEMMA TextsStay ==
    ASSUME UpdateInv, TextInv, Next, NEW u \in Updater, UNCHANGED scans, SameRegistries,
           TempHolds(u)',
           \A v \in Updater \ {u} :
              /\ stage'[v] = stage[v]
              /\ work'[v].files = work[v].files /\ work'[v].sent = work[v].sent
              /\ stage[v] \in {"write", "rename"} =>
                    dir'.temp[v] = dir.temp[v] /\ content'[dir.temp[v]] = content[dir.temp[v]]
    PROVE  TextInv'
<1>1. \A v \in Updater : TempHolds(v)'
  <2> SUFFICES ASSUME NEW v \in Updater, v # u PROVE TempHolds(v)'
    OBVIOUS
  <2>1. TempHolds(v)
    BY DEF TextInv
  <2> QED
    BY <2>1, TempStays
<1>2. RegistryWhole'
  BY RegistryStays DEF TextInv
<1> QED
  BY <1>1, <1>2, ReadersStay DEF TextInv

\* A step of one update that touches no file.
LEMMA QuietTexts ==
    ASSUME UpdateInv, TextInv, Next, NEW u \in Updater, UNCHANGED <<registryFiles, scans>>,
           TempHolds(u)',
           \A v \in Updater \ {u} :
              stage'[v] = stage[v] /\ work'[v].files = work[v].files /\ work'[v].sent = work[v].sent
    PROVE  TextInv'
<1>1. dirOnDisk' = dirOnDisk /\ dir' = dir /\ content' = content
  BY DEF registryFiles
<1>2. SameRegistries
  BY <1>1 DEF SameRegistries
<1> QED
  BY <1>1, <1>2, TextsStay

\* The same, of a step that changes only that update's stage and work.
LEMMA QuietUpdate ==
    ASSUME UpdateInv, TextInv, WorkInv, Next, NEW u \in Updater, NEW next, NEW w,
           UNCHANGED <<registryFiles, scans>>, TempHolds(u)',
           stage' = [stage EXCEPT ![u] = next] \/ stage' = stage,
           work' = [work EXCEPT ![u] = w] \/ work' = work
    PROVE  TextInv'
<1>1. \A v \in Updater \ {u} : stage'[v] = stage[v] /\ work'[v] = work[v]
  BY DEF UpdateInv, FilesTyped, WorkInv
<1> QED
  BY <1>1, QuietTexts

\* Converted listings are a whole text, to be written from its beginning.
LEMMA ConvertTexts ==
    ASSUME UpdateInv, TextInv, WorkInv, Next, NEW u \in Updater, ConvertListings(u)
    PROVE  TextInv'
<1>1. NewText(u) \in Text /\ WholeText(NewText(u))
  BY NewTextWhole DEF ConvertListings
<1>2. stage' = [stage EXCEPT ![u] = "open"] /\ work' = work
  BY DEF ConvertListings, GoesTo
<1>3. NewText(u)' = NewText(u) /\ stage'[u] = "open"
  BY <1>2 DEF NewText, UpdateInv, FilesTyped
<1>4. TempHolds(u)'
  BY <1>1, <1>3 DEF TempHolds
<1> QED
  BY <1>2, <1>4, QuietUpdate DEF ConvertListings

\* Opened, the temporary file is empty.
LEMMA OpenTexts ==
    ASSUME UpdateInv, TextInv, WorkInv, Next, NEW u \in Updater, OpenTemp(u)
    PROVE  TextInv'
<1> DEFINE i == TempInode(u)
           new == [dir EXCEPT !.temp = [@ EXCEPT ![u] = i]]
<1>1. /\ i \in Inode /\ i # None
      /\ \A v \in Updater \ {u} : dir.temp[v] # i
  BY TempInodeApart DEF OpenTemp
<1>2. /\ work' = work /\ UNCHANGED scans
      /\ stage' = [stage EXCEPT ![u] = "write"] /\ stage[u] = "open"
      /\ content' = [content EXCEPT ![i] = <<>>]
      /\ dir' = new /\ dirOnDisk' = dirOnDisk \cup {new}
  BY DEF OpenTemp, GoesTo, Renamed
<1>3. /\ dir \in dirOnDisk /\ new.dest = dir.dest
      /\ \A v \in Updater : new.temp[v] = IF v = u THEN i ELSE dir.temp[v]
  <2>1. dir \in dirOnDisk /\ dir \in Directory
    BY DEF UpdateInv, FilesTyped
  <2> QED
    BY <1>1, <2>1 DEF Directory
<1> HIDE DEF i, new
<1>4. /\ \A v \in Updater : stage'[v] = IF v = u THEN "write" ELSE stage[v]
      /\ \A j \in Inode : content'[j] = IF j = i THEN <<>> ELSE content[j]
  BY <1>2 DEF UpdateInv, FilesTyped
<1>5. SameRegistries
  BY <1>2, <1>3 DEF SameRegistries
<1>6. TempHolds(u)'
  <2>1. NewText(u)' = NewText(u) /\ NewText(u) \in Text /\ WholeText(NewText(u))
    BY <1>2 DEF NewText, TextInv, TempHolds
  <2>2. work'[u].sent = 0
    BY <1>2 DEF WorkInv, HasCollected
  <2>3. content'[dir'.temp[u]] = <<>>
    BY <1>1, <1>2, <1>3, <1>4
  <2>4. Len(NewText(u)) \in Nat /\ SubSeq(NewText(u), 1, 0) = <<>>
    BY <2>1, SubSeqEmpty DEF Text
  <2> QED
    BY <1>4, <2>1, <2>2, <2>3, <2>4 DEF TempHolds
<1>7. ASSUME NEW v \in Updater \ {u}, stage[v] \in {"write", "rename"}
      PROVE  dir'.temp[v] = dir.temp[v] /\ content'[dir.temp[v]] = content[dir.temp[v]]
  <2>1. dir.temp[v] \in Inode
    <3>1. dir.temp[v] # None
      BY <1>7 DEF UpdateInv, TempsReady
    <3> QED
      BY <3>1 DEF UpdateInv, FilesTyped, Directory
  <2> QED
    BY <1>1, <1>2, <1>3, <1>4, <2>1
<1> QED
  BY <1>2, <1>4, <1>5, <1>6, <1>7, TextsStay

\* A write adds the next chunk to the file of the update, and to no other.
LEMMA WriteTexts ==
    ASSUME UpdateInv, TextInv, WorkInv, Next, NEW u \in Updater, WriteTemp(u)
    PROVE  TextInv'
<1> DEFINE k == work[u].sent
           text == NewText(u)
           part == NextChunk(text, k)
           i == dir.temp[u]
           w == [work[u] EXCEPT !.sent = k + Len(part)]
<1>1. /\ stage[u] = "write" /\ text \in Text /\ WholeText(text)
      /\ k <= Len(text) /\ content[i] = SubSeq(text, 1, k) /\ k \in Nat
  BY DEF WriteTemp, TextInv, TempHolds, WorkInv, IsWork
<1>2. /\ content' = [content EXCEPT ![i] = WrittenAt(@, k, part)]
      /\ work' = [work EXCEPT ![u].sent = k + Len(part)]
      /\ UNCHANGED <<stage, dir, dirOnDisk>> /\ UNCHANGED scans
  BY DEF WriteTemp
<1>3. i \in Inode /\ \A v \in Updater \ {u} : dir.temp[v] # i
  <2>1. i # None /\ dir \in dirOnDisk /\ dir \in Directory
    BY <1>1 DEF UpdateInv, TempsReady, FilesTyped
  <2> QED
    BY <2>1 DEF UpdateInv, DirectoriesProper, Directory
<1>4. k \in 0 .. Len(text) /\ k + Len(part) <= Len(text) /\ Len(part) \in Nat
  BY <1>1, ChunkFacts DEF Text
<1>5. WrittenAt(SubSeq(text, 1, k), k, part) = SubSeq(text, 1, k + Len(part))
  BY <1>1, <1>4, WriteGrows
<1>6. content'[i] = SubSeq(text, 1, k + Len(part))
  BY <1>1, <1>2, <1>3, <1>5 DEF UpdateInv, FilesTyped
<1>7. /\ work' = [work EXCEPT ![u] = w] /\ work'[u] = w
      /\ w.files = work[u].files /\ w.sent = k + Len(part)
  <2>1. DOMAIN work[u] = WorkFields /\ DOMAIN work = Updater
    BY DEF WorkInv, IsWork
  <2> HIDE DEF k, part
  <2> QED
    BY <1>2, <2>1 DEF WorkFields
<1> HIDE DEF w
<1>8. TempHolds(u)'
  <2>1. NewText(u)' = text
    BY <1>7 DEF NewText
  <2> HIDE DEF text, part, k
  <2> QED
    BY <1>1, <1>2, <1>4, <1>6, <1>7, <2>1 DEF TempHolds
<1>9. SameRegistries
  BY <1>2 DEF SameRegistries
<1>10. ASSUME NEW v \in Updater \ {u}
       PROVE  /\ stage'[v] = stage[v] /\ work'[v] = work[v]
              /\ stage[v] \in {"write", "rename"} =>
                    dir'.temp[v] = dir.temp[v] /\ content'[dir.temp[v]] = content[dir.temp[v]]
  <2>1. work'[v] = work[v]
    BY <1>7 DEF WorkInv
  <2>2. ASSUME stage[v] \in {"write", "rename"} PROVE content'[dir.temp[v]] = content[dir.temp[v]]
    <3>1. dir.temp[v] # None
      BY <2>2 DEF UpdateInv, TempsReady
    <3>2. dir.temp[v] \in Inode
      BY <3>1 DEF UpdateInv, FilesTyped, Directory
    <3> QED
      BY <1>2, <1>3, <3>2 DEF UpdateInv, FilesTyped
  <2> QED
    BY <1>2, <2>1, <2>2
<1> QED
  BY <1>2, <1>8, <1>9, <1>10, TextsStay

\* Synced when everything is written, the file holds the new text.
LEMMA SyncTexts ==
    ASSUME UpdateInv, TextInv, WorkInv, Next, NEW u \in Updater, SyncTemp(u)
    PROVE  TextInv'
<1>1. /\ stage[u] = "write" /\ NewText(u) \in Text /\ WholeText(NewText(u))
      /\ content[dir.temp[u]] = SubSeq(NewText(u), 1, Len(NewText(u)))
  BY DEF SyncTemp, TextInv, TempHolds
<1>2. content[dir.temp[u]] = NewText(u)
  BY <1>1, SubSeqFull DEF Text
<1>3. /\ stage' = [stage EXCEPT ![u] = "rename"] /\ UNCHANGED <<work, content, dir, dirOnDisk>>
      /\ UNCHANGED scans
  BY DEF SyncTemp, GoesTo
<1>4. \A v \in Updater : stage'[v] = IF v = u THEN "rename" ELSE stage[v]
  BY <1>3 DEF UpdateInv, FilesTyped
<1>5. TempHolds(u)'
  <2>1. NewText(u)' = NewText(u)
    BY <1>3 DEF NewText
  <2> QED
    BY <1>1, <1>2, <1>3, <1>4, <2>1 DEF TempHolds
<1>6. SameRegistries
  BY <1>3 DEF SameRegistries
<1> QED
  BY <1>3, <1>4, <1>5, <1>6, TextsStay

\* Renamed, the file of the update is the registry, and whole.
LEMMA RenameTexts ==
    ASSUME UpdateInv, TextInv, WorkInv, Next, NEW u \in Updater, RenameTemp(u)
    PROVE  TextInv'
<1> DEFINE i == dir.temp[u]
           new == [dest |-> i, temp |-> [dir.temp EXCEPT ![u] = None]]
<1>1. /\ stage[u] = "rename" /\ content[i] \in Text /\ WholeText(content[i])
  BY DEF RenameTemp, TextInv, TempHolds
<1>2. /\ stage' = [stage EXCEPT ![u] = "summary"] /\ work' = [work EXCEPT ![u] = NoWork]
      /\ UNCHANGED <<content, load, got>> /\ dir' = new /\ dirOnDisk' = dirOnDisk \cup {new}
  BY DEF RenameTemp, EndsAs, GoesTo, Renamed, scans
<1>3. dir \in Directory /\ new.dest = i
      /\ \A v \in Updater : new.temp[v] = IF v = u THEN None ELSE dir.temp[v]
  BY DEF UpdateInv, FilesTyped, Directory
<1> HIDE DEF new
<1>4. /\ \A v \in Updater : stage'[v] = IF v = u THEN "summary" ELSE stage[v]
      /\ \A v \in Updater \ {u} : work'[v] = work[v]
  BY <1>2 DEF UpdateInv, FilesTyped, WorkInv
<1>5. \A v \in Updater : TempHolds(v)'
  <2> SUFFICES ASSUME NEW v \in Updater PROVE TempHolds(v)'
    OBVIOUS
  <2>1. CASE v = u
    BY <1>4, <2>1, TempIdle
  <2>2. CASE v # u
    <3>1. TempHolds(v)
      BY DEF TextInv
    <3> QED
      BY <1>2, <1>3, <1>4, <2>2, <3>1, TempStays
  <2> QED
    BY <2>1, <2>2
<1>6. RegistryWhole'
  BY <1>1, <1>2, <1>3 DEF RegistryWhole, TextInv
<1>7. UNCHANGED scans
  BY <1>2 DEF scans
<1> QED
  BY <1>5, <1>6, <1>7, ReadersStay DEF TextInv

\* Whether the temporary file goes or not, the registry keeps its name.
LEMMA DiscardTexts ==
    ASSUME UpdateInv, TextInv, WorkInv, Next, NEW u \in Updater, DiscardTemp(u)
    PROVE  TextInv'
<1> DEFINE new == [dir EXCEPT !.temp = [@ EXCEPT ![u] = None]]
<1>1. /\ stage' = [stage EXCEPT ![u] = "failed"] /\ work' = [work EXCEPT ![u] = NoWork]
      /\ content' = content /\ UNCHANGED scans
      /\ \/ dir' = new /\ dirOnDisk' = dirOnDisk \cup {new}
         \/ dir' = dir /\ dirOnDisk' = dirOnDisk
  BY DEF DiscardTemp, EndsAs, GoesTo, Renamed
<1>2. dir \in dirOnDisk /\ new.dest = dir.dest
      /\ \A v \in Updater \ {u} : new.temp[v] = dir.temp[v]
  <2>1. dir \in dirOnDisk /\ dir \in Directory
    BY DEF UpdateInv, FilesTyped
  <2> QED
    BY <2>1 DEF Directory
<1> HIDE DEF new
<1>3. SameRegistries
  BY <1>1, <1>2 DEF SameRegistries
<1>4. /\ stage'[u] = "failed"
      /\ \A v \in Updater \ {u} : stage'[v] = stage[v] /\ work'[v] = work[v]
  BY <1>1 DEF UpdateInv, FilesTyped, WorkInv
<1>5. TempHolds(u)'
  BY <1>4, TempIdle
<1> QED
  BY <1>1, <1>2, <1>3, <1>4, <1>5, TextsStay

\* An update begins without a file.
LEMMA StartTexts ==
    ASSUME UpdateInv, TextInv, WorkInv, Next, NEW u \in Updater, NEW first \in {"curl", "read"},
           NEW task, NEW rivals, Starts(u, first, task, rivals)
    PROVE  TextInv'
<1> DEFINE w(v) == [work[v] EXCEPT !.alone = FALSE]
<1>1. /\ stage' = [stage EXCEPT ![u] = first] /\ UNCHANGED <<registryFiles, scans>>
      /\ \A v \in Updater \ {u} : work'[v] = IF v \in rivals THEN w(v) ELSE work[v]
  BY DEF Starts
<1>2. \A v \in Updater : w(v).files = work[v].files /\ w(v).sent = work[v].sent
  <2> SUFFICES ASSUME NEW v \in Updater PROVE w(v).files = work[v].files /\ w(v).sent = work[v].sent
    OBVIOUS
  <2>1. w(v) = [x \in DOMAIN work[v] |-> IF x = "alone" THEN FALSE ELSE work[v][x]]
    BY Zenon
  <2>2. DOMAIN work[v] = WorkFields
    BY DEF WorkInv, IsWork
  <2> HIDE DEF w
  <2> QED
    BY <2>1, <2>2 DEF WorkFields
<1> HIDE DEF w
<1>3. stage'[u] = first /\ \A v \in Updater \ {u} : stage'[v] = stage[v]
  BY <1>1 DEF UpdateInv, FilesTyped
<1>4. TempHolds(u)'
  BY <1>3, TempIdle
<1>5. \A v \in Updater \ {u} : work'[v].files = work[v].files /\ work'[v].sent = work[v].sent
  BY <1>1, <1>2
<1> QED
  BY <1>1, <1>3, <1>4, <1>5, QuietTexts

\* A scan opens the registry, reads on in it, or is done.
LEMMA LoadTexts ==
    ASSUME UpdateInv, TextInv, Next, NEW r \in Reader, LoadStep(r)
    PROVE  TextInv'
<1>1. UNCHANGED <<stage, work, content, dir, dirOnDisk>>
  BY DEF LoadStep, LoadFindsNone, LoadOpens, LoadReads, LoadEnds, updates, registryFiles
<1>2. \A u \in Updater : TempHolds(u)'
  BY <1>1, TempStays DEF TextInv
<1>3. RegistryWhole'
  BY <1>1 DEF TextInv, RegistryWhole
<1>4. load \in [Reader -> [stage : LoadStage, inode : Inode \cup {None}]] /\ got = [q \in Reader |-> got[q]]
  BY DEF UpdateInv, FilesTyped, TextInv
<1>5. /\ got' = [q \in Reader |-> got'[q]]
      /\ \A q \in Reader \ {r} : load'[q] = load[q] /\ got'[q] = got[q]
  BY <1>4 DEF LoadStep, LoadFindsNone, LoadOpens, LoadReads, LoadEnds
<1>6. \A q \in Reader : ReaderFollows(q)
  BY DEF TextInv
<1>7. ReaderFollows(r)'
  <2>1. CASE LoadFindsNone(r) \/ LoadOpens(r)
    <3>1. got' = got /\ got[r] = <<>> /\ load'[r].stage \in {"noRegistry", "reading"} /\ content' = content
      BY <1>1, <1>4, <1>6, <2>1 DEF LoadFindsNone, LoadOpens, ReaderFollows
    <3>2. CASE LoadFindsNone(r)
      <4>1. load'[r].stage = "noRegistry"
        BY <1>4, <3>2 DEF LoadFindsNone
      <4> QED
        BY <1>6, <3>1, <4>1 DEF ReaderFollows
    <3>3. CASE LoadOpens(r)
      <4>1. load'[r].stage = "reading" /\ load'[r].inode = dir.dest /\ dir.dest # None
        BY <1>4, <3>3 DEF LoadOpens
      <4>2. content[dir.dest] \in Text
        BY <4>1 DEF UpdateInv, FilesTyped, TextInv, RegistryWhole
      <4>3. SubSeq(content[dir.dest], 1, 0) = <<>> /\ Len(content[dir.dest]) \in Nat
        BY <4>2, SubSeqEmpty DEF Text
      <4> QED
        BY <1>6, <3>1, <4>1, <4>3 DEF ReaderFollows
    <3> QED
      BY <2>1, <3>2, <3>3
  <2>2. CASE LoadReads(r)
    <3> DEFINE text == content[load[r].inode]
               k == Len(got[r])
               part == NextChunk(text, k)
               T == Line \cup Range(OldText)
    <3>1. text \in Seq(T) /\ load[r].stage = "reading"
      BY <2>2, OpenedFile DEF LoadReads, Text
    <3>2. k <= Len(text) /\ got[r] = SubSeq(text, 1, k) /\ got[r] \in Seq(T)
      BY <1>6, <3>1 DEF ReaderFollows, Text
    <3>3. k \in Nat /\ Len(text) \in Nat /\ k \in 0 .. Len(text)
      BY <3>1, <3>2
    <3>4. got'[r] = got[r] \o part /\ load' = load
      BY <1>4, <2>2 DEF LoadReads
    <3> DEFINE longer == got[r] \o part
    <3> HIDE DEF T
    <3>5. /\ part \in Seq(T) /\ Len(part) \in Nat /\ k + Len(part) <= Len(text)
          /\ \A i \in 1 .. Len(part) : part[i] = text[k + i]
      BY <3>1, <3>2, <3>3, ChunkFacts
    <3> HIDE DEF part
    <3>6. /\ longer \in Seq(T) /\ Len(longer) = k + Len(part)
          /\ \A i \in 1 .. (k + Len(part)) : longer[i] = IF i <= k THEN got[r][i] ELSE part[i - k]
      BY <3>2, <3>5, ConcatProperties
    <3>7. \A i \in 1 .. (k + Len(part)) : longer[i] = text[i]
      <4> TAKE i \in 1 .. (k + Len(part))
      <4>1. CASE i <= k
        <5>1. i \in 1 .. k
          BY <3>3, <4>1
        <5>2. SubSeq(text, 1, k)[i] = text[i]
          <6> HIDE DEF text, k
          <6> QED
            BY <3>1, <3>3, <5>1
        <5> QED
          BY <3>2, <3>6, <4>1, <5>2
      <4>2. CASE ~(i <= k)
        <5>1. i - k \in 1 .. Len(part) /\ k + (i - k) = i
          BY <3>3, <3>5, <4>2
        <5> QED
          BY <3>5, <3>6, <4>2, <5>1
      <4> QED
        BY <4>1, <4>2
    <3>8. k + Len(part) \in 0 .. Len(text)
      BY <3>3, <3>5
    <3> HIDE DEF longer
    <3>9. longer = SubSeq(text, 1, k + Len(part))
      <4> HIDE DEF text, k
      <4> QED
        BY <3>1, <3>6, <3>7, <3>8, Beginning
    <3>10. got'[r] = longer /\ got'[r] \in Text
      BY <3>4, <3>6 DEF longer, T, Text
    <3>11. load'[r] = load[r] /\ content'[load[r].inode] = text
      BY <1>1, <3>4
    <3> HIDE DEF text, k
    <3> QED
      BY <3>1, <3>5, <3>6, <3>9, <3>10, <3>11 DEF ReaderFollows
  <2>3. CASE LoadEnds(r)
    <3>1. got' = got /\ load'[r].stage \in {"loaded", "refused"}
      BY <1>4, <2>3 DEF LoadEnds
    <3> QED
      BY <1>6, <3>1 DEF ReaderFollows
  <2> QED
    BY <2>1, <2>2, <2>3 DEF LoadStep
<1>8. \A q \in Reader : ReaderFollows(q)'
  <2> SUFFICES ASSUME NEW q \in Reader, q # r PROVE ReaderFollows(q)'
    BY <1>7
  <2>1. load'[q] = load[q] /\ got'[q] = got[q] /\ content' = content /\ ReaderFollows(q)
    BY <1>1, <1>5, <1>6
  <2> QED
    BY <2>1 DEF ReaderFollows
<1> QED
  BY <1>2, <1>3, <1>5, <1>8 DEF TextInv

\* Everyone starts anew on a registry that is as it was.
LEMMA PowerLossTexts ==
    ASSUME UpdateInv, TextInv, Next, PowerLoss
    PROVE  TextInv'
<1>1. \A u \in Updater : TempHolds(u)'
  BY TempIdle DEF PowerLoss
<1>2. SameRegistries
  BY DEF PowerLoss, SameRegistries
<1>3. RegistryWhole'
  BY <1>2, RegistryStays DEF TextInv
<1>4. \A r \in Reader : ReaderFollows(r)'
  <2>1. <<>> \in Text
    BY DEF Text
  <2> QED
    BY <2>1 DEF PowerLoss, ReaderFollows
<1>5. got' = [r \in Reader |-> got'[r]]
  BY DEF PowerLoss
<1> QED
  BY <1>1, <1>3, <1>4, <1>5 DEF TextInv
-----------------------------------------------------------------------------
\* A step that ends an update, or takes it on with what it has.
LEMMA WorkStep ==
    ASSUME UpdateInv, WorkInv, TextInv, NEW u \in Updater, UpdateStep(u)
    PROVE  WorkInv'
<1>0. FilesTyped
  BY DEF UpdateInv
<1>1. CASE StartOnline(u)
  <2> DEFINE rivals == {v \in Updater \ {u} : stage[v] \in Collecting /\ ~work[v].offline}
  <2>1. Starts(u, "curl", NoWork, rivals)
    BY <1>1 DEF StartOnline
  <2> HIDE DEF rivals
  <2>2. IsWork(NoWork) /\ HasCollected(NoWork, "curl")
    BY NoWorkIsWork
  <2> QED
    BY <1>0, <2>1, <2>2, StartsWork
<1>2. ASSUME NEW listings \in Directories, StartOffline(u, listings) PROVE WorkInv'
  <2> DEFINE t == [NoWork EXCEPT !.offline = TRUE, !.documents = listings]
  <2>1. Starts(u, "read", t, {})
    BY <1>2 DEF StartOffline
  <2>2. IsWork(t) /\ HasCollected(t, "read")
    BY OfflineTask
  <2> HIDE DEF t
  <2> QED
    BY <1>0, <2>1, <2>2, StartsWork
<1>3. CASE \E rows \in Served(u) : CurlOpens(u, rows)
  BY <1>3, CurlOpensWork
<1>4. CASE CurlWrites(u)
  BY <1>0, <1>4, CurlWritesWork
<1>5. CASE CurlDone(u)
  BY <1>0, <1>5, CurlDoneWork
<1>6. CASE ReadListing(u)
  BY <1>0, <1>6, ReadListingWork
<1>7. CASE CurlFails(u) \/ ReadFails(u) \/ ConversionRefused(u) \/ DiscardTemp(u)
           \/ WriteSummary(u) \/ Crash(u) \/ RenameTemp(u)
  <2>1. \E end \in Ended \cup {"summary"} : EndsAs(u, end)
    BY <1>7 DEF CurlFails, ReadFails, ConversionRefused, DiscardTemp, WriteSummary, Crash,
                RenameTemp, Ended
  <2>2. UNCHANGED csv
    BY <1>7 DEF CurlFails, ReadFails, ConversionRefused, DiscardTemp, WriteSummary, Crash, RenameTemp
  <2> QED
    BY <1>0, <2>1, <2>2, WorkEnds
<1>8. CASE ConvertListings(u) \/ OpenTemp(u) \/ SyncTemp(u) \/ ReplaceFails(u)
  <2>1. UNCHANGED <<work, csv>>
    BY <1>8 DEF ConvertListings, OpenTemp, SyncTemp, ReplaceFails
  <2>2. \E next \in {"open", "write", "rename", "discard"} :
            GoesTo(u, next) /\ HasCollected(work[u], next)
    <3>1. HasCollected(work[u], stage[u])
      BY DEF WorkInv
    <3>2. CASE ConvertListings(u)
      <4>1. GoesTo(u, "open") /\ stage[u] = "convert"
        BY <3>2 DEF ConvertListings
      <4> QED
        BY <3>1, <4>1 DEF HasCollected, Fetching
    <3>3. CASE OpenTemp(u)
      <4>1. GoesTo(u, "write") /\ stage[u] = "open"
        BY <3>3 DEF OpenTemp
      <4> QED
        BY <3>1, <4>1 DEF HasCollected, Fetching
    <3>4. CASE SyncTemp(u)
      <4>1. GoesTo(u, "rename") /\ stage[u] = "write"
        BY <3>4 DEF SyncTemp
      <4> QED
        BY <3>1, <4>1 DEF HasCollected, Fetching
    <3>5. CASE ReplaceFails(u)
      <4>1. GoesTo(u, "discard")
        BY <3>5 DEF ReplaceFails
      <4> QED
        BY <4>1 DEF HasCollected, Fetching
    <3> QED
      BY <1>8, <3>2, <3>3, <3>4, <3>5
  <2> QED
    BY <1>0, <2>1, <2>2, WorkKept
<1>9. CASE WriteTemp(u)
  <2>1. /\ NewText(u) \in Seq(Line \cup Range(OldText))
        /\ work[u].sent \in Nat /\ work[u].sent <= Len(NewText(u))
    BY <1>9 DEF WriteTemp, TextInv, TempHolds, Text, WorkInv, IsWork
  <2>2. Len(NextChunk(NewText(u), work[u].sent)) \in Nat
    BY <2>1, ChunkFacts
  <2> QED
    BY <1>0, <1>9, <2>2, WriteTempWork
<1> QED
  BY <1>1, <1>2, <1>3, <1>4, <1>5, <1>6, <1>7, <1>8, <1>9 DEF UpdateStep

\* Every step leaves an update with as much as its stage says.
LEMMA WorkNext == UpdateInv /\ WorkInv /\ TextInv /\ [Next]_vars => WorkInv'
<1> SUFFICES ASSUME UpdateInv, WorkInv, TextInv, [Next]_vars PROVE WorkInv'
  OBVIOUS
<1>1. CASE \E r \in Reader : LoadStep(r)
  <2>1. UNCHANGED <<stage, work, csv>>
    BY <1>1 DEF LoadStep, LoadFindsNone, LoadOpens, LoadReads, LoadEnds, updates
  <2> QED
    BY <2>1 DEF WorkInv, Here
<1>2. CASE PowerLoss
  <2>1. /\ csv' = csv /\ work' = [u \in Updater |-> NoWork]
        /\ \A u \in Updater : stage'[u] = "away" /\ work'[u] = NoWork
    BY <1>2 DEF PowerLoss
  <2> QED
    BY <2>1, NoWorkIsWork DEF WorkInv, Ended
<1>3. CASE UNCHANGED vars
  <2>1. UNCHANGED <<stage, work, csv>>
    BY <1>3 DEF vars, updates
  <2> QED
    BY <2>1 DEF WorkInv, Here
<1> QED
  BY <1>1, <1>2, <1>3, WorkStep DEF Next

\* Every step leaves the registry, what is to replace it, and what scans have read whole.
LEMMA TextNext == UpdateInv /\ WorkInv /\ TextInv /\ [Next]_vars => TextInv'
<1> SUFFICES ASSUME UpdateInv, WorkInv, TextInv, [Next]_vars PROVE TextInv'
  OBVIOUS
<1>1. ASSUME NEW u \in Updater, UpdateStep(u), Next PROVE TextInv'
  <2>1. CASE StartOnline(u) \/ \E listings \in Directories : StartOffline(u, listings)
    BY <1>1, <2>1, StartTexts DEF StartOnline, StartOffline
  <2>2. CASE \/ \E rows \in Served(u) : CurlOpens(u, rows)
             \/ CurlWrites(u) \/ CurlDone(u) \/ CurlFails(u) \/ ReadListing(u) \/ ReadFails(u)
             \/ ConversionRefused(u) \/ ReplaceFails(u) \/ WriteSummary(u) \/ Crash(u)
    <3>1. UNCHANGED <<registryFiles, scans>>
      BY <2>2 DEF CurlOpens, CurlWrites, CurlDone, CurlFails, ReadListing, ReadFails,
                  ConversionRefused, ReplaceFails, WriteSummary, Crash
    <3>2. \/ \E next \in Stage \ {"open", "write", "rename"} : stage' = [stage EXCEPT ![u] = next]
          \/ stage' = stage /\ stage[u] = "curling"
      BY <2>2 DEF CurlOpens, CurlWrites, CurlDone, CurlFails, ReadListing, ReadFails, Looped,
                  ConversionRefused, ReplaceFails, WriteSummary, Crash, EndsAs, GoesTo,
                  Stage, Working, Collecting, Fetching, Ended
    <3>3. (\E w : work' = [work EXCEPT ![u] = w]) \/ work' = work
      BY <2>2 DEF CurlOpens, CurlWrites, CurlDone, CurlFails, ReadListing, ReadFails, Looped,
                  ConversionRefused, ReplaceFails, WriteSummary, Crash, EndsAs
    <3>4. stage'[u] \notin {"open", "write", "rename"}
      BY <3>2 DEF UpdateInv, FilesTyped
    <3>5. TempHolds(u)'
      BY <3>4, TempIdle
    <3>6. \A v \in Updater \ {u} : stage'[v] = stage[v] /\ work'[v] = work[v]
      BY <3>2, <3>3 DEF UpdateInv, FilesTyped, WorkInv
    <3> QED
      BY <1>1, <3>1, <3>5, <3>6, QuietTexts
  <2> QED
    BY <1>1, <2>1, <2>2, ConvertTexts, OpenTexts, WriteTexts, SyncTexts, RenameTexts, DiscardTexts
       DEF UpdateStep
<1>2. CASE UNCHANGED vars
  <2>1. UNCHANGED <<stage, work, content, dir, dirOnDisk, load, got>>
    BY <1>2 DEF vars, updates, registryFiles, scans
  <2>2. \A u \in Updater : TempHolds(u)'
    BY <2>1, TempStays DEF TextInv
  <2>3. RegistryWhole' /\ (\A r \in Reader : ReaderFollows(r))' /\ (got = [r \in Reader |-> got[r]])'
    BY <2>1 DEF TextInv, RegistryWhole, ReaderFollows
  <2> QED
    BY <2>2, <2>3 DEF TextInv
<1> QED
  BY <1>1, <1>2, LoadTexts, PowerLossTexts DEF Next

\* The invariant: the inodes, what updates have collected, and what the files hold.
WholeInv == UpdateInv /\ WorkInv /\ TextInv

\* The three parts are an inductive invariant.
LEMMA WholeKept == Spec => []WholeInv
<1>1. Init => WholeInv
  BY UpdateInit, WorkInit, TextInit DEF WholeInv
<1>2. WholeInv /\ [Next]_vars => WholeInv'
  BY UpdateNext, WorkNext, TextNext DEF WholeInv
<1> QED
  BY <1>1, <1>2, PTL DEF Spec

\* The type invariant of the updater: stages, inodes and directories, the place of
\* each update in its loops over the registries, never past the last, the number of
\* listings it holds, and fetched listings made of cells (run_update, lib.rs).
THEOREM TypesKept == Spec => []TypeOK
<1>1. WholeInv => TypeOK
  <2> SUFFICES ASSUME WholeInv PROVE TypeOK
    OBVIOUS
  <2>1. FilesTyped
    BY DEF WholeInv, UpdateInv
  <2>2. \A u \in Updater : IsWork(work[u])
    BY DEF WholeInv, WorkInv
  <2>3. \A g \in Registry : csv[g] # None => csv[g] \in Seq(Cell)
    BY DEF WholeInv, WorkInv
  <2> QED
    BY <2>1, <2>2, <2>3, RegistriesNumber DEF TypeOK, IsWork, Registries
<1> QED
  BY <1>1, WholeKept, PTL
-----------------------------------------------------------------------------
(* The registry file as it is promised *)

\* What the state looks like from outside.
FileSeen == TextOf(dir.dest)
EarlierSeen == {TextOf(d.dest) : d \in dirOnDisk}
ProgressSeen == [u \in Updater |->
                    IF stage[u] \in Working THEN "running"
                    ELSE IF stage[u] \in {"failed", "away"} THEN stage[u]
                    ELSE "replaced"]
LoadedSeen == [r \in Reader |->
                    IF load[r].stage = "reading" THEN content[load[r].inode]
                    ELSE IF load[r].stage = "loaded" THEN got[r]
                    ELSE None]

\* The specification of the file asks of a text what is asked of it here.
LEMMA SameWhole == \A text : Promised!WholeText(text) <=> WholeText(text)
  BY DEF Promised!WholeText, WholeText, Promised!Parses, Parses, Promised!LineAccepted, LineAccepted,
         Promised!Normalized, Normalized, Promised!Only, Only, Promised!Cardinality, Cardinality

\* The initial states are those of the promised file.
LEMMA SeenInit == Init => Promised!FileInit
<1> SUFFICES ASSUME Init PROVE Promised!FileInit
  OBVIOUS
<1> USE DEF Init
<1>1. dir.dest \in {0, None} /\ 0 # None /\ content[0] = OldText
  BY UpdaterAssumption DEF Inode
<1>2. FileSeen \in {None, OldText}
  BY <1>1 DEF FileSeen, TextOf
<1>3. EarlierSeen = {FileSeen}
  BY DEF EarlierSeen, FileSeen
<1>4. ProgressSeen = [u \in Updater |-> "away"]
  BY DEF ProgressSeen, Working, Collecting, Fetching
<1>5. LoadedSeen = [r \in Reader |-> None]
  BY DEF LoadedSeen
<1> QED
  BY <1>2, <1>3, <1>4, <1>5 DEF Promised!FileInit, FileSeen, EarlierSeen, ProgressSeen, LoadedSeen

\* The texts the registry has or may have stay where they are.
LEMMA SeenStays ==
    ASSUME UpdateInv, Next, NEW d \in dirOnDisk
    PROVE  TextOf(d.dest)' = TextOf(d.dest)
<1>1. d.dest # None => d.dest \in Inode
  BY DEF UpdateInv, FilesTyped, Directory
<1>2. d.dest # None => content'[d.dest] = content[d.dest]
  BY <1>1, ExposedStay DEF Exposed
<1> QED
  BY <1>2 DEF TextOf

\* Neither the registry nor what it may be again has changed.
SeenUnchanged == FileSeen' = FileSeen /\ EarlierSeen' = EarlierSeen

\* Nothing changes in what scans have read of the texts, as long as no scan does a step.
LEMMA LoadedStays ==
    ASSUME UpdateInv, TextInv, Next, UNCHANGED scans
    PROVE  LoadedSeen' = LoadedSeen
<1>1. load' = load /\ got' = got
  BY DEF scans
<1>2. \A r \in Reader : load[r].stage = "reading" => content'[load[r].inode] = content[load[r].inode]
  BY OpenedFile, ExposedStay
<1> QED
  BY <1>1, <1>2 DEF LoadedSeen

\* When the names of the registry stay, its texts do.
LEMMA FileStays ==
    ASSUME UpdateInv, Next, dir'.dest = dir.dest, SameRegistries,
           \A d \in dirOnDisk : \E e \in dirOnDisk' : e.dest = d.dest
    PROVE  SeenUnchanged
<1>0. dir \in dirOnDisk
  BY DEF UpdateInv, FilesTyped
<1>1. \A d \in dirOnDisk : TextOf(d.dest)' = TextOf(d.dest)
  BY SeenStays
<1> DEFINE new(i) == IF i = None THEN None ELSE content'[i]
           old(i) == IF i = None THEN None ELSE content[i]
<1>2. \A d \in dirOnDisk : new(d.dest) = old(d.dest)
  BY SeenStays DEF TextOf
<1>3. /\ FileSeen = old(dir.dest) /\ FileSeen' = new(dir'.dest)
      /\ EarlierSeen = {old(d.dest) : d \in dirOnDisk}
      /\ EarlierSeen' = {new(d.dest) : d \in dirOnDisk'}
  BY DEF FileSeen, EarlierSeen, TextOf
<1> HIDE DEF new, old
<1>4. FileSeen' = FileSeen
  BY <1>0, <1>2, <1>3
<1>5. {new(d.dest) : d \in dirOnDisk'} = {old(d.dest) : d \in dirOnDisk}
  BY <1>2 DEF SameRegistries
<1> QED
  BY <1>3, <1>4, <1>5 DEF SeenUnchanged

\* A step of an update is a step of the file, or changes nothing that is seen.
LEMMA SeenUpdate ==
    ASSUME WholeInv, Next, NEW u \in Updater, UpdateStep(u)
    PROVE  [Promised!FileNext]_(Promised!fileVars)
<1>0. UpdateInv /\ WorkInv /\ TextInv /\ FilesTyped
  BY SMTT(60) DEF WholeInv, UpdateInv
<1> USE DEF Promised!Begin, Promised!Replace, Promised!GiveUp, Promised!Killed
<1>1. UNCHANGED scans
  BY DEF UpdateStep, StartOnline, StartOffline, Starts, CurlOpens, CurlWrites, CurlDone, CurlFails,
         ReadListing, ReadFails, ConvertListings, ConversionRefused, OpenTemp, WriteTemp, SyncTemp,
         RenameTemp, ReplaceFails, DiscardTemp, WriteSummary, Crash
<1>2. LoadedSeen' = LoadedSeen
  BY <1>0, <1>1, LoadedStays
<1> DEFINE new == [dir EXCEPT !.temp = [@ EXCEPT ![u] = TempInode(u)]]
           removed == [dir EXCEPT !.temp = [@ EXCEPT ![u] = None]]
<1>3. ASSUME ~RenameTemp(u) PROVE SeenUnchanged
  <2>1. \/ dir' = dir /\ dirOnDisk' = dirOnDisk
        \/ dir' = new /\ dirOnDisk' = dirOnDisk \cup {new}
        \/ dir' = removed /\ dirOnDisk' = dirOnDisk \cup {removed}
    BY <1>3 DEF UpdateStep, StartOnline, StartOffline, Starts, CurlOpens, CurlWrites, CurlDone, CurlFails,
         ReadListing, ReadFails, ConvertListings, ConversionRefused, OpenTemp, WriteTemp, SyncTemp,
         ReplaceFails, DiscardTemp, WriteSummary, Crash, registryFiles, Renamed
  <2>2. dir \in dirOnDisk /\ new.dest = dir.dest /\ removed.dest = dir.dest
    BY <1>0 DEF FilesTyped, Directory
  <2> HIDE DEF new, removed
  <2>3. /\ dir'.dest = dir.dest
        /\ \A d \in dirOnDisk' : \E e \in dirOnDisk : e.dest = d.dest
        /\ \A d \in dirOnDisk : \E e \in dirOnDisk' : e.dest = d.dest
    BY <2>1, <2>2
  <2> QED
    BY SMTT(60), <1>0, <2>3, FileStays DEF SameRegistries
<1>4. ASSUME NEW next, stage' = [stage EXCEPT ![u] = next]
      PROVE  ProgressSeen' = [ProgressSeen EXCEPT ![u] =
                IF next \in Working THEN "running"
                ELSE IF next \in {"failed", "away"} THEN next ELSE "replaced"]
  BY <1>0, <1>4 DEF ProgressSeen, FilesTyped
<1>5. \A v \in Updater : ProgressSeen[v] = IF stage[v] \in Working THEN "running"
                            ELSE IF stage[v] \in {"failed", "away"} THEN stage[v] ELSE "replaced"
  BY DEF ProgressSeen
<1> USE DEF Working, Collecting, Fetching, Ended
<1>6. CASE StartOnline(u) \/ \E listings \in Directories : StartOffline(u, listings)
  <2>1. stage[u] \in Ended /\ \E first \in {"curl", "read"} : stage' = [stage EXCEPT ![u] = first]
    BY <1>6 DEF StartOnline, StartOffline, Starts
  <2>2. SeenUnchanged
    BY <1>3, <2>1 DEF RenameTemp
  <2>3. ProgressSeen' = [ProgressSeen EXCEPT ![u] = "running"] /\ ProgressSeen[u] # "running"
    BY <1>4, <1>5, <2>1
  <2>4. Promised!Begin(u)
    BY <1>2, <2>2, <2>3 DEF SeenUnchanged, FileSeen, EarlierSeen, ProgressSeen, LoadedSeen
  <2> QED
    BY <2>4 DEF Promised!FileNext, Promised!Update
<1>7. CASE \/ CurlFails(u) \/ ReadFails(u) \/ ConversionRefused(u) \/ DiscardTemp(u)
  <2>1. stage[u] \in Working /\ stage' = [stage EXCEPT ![u] = "failed"]
    BY <1>7 DEF CurlFails, ReadFails, ConversionRefused, DiscardTemp, EndsAs, GoesTo
  <2>2. SeenUnchanged
    BY <1>0, <1>3, <2>1 DEF RenameTemp, EndsAs, GoesTo, FilesTyped
  <2>3. ProgressSeen' = [ProgressSeen EXCEPT ![u] = "failed"] /\ ProgressSeen[u] = "running"
    BY <1>4, <1>5, <2>1
  <2>4. Promised!GiveUp(u)
    BY <1>2, <2>2, <2>3 DEF SeenUnchanged, FileSeen, EarlierSeen, ProgressSeen, LoadedSeen
  <2> QED
    BY <2>4 DEF Promised!FileNext, Promised!Update
<1>8. CASE Crash(u)
  <2>1. stage[u] \in Working \cup {"summary"} /\ stage' = [stage EXCEPT ![u] = "away"]
    BY <1>0, <1>8 DEF Crash, EndsAs, GoesTo, FilesTyped, Stage
  <2>2. SeenUnchanged
    BY <1>0, <1>3, <2>1 DEF RenameTemp, EndsAs, GoesTo, FilesTyped
  <2>3. ProgressSeen' = [ProgressSeen EXCEPT ![u] = "away"] /\ ProgressSeen[u] \in {"running", "replaced"}
    BY <1>4, <1>5, <2>1
  <2>4. Promised!Killed(u)
    BY <1>2, <2>2, <2>3 DEF SeenUnchanged, FileSeen, EarlierSeen, ProgressSeen, LoadedSeen
  <2> QED
    BY <2>4 DEF Promised!FileNext, Promised!Update
<1>9. CASE RenameTemp(u)
  <2> DEFINE i == dir.temp[u]
             d1 == [dest |-> i, temp |-> [dir.temp EXCEPT ![u] = None]]
  <2>1. /\ stage[u] = "rename" /\ stage' = [stage EXCEPT ![u] = "summary"]
        /\ dir' = d1 /\ dirOnDisk' = dirOnDisk \cup {d1} /\ content' = content
    BY <1>9 DEF RenameTemp, EndsAs, GoesTo, Renamed
  <2>2. WholeText(content[i]) /\ i # None
    BY <1>0, <2>1 DEF TextInv, TempHolds, UpdateInv, TempsReady
  <2>3. d1.dest = i
    OBVIOUS
  <2> HIDE DEF d1, i
  <2>4. FileSeen' = content[i]
    BY <2>1, <2>2, <2>3 DEF FileSeen, TextOf
  <2>5. EarlierSeen' = EarlierSeen \cup {FileSeen'}
    BY <2>1, <2>3, <2>4 DEF EarlierSeen, FileSeen, TextOf
  <2>6. ProgressSeen' = [ProgressSeen EXCEPT ![u] = "replaced"] /\ ProgressSeen[u] = "running"
    <3>1. "summary" \notin Working /\ "rename" \in Working
      OBVIOUS
    <3>2. ProgressSeen' = [ProgressSeen EXCEPT ![u] = "replaced"]
      BY <1>4, <2>1, <3>1
    <3> QED
      BY <1>5, <2>1, <3>1, <3>2
  <2>7. Promised!WholeText(FileSeen')
    BY <2>2, <2>4, SameWhole
  <2>8. Promised!Replace(u)
    BY <1>2, <2>5, <2>6, <2>7 DEF FileSeen, EarlierSeen, ProgressSeen, LoadedSeen
  <2> QED
    BY <2>8 DEF Promised!FileNext, Promised!Update
<1>10. CASE \/ \E rows \in Served(u) : CurlOpens(u, rows)
            \/ CurlWrites(u) \/ CurlDone(u) \/ ReadListing(u) \/ ConvertListings(u) \/ OpenTemp(u)
            \/ WriteTemp(u) \/ SyncTemp(u) \/ ReplaceFails(u) \/ WriteSummary(u)
  <2>1. \/ stage' = stage
        \/ stage[u] \in Working /\ \E next \in Working : stage' = [stage EXCEPT ![u] = next]
        \/ stage[u] = "summary" /\ stage' = [stage EXCEPT ![u] = "done"]
    BY <1>10 DEF CurlOpens, CurlWrites, CurlDone, Looped, ReadListing, ConvertListings, OpenTemp,
                 WriteTemp, SyncTemp, ReplaceFails, WriteSummary, EndsAs, GoesTo
  <2>2. SeenUnchanged
    BY <1>0, <1>3, <2>1 DEF RenameTemp, EndsAs, GoesTo, FilesTyped
  <2>3. ProgressSeen' = ProgressSeen
    BY <1>0, <2>1 DEF ProgressSeen, FilesTyped
  <2>4. UNCHANGED Promised!fileVars
    BY <1>2, <2>2, <2>3 DEF SeenUnchanged, FileSeen, EarlierSeen, ProgressSeen, LoadedSeen, Promised!fileVars
  <2> QED
    BY <2>4
<1> QED
  BY <1>6, <1>7, <1>8, <1>9, <1>10 DEF UpdateStep

\* A scan opens the registry: it obtains the text of that moment.
LEMMA SeenLoad ==
    ASSUME WholeInv, Next, NEW r \in Reader, LoadStep(r)
    PROVE  [Promised!FileNext]_(Promised!fileVars)
<1>0. UpdateInv /\ TextInv /\ FilesTyped
  BY DEF WholeInv, UpdateInv
<1>1. UNCHANGED <<stage, content, dir, dirOnDisk>>
  BY DEF LoadStep, LoadFindsNone, LoadOpens, LoadReads, LoadEnds, updates, registryFiles
<1>2. FileSeen' = FileSeen /\ EarlierSeen' = EarlierSeen /\ ProgressSeen' = ProgressSeen
  BY <1>1 DEF FileSeen, EarlierSeen, ProgressSeen, TextOf
<1>3. load \in [Reader -> [stage : LoadStage, inode : Inode \cup {None}]] /\ DOMAIN got = Reader
  BY <1>0 DEF FilesTyped, TextInv
<1>4. CASE LoadOpens(r)
  <2>1. load[r].stage = "start" /\ dir.dest # None
        /\ load' = [load EXCEPT ![r] = [stage |-> "reading", inode |-> dir.dest]] /\ got' = got
    BY <1>4 DEF LoadOpens
  <2>2. FileSeen = content[dir.dest] /\ FileSeen # None
    <3>1. content[dir.dest] \in Text
      BY <1>0, <2>1 DEF TextInv, RegistryWhole, FilesTyped
    <3> QED
      BY <2>1, <3>1, UpdaterAssumption DEF FileSeen, TextOf
  <2>3. LoadedSeen' = [LoadedSeen EXCEPT ![r] = FileSeen]
    BY <1>1, <1>3, <2>1, <2>2 DEF LoadedSeen
  <2>4. Promised!Load(r)
    BY <1>2, <2>2, <2>3 DEF Promised!Load, FileSeen, EarlierSeen, ProgressSeen, LoadedSeen
  <2> QED
    BY <2>4 DEF Promised!FileNext
<1>5. ASSUME LoadedSeen' = LoadedSeen PROVE UNCHANGED Promised!fileVars
  BY <1>2, <1>5 DEF FileSeen, EarlierSeen, ProgressSeen, LoadedSeen, Promised!fileVars
<1>6. CASE LoadFindsNone(r)
  BY <1>1, <1>3, <1>5, <1>6 DEF LoadFindsNone, LoadedSeen
<1>7. CASE LoadReads(r)
  BY <1>1, <1>3, <1>5, <1>7 DEF LoadReads, LoadedSeen
<1>8. CASE LoadEnds(r)
  <2>1. /\ load[r].stage = "reading" /\ Len(got[r]) >= Len(content[load[r].inode]) /\ got' = got
        /\ load' = [load EXCEPT ![r] = [stage |-> IF Parses(got[r]) THEN "loaded" ELSE "refused",
                                        inode |-> load[r].inode]]
    BY <1>8 DEF LoadEnds
  <2>2. content[load[r].inode] \in Text /\ WholeText(content[load[r].inode])
    BY <1>0, <2>1, OpenedFile
  <2>3. got[r] = content[load[r].inode]
    <3> DEFINE text == content[load[r].inode]
    <3>1. /\ got[r] \in Text /\ Len(got[r]) <= Len(text)
          /\ got[r] = SubSeq(text, 1, Len(got[r]))
      BY <1>0, <2>1 DEF TextInv, ReaderFollows
    <3>2. Len(got[r]) \in Nat /\ Len(text) \in Nat
      BY <2>2, <3>1 DEF Text
    <3>3. Len(got[r]) = Len(text)
      BY SMTT(60), <2>1, <3>1, <3>2
    <3> HIDE DEF text
    <3> QED
      BY <2>2, <3>1, <3>3, SubSeqFull DEF Text, text
  <2>4. Parses(got[r])
    BY <2>2, <2>3 DEF WholeText
  <2>5. load'[r].stage = "loaded" /\ \A q \in Reader \ {r} : load'[q] = load[q]
    BY <1>3, <2>1, <2>4
  <2> QED
    BY <1>1, <1>5, <2>1, <2>3, <2>5 DEF LoadedSeen
<1> QED
  BY <1>4, <1>5, <1>6, <1>7, <1>8 DEF LoadStep

\* A power failure brings back a text the registry had, whole.
LEMMA SeenPowerLoss ==
    ASSUME WholeInv, Next, PowerLoss
    PROVE  [Promised!FileNext]_(Promised!fileVars)
<1>1. UpdateInv
  BY DEF WholeInv
<1>2. dir' \in dirOnDisk /\ dirOnDisk' = {dir'}
  BY DEF PowerLoss
<1> DEFINE new(i) == IF i = None THEN None ELSE content'[i]
           old(i) == IF i = None THEN None ELSE content[i]
<1>3. \A d \in dirOnDisk : new(d.dest) = old(d.dest)
  BY <1>1, SeenStays DEF TextOf
<1>4. /\ FileSeen' = new(dir'.dest)
      /\ EarlierSeen = {old(d.dest) : d \in dirOnDisk}
      /\ EarlierSeen' = {new(d.dest) : d \in dirOnDisk'}
  BY DEF FileSeen, EarlierSeen, TextOf
<1> HIDE DEF new, old
<1>5. FileSeen' \in EarlierSeen /\ EarlierSeen' = {FileSeen'}
  BY <1>2, <1>3, <1>4
<1>6. ProgressSeen' = [u \in Updater |-> "away"]
  BY DEF PowerLoss, ProgressSeen, Working, Collecting, Fetching
<1>7. LoadedSeen' = [r \in Reader |-> None]
  BY DEF PowerLoss, LoadedSeen
<1>8. Promised!PowerFails
  BY <1>5, <1>6, <1>7 DEF Promised!PowerFails, FileSeen, EarlierSeen, ProgressSeen, LoadedSeen
<1> QED
  BY <1>8 DEF Promised!FileNext

\* Every step is one of the promised file, or changes nothing of it.
LEMMA SeenNext == WholeInv /\ [Next]_vars => [Promised!FileNext]_(Promised!fileVars)
<1> SUFFICES ASSUME WholeInv, [Next]_vars PROVE [Promised!FileNext]_(Promised!fileVars)
  OBVIOUS
<1>1. CASE UNCHANGED vars
  <2>1. UNCHANGED <<stage, content, dir, dirOnDisk, load, got>>
    BY <1>1 DEF vars, updates, registryFiles, scans
  <2> QED
    BY <2>1 DEF Promised!fileVars, TextOf
<1> QED
  BY <1>1, SeenUpdate, SeenLoad, SeenPowerLoss DEF Next

\* Updates that overlap, are killed, fail or lose power, and scans that load the
\* registry meanwhile, do what RegistryFile says: the file names no text or a whole
\* one, it is replaced in one step, only a power failure brings back an earlier text,
\* and a scan obtains what the file was at one moment ("only replaced after the temp
\* file is fully written and synced", write.rs:14).
THEOREM UpdaterImplementsRegistryFile == Spec => ImplementsRegistryFile
<1>1. Init => Promised!FileInit
  BY SeenInit
<1>2. Spec => [][Promised!FileNext]_(Promised!fileVars)
  BY WholeKept, SeenNext, PTL DEF Spec
<1>3. Spec => Promised!FileInit
  BY <1>1 DEF Spec
<1> QED
  BY <1>2, <1>3 DEF ImplementsRegistryFile, Promised!FileSpec
-----------------------------------------------------------------------------
(* What the texts were made from *)

\* The files of the first n registries, in `files`, have the listings of an update.
AreListings(files, w, n) == \A j \in 1 .. n : files[j] = Cells(w.documents[j])

\* The listings on disk, in the order of the registries.
Listed(disk) == [j \in DOMAIN AllRegistries |-> disk[AllRegistries[j]]]

\* What an update that nobody disturbs has at each stage: on disk the listings it was
\* served, of that it fetches the beginning, and in memory those it has read.
Undisturbed(disk, w, at) ==
    /\ at \in Fetching => AreListings(Listed(disk), w, w.at - 1)
    /\ at = "curling" =>
        /\ w.sent <= Len(Cells(w.rows))
        /\ disk[AllRegistries[w.at]] = SubSeq(Cells(w.rows), 1, w.sent)
    /\ at = "read" /\ ~w.offline => AreListings(Listed(disk), w, Registries)
    /\ at = "read" => AreListings(w.files, w, w.at - 1)
    /\ at \in {"convert", "open", "write", "rename"} => AreListings(w.files, w, Registries)

\* What an update has at each stage.
Follows(disk, w, at) ==
    /\ at \in Fetching => ~w.offline
    /\ at \in {"convert", "open", "write", "rename"} => Len(w.documents) = Registries
    /\ at \in {"open", "write", "rename"} => Convertible(w.files) /\ Parses(Converted(w.files))
    /\ w.alone => Undisturbed(disk, w, at)

\* An update that uses the directory of the fetched listings.
Shares(w, at) == at \in Collecting /\ ~w.offline

\* Of two updates that use it neither is marked as alone.
NoneAlone ==
    \A u \in Updater : \A v \in Updater \ {u} :
        Shares(work[u], stage[u]) /\ Shares(work[v], stage[v]) => ~work[u].alone

\* What the updates are converting, together.
FollowInv == NoneAlone /\ \A u \in Updater : Follows(csv, work[u], stage[u])

\* At first there is no update.
LEMMA FollowInit == Init => FollowInv
<1> SUFFICES ASSUME Init PROVE FollowInv
  OBVIOUS
<1>1. \A u \in Updater : work[u] = NoWork /\ stage[u] = "away"
  BY DEF Init
<1> QED
  BY <1>1 DEF FollowInv, NoneAlone, Follows, Undisturbed, Shares, Collecting, Fetching

\* An update that has nothing yet, or nothing any more.
LEMMA NothingFollows ==
    \A disk, at : at \in Ended \cup {"summary", "discard"} =>
        \A w : Follows(disk, w, at) /\ ~Shares(w, at)
  BY DEF Follows, Undisturbed, Shares, Collecting, Fetching, Ended

\* What is on disk is nothing to an update that is not alone, or does not use it.
LEMMA FollowsAnyway ==
    ASSUME NEW disk, NEW new, NEW w, NEW at, Follows(disk, w, at), w.alone => ~Shares(w, at)
    PROVE  Follows(new, w, at)
<1>1. ASSUME w.alone PROVE Undisturbed(new, w, at)
  <2>1. ~Shares(w, at) /\ Undisturbed(disk, w, at)
    BY <1>1 DEF Follows
  <2>2. at \notin Fetching
    BY <2>1 DEF Follows, Shares, Collecting
  <2>3. at # "curling"
    BY <2>2 DEF Fetching
  <2>4. ~(at = "read" /\ ~w.offline)
    BY <2>1 DEF Shares, Collecting
  <2> QED
    BY <2>1, <2>2, <2>3, <2>4, Zenon DEF Undisturbed
<1> QED
  BY <1>1, Zenon DEF Follows

\* One update goes on to another stage with other work; only one that uses the
\* directory changes what is in it.
LEMMA FollowMoves ==
    ASSUME FollowInv, WorkInv, FilesTyped, NEW u \in Updater, NEW next, NEW w,
           work' = [work EXCEPT ![u] = w], stage' = [stage EXCEPT ![u] = next],
           Follows(csv', w, next),
           Shares(w, next) => Shares(work[u], stage[u]) /\ (w.alone => work[u].alone),
           csv' = csv \/ Shares(work[u], stage[u])
    PROVE  FollowInv'
<1>1. /\ \A v \in Updater : work'[v] = IF v = u THEN w ELSE work[v]
      /\ \A v \in Updater : stage'[v] = IF v = u THEN next ELSE stage[v]
  BY DEF WorkInv, FilesTyped
<1>2. NoneAlone'
  BY <1>1 DEF FollowInv, NoneAlone
<1>3. ASSUME NEW v \in Updater \ {u} PROVE Follows(csv', work[v], stage[v])
  <2>1. Follows(csv, work[v], stage[v])
    BY DEF FollowInv
  <2>2. csv' # csv => (work[v].alone => ~Shares(work[v], stage[v]))
    BY DEF FollowInv, NoneAlone
  <2> QED
    BY <2>1, <2>2, FollowsAnyway
<1>4. \A v \in Updater : Follows(csv', work'[v], stage'[v])
  BY <1>1, <1>3
<1> QED
  BY <1>2, <1>4 DEF FollowInv

\* An update that is marked goes on as before.
LEMMA MarkedFollows ==
    ASSUME NEW disk, NEW w, NEW at, IsWork(w), Follows(disk, w, at)
    PROVE  LET t == [w EXCEPT !.alone = FALSE]
           IN  Follows(disk, t, at) /\ ~t.alone /\ (Shares(t, at) <=> Shares(w, at))
<1> DEFINE t == [w EXCEPT !.alone = FALSE]
<1>1. /\ DOMAIN t = WorkFields /\ t.offline = w.offline /\ t.alone = FALSE
      /\ t.files = w.files /\ t.documents = w.documents
  BY DEF IsWork, WorkFields
<1> HIDE DEF t
<1>2. Follows(disk, t, at)
  BY <1>1 DEF Follows
<1>3. Shares(t, at) <=> Shares(w, at)
  BY <1>1 DEF Shares
<1> QED
  BY <1>1, <1>2, <1>3 DEF t

\* An update begins, and marks those with which it shares the directory.
LEMMA StartsFollow ==
    ASSUME FollowInv, WorkInv, FilesTyped, NEW u \in Updater, NEW first \in {"curl", "read"},
           NEW task, NEW rivals, Starts(u, first, task, rivals),
           DOMAIN task = WorkFields, task.at = 1, task.files = <<>>,
           task.offline <=> first = "read", first = "read" => Len(task.documents) = Registries,
           first = "curl" => rivals = {v \in Updater \ {u} : Shares(work[v], stage[v])},
           first = "read" => rivals = {}
    PROVE  FollowInv'
<1> DEFINE alone == rivals = {}
           t == [task EXCEPT !.alone = alone]
           w(v) == [work[v] EXCEPT !.alone = FALSE]
<1>1. /\ work' = [v \in Updater |-> IF v = u THEN t ELSE IF v \in rivals THEN w(v) ELSE work[v]]
      /\ stage' = [stage EXCEPT ![u] = first] /\ csv' = csv
  BY DEF Starts
<1>2. /\ t.at = 1 /\ t.files = <<>> /\ (t.offline <=> first = "read") /\ (t.alone <=> alone)
      /\ t.documents = task.documents
  BY Zenon, <1>1 DEF WorkFields
<1> HIDE DEF t, alone
<1>3. \A v \in Updater : /\ Follows(csv, w(v), stage[v]) /\ ~w(v).alone
                         /\ Shares(w(v), stage[v]) <=> Shares(work[v], stage[v])
  BY MarkedFollows DEF FollowInv, WorkInv
<1> HIDE DEF w
<1>4. \A v \in Updater : stage'[v] = IF v = u THEN first ELSE stage[v]
  BY <1>1 DEF FilesTyped
<1>5. Follows(csv, t, first)
  <2>1. \A j \in 1 .. 1 - 1 : FALSE
    OBVIOUS
  <2>2. AreListings(Listed(csv), t, t.at - 1) /\ AreListings(t.files, t, t.at - 1)
    BY <1>2, <2>1 DEF AreListings
  <2>3. Undisturbed(csv, t, first)
    BY <1>2, <2>2 DEF Undisturbed, Fetching
  <2> QED
    BY <1>2, <2>3 DEF Follows, Fetching
<1>6. \A v \in Updater : Follows(csv', work'[v], stage'[v])
  BY <1>1, <1>3, <1>4, <1>5 DEF FollowInv
<1>7. \A v \in Updater \ {u} :
         /\ Shares(work'[v], stage'[v]) <=> Shares(work[v], stage[v])
         /\ v \in rivals => ~work'[v].alone
         /\ v \notin rivals => work'[v] = work[v]
  BY <1>1, <1>3, <1>4
<1>8. work'[u] = t /\ stage'[u] = first
  BY <1>1, <1>4
<1>9. Shares(t, first) => first = "curl"
  BY <1>2 DEF Shares
<1>10. ASSUME NEW v \in Updater, NEW x \in Updater \ {v},
              Shares(work'[v], stage'[v]), Shares(work'[x], stage'[x])
       PROVE  ~work'[v].alone
  <2>1. CASE v = u
    <3>1. x \in rivals
      BY <1>7, <1>8, <1>9, <1>10, <2>1
    <3> QED
      BY <1>2, <1>8, <2>1, <3>1 DEF alone
  <2>2. CASE x = u
    <3>1. v \in rivals
      BY <1>7, <1>8, <1>9, <1>10, <2>2
    <3> QED
      BY <1>7, <2>2, <3>1
  <2>3. CASE v # u /\ x # u
    BY <1>7, <1>10, <2>3 DEF FollowInv, NoneAlone
  <2> QED
    BY <2>1, <2>2, <2>3
<1> QED
  BY <1>6, <1>10 DEF FollowInv, NoneAlone

\* Of different registries the listings have different names.
LEMMA ListedApart ==
    ASSUME NEW disk, NEW new, NEW at \in 1 .. Registries,
           \A g \in Registry : g # AllRegistries[at] => new[g] = disk[g]
    PROVE  \A j \in 1 .. at - 1 : Listed(new)[j] = Listed(disk)[j]
<1> SUFFICES ASSUME NEW j \in 1 .. at - 1 PROVE Listed(new)[j] = Listed(disk)[j]
  OBVIOUS
<1>1. j \in DOMAIN AllRegistries /\ at \in DOMAIN AllRegistries /\ j # at
  BY RegistriesNumber
<1>2. AllRegistries[j] # AllRegistries[at]
  BY <1>1, RegistryAssumption
<1>3. new[AllRegistries[j]] = disk[AllRegistries[j]]
  BY <1>1, <1>2, RegistriesNumber
<1> QED
  BY <1>1, <1>3 DEF Listed

\* curl begins a listing: those before it are as they were.
LEMMA CurlOpensFollow ==
    ASSUME FollowInv, WorkInv, WorkInv', FilesTyped, NEW u \in Updater, NEW rows \in Served(u),
           CurlOpens(u, rows)
    PROVE  FollowInv'
<1> DEFINE w == [work[u] EXCEPT !.rows = rows, !.sent = 0]
<1>1. IsWork(work[u]) /\ Follows(csv, work[u], "curl") /\ stage[u] = "curl"
  BY DEF CurlOpens, WorkInv, FollowInv
<1>2. /\ work' = [work EXCEPT ![u] = w] /\ stage' = [stage EXCEPT ![u] = "curling"]
      /\ csv' = [csv EXCEPT ![Here(u)] = <<>>] /\ csv \in [Registry -> Seq(Cell) \cup {None}]
  BY DEF CurlOpens, GoesTo, WorkInv
<1>3. /\ DOMAIN w = WorkFields /\ w.at = work[u].at /\ w.rows = rows /\ w.sent = 0
      /\ w.files = work[u].files /\ w.documents = work[u].documents
      /\ w.offline = work[u].offline /\ w.alone = work[u].alone
  BY <1>1 DEF IsWork, WorkFields
<1>4. rows \in Seq(Rows)
  <2>1. work'[u] = w
    BY <1>2 DEF WorkInv
  <2>2. IsWork(work'[u])
    BY DEF WorkInv
  <2> QED
    BY <1>3, <2>1, <2>2 DEF IsWork
<1> HIDE DEF w
<1>5. /\ csv'[AllRegistries[w.at]] = <<>>
      /\ \A j \in 1 .. w.at - 1 : Listed(csv')[j] = Listed(csv)[j]
  <2>1. w.at \in 1 .. Registries /\ Here(u) = AllRegistries[w.at]
    BY <1>1, <1>3, RegistriesNumber DEF IsWork, Here
  <2>2. csv'[Here(u)] = <<>> /\ \A g \in Registry : g # Here(u) => csv'[g] = csv[g]
    BY <1>2, <2>1, RegistriesNumber
  <2> QED
    BY <2>1, <2>2, ListedApart
<1>6. Follows(csv', w, "curling")
  <2>1. ASSUME w.alone PROVE Undisturbed(csv', w, "curling")
    <3>1. AreListings(Listed(csv), work[u], w.at - 1)
      BY <1>1, <1>3, <2>1 DEF Follows, Undisturbed, Fetching
    <3>2. AreListings(Listed(csv'), w, w.at - 1)
      BY <1>3, <1>5, <3>1 DEF AreListings
    <3>3. Cells(rows) \in Seq(Cell) /\ SubSeq(Cells(rows), 1, 0) = <<>> /\ 0 <= Len(Cells(rows))
      BY <1>4, CellsTyped, SubSeqEmpty
    <3> QED
      BY <1>3, <1>5, <3>2, <3>3 DEF Undisturbed
  <2> QED
    BY <1>1, <1>3, <2>1 DEF Follows, Fetching
<1>7. Shares(work[u], stage[u])
  BY <1>1 DEF Follows, Shares, Collecting, Fetching
<1> QED
  BY <1>2, <1>3, <1>6, <1>7, FollowMoves

\* curl writes a cell on.
LEMMA CurlWritesFollow ==
    ASSUME FollowInv, WorkInv, FilesTyped, NEW u \in Updater, CurlWrites(u)
    PROVE  FollowInv'
<1> DEFINE k == work[u].sent
           cells == Cells(work[u].rows)
           part == <<cells[k + 1]>>
           w == [work[u] EXCEPT !.sent = k + 1]
<1>1. /\ IsWork(work[u]) /\ Follows(csv, work[u], "curling") /\ stage[u] = "curling"
      /\ k \in Nat /\ k < Len(cells)
  BY DEF CurlWrites, WorkInv, FollowInv, IsWork
<1>2. /\ work' = [work EXCEPT ![u] = w] /\ stage' = [stage EXCEPT ![u] = "curling"]
      /\ csv' = [csv EXCEPT ![Here(u)] = WrittenAt(@, k, part)]
      /\ csv \in [Registry -> Seq(Cell) \cup {None}]
  BY DEF CurlWrites, WorkInv, FilesTyped
<1>3. /\ DOMAIN w = WorkFields /\ w.at = work[u].at /\ w.rows = work[u].rows /\ w.sent = k + 1
      /\ w.files = work[u].files /\ w.documents = work[u].documents
      /\ w.offline = work[u].offline /\ w.alone = work[u].alone
  BY <1>1 DEF IsWork, WorkFields
<1>4. cells \in Seq(Cell) /\ Len(cells) \in Nat
  BY <1>1, CellsTyped DEF IsWork
<1> HIDE DEF w, cells, k
<1> DEFINE file == WrittenAt(csv[Here(u)], k, part)
<1>5. /\ csv'[AllRegistries[w.at]] = file
      /\ \A j \in 1 .. w.at - 1 : Listed(csv')[j] = Listed(csv)[j]
  <2>1. /\ w.at \in 1 .. Registries /\ Here(u) = AllRegistries[w.at]
    BY <1>1, <1>3, RegistriesNumber DEF IsWork, Here
  <2> HIDE DEF file
  <2>2. csv' = [csv EXCEPT ![Here(u)] = file]
    BY <1>2 DEF file
  <2>3. csv'[Here(u)] = file /\ \A g \in Registry : g # Here(u) => csv'[g] = csv[g]
    BY <1>2, <2>1, <2>2, RegistriesNumber
  <2> QED
    BY <2>1, <2>3, ListedApart
<1> HIDE DEF part
<1>6. WrittenAt(SubSeq(cells, 1, k), k, part) = SubSeq(cells, 1, k + 1)
  <2>1. k + 1 \in 1 .. Len(cells) /\ k \in 0 .. Len(cells)
    BY <1>1, <1>4
  <2>2. part \in Seq(Cell) /\ Len(part) = 1 /\ part[1] = cells[k + 1]
    BY <1>4, <2>1 DEF part
  <2>3. k + Len(part) <= Len(cells) /\ \A i \in 1 .. Len(part) : part[i] = cells[k + i]
    BY <2>1, <2>2
  <2>4. WrittenAt(SubSeq(cells, 1, k), k, part) = SubSeq(cells, 1, k + Len(part))
    BY ZenonT(60), <1>4, <2>1, <2>2, <2>3, WriteContinues
  <2> QED
    BY <2>2, <2>4
<1>7. Follows(csv', w, "curling")
  <2>1. ASSUME w.alone PROVE Undisturbed(csv', w, "curling")
    <3>1. AreListings(Listed(csv), work[u], w.at - 1) /\ csv[Here(u)] = SubSeq(cells, 1, k)
      BY <1>1, <1>3, <2>1 DEF Follows, Undisturbed, Fetching, Here, cells, k
    <3>2. AreListings(Listed(csv'), w, w.at - 1)
      BY <1>3, <1>5, <3>1 DEF AreListings
    <3>3. csv'[AllRegistries[w.at]] = SubSeq(cells, 1, k + 1) /\ k + 1 <= Len(cells)
      BY <1>1, <1>4, <1>5, <1>6, <3>1
    <3> QED
      BY <1>3, <3>2, <3>3 DEF Undisturbed, cells
  <2> QED
    BY <1>1, <1>3, <2>1 DEF Follows, Fetching
<1>8. Shares(work[u], stage[u])
  BY <1>1 DEF Follows, Shares, Collecting, Fetching
<1> QED
  BY <1>2, <1>3, <1>7, <1>8, FollowMoves

\* The fields of a task after a round of a loop.
LEMMA LoopedFields ==
    ASSUME NEW task, DOMAIN task = WorkFields
    PROVE  LET w == [task EXCEPT !.at = IF task.at = Len(AllRegistries) THEN 1 ELSE @ + 1]
           IN  /\ w.at = IF task.at = Len(AllRegistries) THEN 1 ELSE task.at + 1
               /\ w.files = task.files /\ w.documents = task.documents
               /\ w.offline = task.offline /\ w.alone = task.alone
<1> DEFINE next == IF task.at = Len(AllRegistries) THEN 1 ELSE task.at + 1
           w == [task EXCEPT !.at = next]
<1>1. [task EXCEPT !.at = IF task.at = Len(AllRegistries) THEN 1 ELSE @ + 1] = w
  OBVIOUS
<1> HIDE DEF next
<1>2. /\ w.at = next /\ w.files = task.files /\ w.documents = task.documents
      /\ w.offline = task.offline /\ w.alone = task.alone
  BY DEF WorkFields
<1> HIDE DEF w
<1> QED
  BY <1>1, <1>2 DEF next

\* Nothing is listed before the first registry.
LEMMA NoneListed == \A files, w : AreListings(files, w, 1 - 1)
  BY DEF AreListings

\* One listing more.
LEMMA OneMoreListing ==
    ASSUME NEW n \in Nat \ {0}, NEW files, NEW w, AreListings(files, w, n - 1),
           files[n] = Cells(w.documents[n])
    PROVE  AreListings(files, w, n)
<1>1. \A j \in 1 .. n : j = n \/ j \in 1 .. n - 1
  OBVIOUS
<1> QED
  BY <1>1 DEF AreListings

\* The listing curl is done with is on disk, whole.
LEMMA CurlDoneFollow ==
    ASSUME FollowInv, WorkInv, FilesTyped, NEW u \in Updater, CurlDone(u)
    PROVE  FollowInv'
<1> DEFINE documents == Append(work[u].documents, work[u].rows)
           task == [work[u] EXCEPT !.documents = Append(@, work[u].rows), !.rows = <<>>, !.sent = 0]
           last == task.at = Len(AllRegistries)
           w == [task EXCEPT !.at = IF last THEN 1 ELSE @ + 1]
           next == IF last THEN "read" ELSE "curl"
           at == work[u].at
<1>1. /\ IsWork(work[u]) /\ HasCollected(work[u], "curling") /\ Follows(csv, work[u], "curling")
      /\ csv' = csv /\ stage[u] = "curling" /\ work[u].sent = Len(Cells(work[u].rows))
  BY DEF CurlDone, WorkInv, FollowInv
<1>2. work' = [work EXCEPT ![u] = w] /\ stage' = [stage EXCEPT ![u] = next]
  BY DEF CurlDone, Looped, GoesTo
<1>3. /\ DOMAIN task = WorkFields /\ task.at = at /\ task.files = work[u].files
      /\ task.documents = documents /\ task.offline = work[u].offline /\ task.alone = work[u].alone
  BY <1>1 DEF IsWork, WorkFields
<1> HIDE DEF task
<1>4. /\ w.at = IF last THEN 1 ELSE at + 1
      /\ w.files = work[u].files /\ w.documents = documents
      /\ w.offline = work[u].offline /\ w.alone = work[u].alone
  BY <1>3, LoopedFields
<1> HIDE DEF w
<1>5. /\ at \in 1 .. Registries /\ work[u].documents \in Seq(Seq(Rows))
      /\ Len(work[u].documents) = at - 1 /\ work[u].rows \in Seq(Rows)
      /\ Here(u) = AllRegistries[at] /\ ~work[u].offline
  BY <1>1 DEF IsWork, HasCollected, Follows, Fetching, Here
<1> HIDE DEF at
<1>6. /\ \A j \in 1 .. at - 1 : documents[j] = work[u].documents[j]
      /\ documents[at] = work[u].rows
  BY <1>5, RegistriesNumber
<1> HIDE DEF documents
<1>7. ASSUME w.alone PROVE AreListings(Listed(csv), w, at)
  <2>1. AreListings(Listed(csv), work[u], at - 1)
    BY <1>1, <1>4, <1>7 DEF Follows, Undisturbed, Fetching, at
  <2>2. AreListings(Listed(csv), w, at - 1)
    BY <1>4, <1>6, <2>1 DEF AreListings
  <2>3. csv[Here(u)] = Cells(work[u].rows)
    <3>1. csv[Here(u)] = SubSeq(Cells(work[u].rows), 1, work[u].sent)
      BY <1>1, <1>4, <1>7 DEF Follows, Undisturbed, Here
    <3>2. Cells(work[u].rows) \in Seq(Cell)
      BY <1>5, CellsTyped
    <3> QED
      BY <1>1, <3>1, <3>2, SubSeqFull
  <2>4. Listed(csv)[at] = Cells(w.documents[at])
    BY <1>4, <1>5, <1>6, <2>3, RegistriesNumber DEF Listed
  <2>5. at \in Nat \ {0}
    BY <1>5, RegistriesNumber
  <2> QED
    BY <2>2, <2>4, <2>5, OneMoreListing
<1>8. ASSUME w.alone PROVE Undisturbed(csv', w, next)
  <2>1. CASE last
    <3>1. at = Registries /\ w.at = 1 /\ next = "read"
      BY <1>3, <1>4, <2>1 DEF Registries
    <3>2. AreListings(w.files, w, w.at - 1)
      BY <3>1, NoneListed
    <3> QED
      BY <1>1, <1>7, <1>8, <3>1, <3>2 DEF Undisturbed, Fetching
  <2>2. CASE ~last
    <3>1. w.at - 1 = at /\ next = "curl"
      BY <1>4, <1>5, <2>2, RegistriesNumber
    <3> HIDE DEF next
    <3> QED
      BY <1>1, <1>7, <1>8, <3>1 DEF Undisturbed, Fetching
  <2> QED
    BY <2>1, <2>2
<1>9. next \in {"curl", "read"}
  OBVIOUS
<1> HIDE DEF next
<1>10. Follows(csv', w, next)
  BY <1>4, <1>5, <1>8, <1>9 DEF Follows, Fetching
<1>11. Shares(work[u], stage[u])
  BY <1>1, <1>5 DEF Shares, Collecting, Fetching
<1> QED
  BY <1>1, <1>2, <1>4, <1>10, <1>11, FollowMoves

\* The listing that is read is the one that was served.
LEMMA ReadListingFollow ==
    ASSUME FollowInv, WorkInv, FilesTyped, NEW u \in Updater, ReadListing(u)
    PROVE  FollowInv'
<1> DEFINE at == work[u].at
           file == IF work[u].offline THEN Cells(work[u].documents[work[u].at]) ELSE csv[Here(u)]
           files == Append(work[u].files, file)
           task == [work[u] EXCEPT !.files = Append(@, file)]
           last == task.at = Len(AllRegistries)
           w == [task EXCEPT !.at = IF last THEN 1 ELSE @ + 1]
           next == IF last THEN "convert" ELSE "read"
<1>1. /\ IsWork(work[u]) /\ HasCollected(work[u], "read") /\ Follows(csv, work[u], "read")
      /\ csv' = csv /\ stage[u] = "read"
  BY DEF ReadListing, WorkInv, FollowInv
<1>2. work' = [work EXCEPT ![u] = w] /\ stage' = [stage EXCEPT ![u] = next]
  BY DEF ReadListing, Looped, GoesTo
<1>3. file = IF work[u].offline THEN Cells(work[u].documents[at]) ELSE csv[Here(u)]
  OBVIOUS
<1> HIDE DEF file
<1>4. /\ DOMAIN task = WorkFields /\ task.at = at /\ task.files = files
      /\ task.documents = work[u].documents
      /\ task.offline = work[u].offline /\ task.alone = work[u].alone
  BY <1>1 DEF IsWork, WorkFields
<1> HIDE DEF task
<1>5. /\ w.at = IF last THEN 1 ELSE at + 1
      /\ w.files = files /\ w.documents = work[u].documents
      /\ w.offline = work[u].offline /\ w.alone = work[u].alone
  BY <1>4, LoopedFields
<1> HIDE DEF w
<1>6. /\ at \in 1 .. Registries /\ work[u].files \in Seq(Seq(Cell))
      /\ Len(work[u].files) = at - 1 /\ Len(work[u].documents) = Registries
      /\ Here(u) = AllRegistries[at]
  BY <1>1 DEF IsWork, HasCollected, Here
<1> HIDE DEF at
<1>7. /\ \A j \in 1 .. at - 1 : files[j] = work[u].files[j]
      /\ files[at] = file
  BY <1>6, RegistriesNumber
<1> HIDE DEF files
<1>8. at \in Nat \ {0} /\ at \in DOMAIN AllRegistries /\ at \in 1 .. Registries
  BY <1>6, RegistriesNumber
<1>9. ASSUME w.alone PROVE AreListings(w.files, w, at)
  <2>1. /\ AreListings(work[u].files, work[u], at - 1)
        /\ ~work[u].offline => AreListings(Listed(csv), work[u], Registries)
    BY <1>1, <1>5, <1>9 DEF Follows, Undisturbed, at
  <2>2. AreListings(w.files, w, at - 1)
    BY <1>5, <1>7, <2>1 DEF AreListings
  <2>3. file = Cells(work[u].documents[at])
    <3>1. CASE work[u].offline
      BY <1>3, <3>1
    <3>2. CASE ~work[u].offline
      <4>1. Listed(csv)[at] = Cells(work[u].documents[at])
        BY <1>8, <2>1, <3>2 DEF AreListings
      <4> QED
        BY <1>3, <1>6, <1>8, <3>2, <4>1 DEF Listed
    <3> QED
      BY <3>1, <3>2
  <2> QED
    BY <1>5, <1>7, <1>8, <2>2, <2>3, OneMoreListing
<1>10. ASSUME w.alone PROVE Undisturbed(csv', w, next)
  <2>1. CASE last
    <3>1. at = Registries /\ next = "convert"
      BY <1>4, <2>1 DEF Registries
    <3> HIDE DEF next
    <3> QED
      BY <1>9, <1>10, <3>1 DEF Undisturbed, Fetching
  <2>2. CASE ~last
    <3>1. w.at - 1 = at /\ next = "read"
      BY <1>5, <1>8, <2>2
    <3> HIDE DEF next
    <3>2. ~w.offline => AreListings(Listed(csv), work[u], Registries)
      BY <1>1, <1>5, <1>10 DEF Follows, Undisturbed
    <3>3. ~w.offline => AreListings(Listed(csv'), w, Registries)
      BY <1>1, <1>5, <3>2 DEF AreListings
    <3> QED
      BY <1>9, <1>10, <3>1, <3>3 DEF Undisturbed, Fetching
  <2> QED
    BY <2>1, <2>2
<1>11. next \in {"convert", "read"}
  OBVIOUS
<1> HIDE DEF next
<1>12. Follows(csv', w, next)
  BY <1>5, <1>6, <1>10, <1>11 DEF Follows, Fetching
<1>13. Shares(w, next) => Shares(work[u], stage[u])
  BY <1>1, <1>5, <1>11 DEF Shares, Collecting, Fetching
<1> QED
  BY <1>1, <1>2, <1>5, <1>12, <1>13, FollowMoves

\* One update ends, or goes to its summary.
LEMMA EndsFollow ==
    ASSUME FollowInv, WorkInv, FilesTyped, NEW u \in Updater, NEW end \in Ended \cup {"summary"},
           EndsAs(u, end), UNCHANGED csv
    PROVE  FollowInv'
<1>1. Follows(csv', NoWork, end) /\ ~Shares(NoWork, end)
  BY NothingFollows
<1> QED
  BY <1>1, FollowMoves DEF EndsAs, GoesTo

\* What an update has converted it keeps while it replaces the registry.
LEMMA ReplacesFollow ==
    ASSUME FollowInv, WorkInv, FilesTyped, NEW u \in Updater, UNCHANGED csv,
           ConvertListings(u) \/ OpenTemp(u) \/ WriteTemp(u) \/ SyncTemp(u) \/ ReplaceFails(u)
    PROVE  FollowInv'
<1> DEFINE replacing == {"open", "write", "rename"}
           n == work[u].sent + Len(NextChunk(NewText(u), work[u].sent))
           w == IF WriteTemp(u) THEN [work[u] EXCEPT !.sent = n] ELSE work[u]
           next == stage'[u]
<1>1. IsWork(work[u]) /\ Follows(csv, work[u], stage[u])
  BY DEF WorkInv, FollowInv
<1>2. /\ next \in replacing \cup {"discard"}
      /\ next \in replacing =>
            /\ stage[u] \in replacing \cup {"convert"}
            /\ Convertible(work[u].files) /\ Parses(NewText(u))
      /\ stage' = [stage EXCEPT ![u] = next]
  <2>1. CASE ConvertListings(u)
    BY <2>1 DEF ConvertListings, GoesTo, FilesTyped
  <2>2. CASE WriteTemp(u)
    BY <1>1, <2>2 DEF WriteTemp, FilesTyped, Follows, NewText
  <2>3. CASE OpenTemp(u)
    BY <1>1, <2>3 DEF OpenTemp, GoesTo, FilesTyped, Follows, NewText
  <2>4. CASE SyncTemp(u)
    BY <1>1, <2>4 DEF SyncTemp, GoesTo, FilesTyped, Follows, NewText
  <2>5. CASE ReplaceFails(u)
    BY <2>5 DEF ReplaceFails, GoesTo, FilesTyped
  <2> QED
    BY <2>1, <2>2, <2>3, <2>4, <2>5
<1>3. work' = [work EXCEPT ![u] = w]
  <2>1. CASE WriteTemp(u)
    BY <2>1 DEF WriteTemp
  <2>2. CASE ~WriteTemp(u)
    <3>1. work' = work
      BY <2>2 DEF ConvertListings, OpenTemp, SyncTemp, ReplaceFails
    <3> QED
      BY <2>2, <3>1 DEF WorkInv
  <2> QED
    BY <2>1, <2>2
<1>4. /\ w.files = work[u].files /\ w.documents = work[u].documents
      /\ w.offline = work[u].offline /\ w.alone = work[u].alone
  BY <1>1 DEF IsWork, WorkFields
<1> HIDE DEF w, next
<1>5. CASE next = "discard"
  <2>1. Follows(csv', w, next) /\ ~Shares(w, next)
    BY <1>5, NothingFollows
  <2> QED
    BY <1>2, <1>3, <2>1, FollowMoves
<1>6. CASE next \in replacing
  <2>1. /\ Len(w.documents) = Registries
        /\ w.alone => AreListings(w.files, work[u], Registries)
    BY <1>1, <1>2, <1>4, <1>6 DEF Follows, Undisturbed
  <2>2. w.alone => AreListings(w.files, w, Registries)
    BY <1>4, <2>1 DEF AreListings
  <2>3. Convertible(w.files) /\ Parses(Converted(w.files))
    BY <1>2, <1>4, <1>6 DEF NewText
  <2>4. Follows(csv', w, next)
    BY <1>6, <2>1, <2>2, <2>3 DEF Follows, Undisturbed, Fetching
  <2>5. ~Shares(w, next)
    BY <1>6 DEF Shares, Collecting, Fetching
  <2> QED
    BY <1>2, <1>3, <2>4, <2>5, FollowMoves
<1> QED
  BY <1>2, <1>5, <1>6

\* Every step of an update leaves each with what its stage says.
LEMMA FollowStep ==
    ASSUME UpdateInv, FollowInv, WorkInv, WorkInv', NEW u \in Updater, UpdateStep(u)
    PROVE  FollowInv'
<1>0. FilesTyped
  BY DEF UpdateInv
<1>1. CASE StartOnline(u)
  <2> DEFINE rivals == {v \in Updater \ {u} : Shares(work[v], stage[v])}
  <2>1. Starts(u, "curl", NoWork, rivals)
    BY <1>1 DEF StartOnline, Shares
  <2> HIDE DEF rivals
  <2>2. DOMAIN NoWork = WorkFields /\ NoWork.at = 1 /\ NoWork.files = <<>> /\ ~NoWork.offline
    BY DEF NoWork, WorkFields
  <2> QED
    BY <1>0, <2>1, <2>2, StartsFollow DEF rivals
<1>2. ASSUME NEW listings \in Directories, StartOffline(u, listings) PROVE FollowInv'
  <2> DEFINE t == [NoWork EXCEPT !.offline = TRUE, !.documents = listings]
  <2>1. Starts(u, "read", t, {})
    BY <1>2 DEF StartOffline
  <2>2. DOMAIN t = WorkFields /\ t.at = 1 /\ t.files = <<>> /\ t.offline /\ t.documents = listings
    BY DEF NoWork, WorkFields
  <2>3. HasCollected(t, "read")
    BY OfflineTask
  <2> HIDE DEF t
  <2>4. Len(t.documents) = Registries
    BY <2>3 DEF HasCollected
  <2> QED
    BY <1>0, <2>1, <2>2, <2>4, StartsFollow
<1>3. CASE \E rows \in Served(u) : CurlOpens(u, rows)
  BY <1>0, <1>3, CurlOpensFollow
<1>4. CASE CurlWrites(u)
  BY <1>0, <1>4, CurlWritesFollow
<1>5. CASE CurlDone(u)
  BY <1>0, <1>5, CurlDoneFollow
<1>6. CASE ReadListing(u)
  BY <1>0, <1>6, ReadListingFollow
<1>7. CASE CurlFails(u) \/ ReadFails(u) \/ ConversionRefused(u) \/ DiscardTemp(u)
           \/ WriteSummary(u) \/ Crash(u) \/ RenameTemp(u)
  <2>1. \E end \in Ended \cup {"summary"} : EndsAs(u, end)
    BY <1>7 DEF CurlFails, ReadFails, ConversionRefused, DiscardTemp, WriteSummary, Crash,
                RenameTemp, Ended
  <2>2. UNCHANGED csv
    BY <1>7 DEF CurlFails, ReadFails, ConversionRefused, DiscardTemp, WriteSummary, Crash, RenameTemp
  <2> QED
    BY <1>0, <2>1, <2>2, EndsFollow
<1>8. CASE ConvertListings(u) \/ OpenTemp(u) \/ WriteTemp(u) \/ SyncTemp(u) \/ ReplaceFails(u)
  <2>1. UNCHANGED csv
    BY <1>8 DEF ConvertListings, OpenTemp, WriteTemp, SyncTemp, ReplaceFails
  <2> QED
    BY <1>0, <1>8, <2>1, ReplacesFollow
<1> QED
  BY <1>1, <1>2, <1>3, <1>4, <1>5, <1>6, <1>7, <1>8 DEF UpdateStep

\* So does every other step.
LEMMA FollowNext == WholeInv /\ WholeInv' /\ FollowInv /\ [Next]_vars => FollowInv'
<1> SUFFICES ASSUME WholeInv, WholeInv', FollowInv, [Next]_vars PROVE FollowInv'
  OBVIOUS
<1>0. UpdateInv /\ WorkInv /\ WorkInv'
  BY SMTT(60) DEF WholeInv
<1>1. CASE UNCHANGED <<stage, work, csv>>
  BY <1>1 DEF FollowInv, NoneAlone
<1>2. CASE \E r \in Reader : LoadStep(r)
  <2>1. UNCHANGED <<stage, work, csv>>
    BY <1>2 DEF LoadStep, LoadFindsNone, LoadOpens, LoadReads, LoadEnds, updates
  <2> QED
    BY <1>1, <2>1
<1>3. CASE PowerLoss
  <2>1. \A u \in Updater : stage'[u] = "away" /\ work'[u] = NoWork
    BY <1>3 DEF PowerLoss
  <2>2. \A u \in Updater : Follows(csv', work'[u], stage'[u]) /\ ~Shares(work'[u], stage'[u])
    BY <2>1, NothingFollows DEF Ended
  <2> QED
    BY <2>2 DEF FollowInv, NoneAlone
<1>4. CASE UNCHANGED vars
  <2>1. UNCHANGED <<stage, work, csv>>
    BY <1>4 DEF vars, updates
  <2> QED
    BY <1>1, <2>1
<1> QED
  BY <1>0, <1>2, <1>3, <1>4, FollowStep DEF Next

\* A registry whose listings are known gives the names they do, in every state of the
\* directory.
Sources ==
    \A d \in dirOnDisk :
        d.dest # None /\ source[d.dest] # None => NamesAsListed(content[d.dest], source[d.dest])

\* A scan that has loaded the registry has all of its file.
LoadedAll == \A r \in Reader : load[r].stage = "loaded" => got[r] = content[load[r].inode]

\* What the texts were made from, together.
SourceInv == Sources /\ LoadedAll /\ source = [i \in Inode |-> source[i]]

\* At first no listings are known.
LEMMA SourceInit == Init => SourceInv
<1> SUFFICES ASSUME Init PROVE SourceInv
  OBVIOUS
<1>1. source = [i \in Inode |-> None] /\ \A d \in dirOnDisk : d.dest \in {0, None}
  BY DEF Init
<1>2. 0 \in Inode
  BY UpdaterAssumption DEF Inode
<1>3. Sources
  BY <1>1, <1>2 DEF Sources
<1>4. LoadedAll
  BY DEF Init, LoadedAll
<1> QED
  BY <1>1, <1>3, <1>4 DEF SourceInv

\* The file a scan has loaded is one the registry had.
LEMMA LoadedFile ==
    ASSUME UpdateInv, NEW r \in Reader, load[r].stage = "loaded"
    PROVE  /\ load[r].inode \in Inode /\ Exposed(load[r].inode)
           /\ \E d \in dirOnDisk : d.dest = load[r].inode /\ d.dest # None
<1>1. PICK d \in dirOnDisk : d.dest = load[r].inode /\ d.dest # None
  BY DEF UpdateInv, ReadersApart
<1>2. d.dest \in Inode
  BY <1>1 DEF UpdateInv, FilesTyped, Directory
<1> QED
  BY <1>1, <1>2 DEF Exposed

\* A registry keeps its text, and with it the names.
LEMMA SourcesStay ==
    ASSUME UpdateInv, Sources, Next, SameRegistries, UNCHANGED source
    PROVE  Sources'
<1> SUFFICES ASSUME NEW d \in dirOnDisk', d.dest # None, source[d.dest] # None
             PROVE  NamesAsListed(content'[d.dest], source[d.dest])
  BY DEF Sources
<1>1. PICK e \in dirOnDisk : e.dest = d.dest
  BY DEF SameRegistries
<1>2. e.dest \in Inode
  BY <1>1 DEF UpdateInv, FilesTyped, Directory
<1>3. content'[e.dest] = content[e.dest]
  BY <1>1, <1>2, ExposedStay DEF Exposed
<1> QED
  BY <1>1, <1>3 DEF Sources

\* So does a scan what it has loaded.
LEMMA LoadedAllStays ==
    ASSUME UpdateInv, LoadedAll, Next, UNCHANGED scans
    PROVE  LoadedAll'
<1> SUFFICES ASSUME NEW r \in Reader, load[r].stage = "loaded"
             PROVE  got[r] = content'[load[r].inode]
  BY DEF LoadedAll, scans
<1>1. content'[load[r].inode] = content[load[r].inode]
  BY LoadedFile, ExposedStay
<1> QED
  BY <1>1 DEF LoadedAll

\* The text an update puts in place gives the names of the listings it was served.
LEMMA RenameSources ==
    ASSUME WholeInv, FollowInv, SourceInv, Next, NEW u \in Updater, RenameTemp(u)
    PROVE  SourceInv'
<1> DEFINE i == dir.temp[u]
           new == [dest |-> i, temp |-> [dir.temp EXCEPT ![u] = None]]
           made == IF work[u].alone THEN work[u].documents ELSE None
<1>0. UpdateInv /\ WorkInv /\ TextInv /\ Sources /\ LoadedAll
  BY SMTT(60) DEF WholeInv, SourceInv
<1>1. /\ stage[u] = "rename" /\ content' = content /\ UNCHANGED scans
      /\ dirOnDisk' = dirOnDisk \cup {new} /\ source' = [source EXCEPT ![i] = made]
  BY DEF RenameTemp, Renamed
<1>2. /\ i # None /\ i \in Inode /\ new.dest = i
      /\ \A d \in dirOnDisk : d.dest # i
  BY <1>0, <1>1 DEF UpdateInv, TempsReady, TempsApart, FilesTyped, Directory
<1>3. content[i] = NewText(u)
  BY <1>0, <1>1 DEF TextInv, TempHolds
<1> HIDE DEF new
<1>4. /\ source' = [j \in Inode |-> source'[j]] /\ source'[i] = made
      /\ \A j \in Inode : j # i => source'[j] = source[j]
  BY <1>1, <1>2 DEF SourceInv
<1>5. ASSUME made # None PROVE NamesAsListed(content[i], made)
  <2> DEFINE files == work[u].files
             listings == work[u].documents
  <2>1. work[u].alone /\ made = listings
    BY <1>5
  <2>2. Follows(csv, work[u], "rename") /\ IsWork(work[u])
    BY <1>0, <1>1 DEF FollowInv, WorkInv
  <2>3. listings \in Seq(Seq(Rows)) /\ Len(listings) = Len(AllRegistries)
    BY <2>2 DEF IsWork, Follows, Registries
  <2>4. \A k \in 1 .. Len(AllRegistries) : files[k] = Cells(listings[k])
    BY <2>1, <2>2 DEF Follows, Undisturbed, AreListings, Registries
  <2>5. Convertible(files) /\ Parses(Converted(files))
    BY <2>2 DEF Follows
  <2> HIDE DEF files, listings
  <2>6. NamesAsListed(Converted(files), listings)
    BY <2>3, <2>4, <2>5, NamesFollow
  <2> QED
    BY <1>3, <2>1, <2>6 DEF NewText, files
<1> HIDE DEF made
<1>6. Sources'
  <2> SUFFICES ASSUME NEW d \in dirOnDisk', d.dest # None, source'[d.dest] # None
               PROVE  NamesAsListed(content[d.dest], source'[d.dest])
    BY <1>1 DEF Sources
  <2>1. CASE d = new
    BY <1>2, <1>4, <1>5, <2>1
  <2>2. CASE d # new
    <3>1. d \in dirOnDisk /\ d.dest # i
      BY <1>1, <1>2, <2>2
    <3>2. d.dest \in Inode
      BY <1>0, <3>1 DEF UpdateInv, FilesTyped, Directory
    <3> QED
      BY <1>0, <1>4, <3>1, <3>2 DEF Sources
  <2> QED
    BY <2>1, <2>2
<1>7. LoadedAll'
  BY <1>0, <1>1, LoadedAllStays
<1> QED
  BY <1>4, <1>6, <1>7 DEF SourceInv

\* An update does nothing else to what is known of the registry.
LEMMA UpdateSources ==
    ASSUME WholeInv, FollowInv, SourceInv, Next, NEW u \in Updater, UpdateStep(u)
    PROVE  SourceInv'
<1>0. UpdateInv /\ Sources /\ LoadedAll
  BY SMTT(60) DEF WholeInv, SourceInv
<1>1. CASE RenameTemp(u)
  BY <1>1, RenameSources
<1>2. CASE ~RenameTemp(u)
  <2>1. UNCHANGED <<scans, source>>
    BY <1>2 DEF UpdateStep, StartOnline, StartOffline, Starts, CurlOpens, CurlWrites, CurlDone, CurlFails,
         ReadListing, ReadFails, ConvertListings, ConversionRefused, OpenTemp, WriteTemp, SyncTemp,
         ReplaceFails, DiscardTemp, WriteSummary, Crash, others
  <2>2. SameRegistries
    <3>1. dir \in dirOnDisk /\ dir \in Directory
      BY <1>0 DEF UpdateInv, FilesTyped
    <3>2. CASE OpenTemp(u) \/ DiscardTemp(u)
      <4>1. \/ dirOnDisk' = dirOnDisk
            \/ \E t : dirOnDisk' = dirOnDisk \cup {[dir EXCEPT !.temp = t]}
        BY <3>2 DEF OpenTemp, DiscardTemp, Renamed
      <4>2. \A t : [dir EXCEPT !.temp = t].dest = dir.dest
        BY <3>1 DEF Directory
      <4> QED
        BY <3>1, <4>1, <4>2 DEF SameRegistries
    <3>3. CASE ~OpenTemp(u) /\ ~DiscardTemp(u)
      <4>1. dirOnDisk' = dirOnDisk
        BY <1>2, <3>3 DEF UpdateStep, StartOnline, StartOffline, Starts, CurlOpens, CurlWrites,
             CurlDone, CurlFails, ReadListing, ReadFails, ConvertListings, ConversionRefused,
             WriteTemp, SyncTemp, ReplaceFails, WriteSummary, Crash, registryFiles
      <4> QED
        BY SMTT(60), <4>1 DEF SameRegistries
    <3> QED
      BY <3>2, <3>3
  <2>3. Sources' /\ LoadedAll'
    BY <1>0, <2>1, <2>2, SourcesStay, LoadedAllStays
  <2> QED
    BY SMTT(60), <2>1, <2>3 DEF SourceInv
<1> QED
  BY <1>1, <1>2

\* A scan has loaded all of the file when it has come to its end.
LEMMA LoadSources ==
    ASSUME WholeInv, SourceInv, Next, NEW r \in Reader, LoadStep(r)
    PROVE  SourceInv'
<1>0. UpdateInv /\ TextInv /\ Sources /\ LoadedAll
  BY SMTT(60) DEF WholeInv, SourceInv
<1>1. UNCHANGED <<content, dirOnDisk, source>>
  BY DEF LoadStep, LoadFindsNone, LoadOpens, LoadReads, LoadEnds, registryFiles, others
<1>2. Sources' /\ source' = [i \in Inode |-> source'[i]]
  BY <1>0, <1>1 DEF Sources, SourceInv
<1>3. /\ load \in [Reader -> [stage : LoadStage, inode : Inode \cup {None}]]
      /\ got = [q \in Reader |-> got[q]]
  BY <1>0 DEF UpdateInv, FilesTyped, TextInv
<1>4. \A q \in Reader \ {r} : load'[q] = load[q] /\ got'[q] = got[q]
  BY <1>3 DEF LoadStep, LoadFindsNone, LoadOpens, LoadReads, LoadEnds
<1>5. ASSUME load'[r].stage = "loaded" PROVE got'[r] = content[load'[r].inode]
  <2>1. LoadEnds(r)
    BY <1>3, <1>5 DEF LoadStep, LoadFindsNone, LoadOpens, LoadReads
  <2> DEFINE text == content[load[r].inode]
  <2>2. /\ load[r].stage = "reading" /\ Len(got[r]) >= Len(text) /\ got' = got
        /\ load'[r].inode = load[r].inode
    BY <1>3, <2>1 DEF LoadEnds
  <2>3. /\ Len(got[r]) <= Len(text) /\ got[r] = SubSeq(text, 1, Len(got[r]))
        /\ got[r] \in Text /\ text \in Text
    BY <1>0, <2>2, OpenedFile DEF TextInv, ReaderFollows
  <2> HIDE DEF text
  <2>4. Len(got[r]) = Len(text)
    BY <2>2, <2>3 DEF Text
  <2>5. got[r] = text
    BY <2>3, <2>4, SubSeqFull DEF Text
  <2> QED
    BY <2>2, <2>5 DEF text
<1>6. LoadedAll'
  BY <1>0, <1>1, <1>4, <1>5 DEF LoadedAll
<1> QED
  BY <1>2, <1>6 DEF SourceInv

\* Every step leaves the names as they were listed.
LEMMA SourceNext == WholeInv /\ FollowInv /\ SourceInv /\ [Next]_vars => SourceInv'
<1> SUFFICES ASSUME WholeInv, FollowInv, SourceInv, [Next]_vars PROVE SourceInv'
  OBVIOUS
<1>1. CASE PowerLoss /\ Next
  <2>0. UpdateInv /\ Sources
    BY SMTT(60) DEF WholeInv, SourceInv
  <2>1. SameRegistries /\ source' = source /\ \A r \in Reader : load'[r].stage = "start"
    BY <1>1 DEF PowerLoss, SameRegistries
  <2>2. Sources'
    BY <1>1, <2>0, <2>1, SourcesStay
  <2> QED
    BY <2>1, <2>2 DEF SourceInv, LoadedAll
<1>2. CASE UNCHANGED vars
  <2>1. UNCHANGED <<content, dirOnDisk, source, load, got>>
    BY <1>2 DEF vars, registryFiles, scans, others
  <2> QED
    BY <2>1 DEF SourceInv, Sources, LoadedAll
<1> QED
  BY <1>1, <1>2, UpdateSources, LoadSources DEF Next

\* The names an update publishes are those of the listings it was served, and the names
\* a scan looks up are those of the file it loaded: whatever the listings are, whatever
\* earlier updates left behind, and whatever is killed or loses power in between; only
\* updates that fetch into the one directory at the same time are excepted (run_update,
\* lib.rs:56, and fetch_registry_csvs, fetch.rs).
THEOREM NamesAreThoseListed == Spec => []WholeListings
<1>1. Init => WholeInv /\ FollowInv /\ SourceInv
  BY UpdateInit, WorkInit, TextInit, FollowInit, SourceInit DEF WholeInv
<1>2. WholeInv /\ FollowInv /\ SourceInv /\ [Next]_vars => (WholeInv /\ FollowInv /\ SourceInv)'
  <2> SUFFICES ASSUME WholeInv, FollowInv, SourceInv, [Next]_vars
               PROVE  (WholeInv /\ FollowInv /\ SourceInv)'
    OBVIOUS
  <2>1. WholeInv'
    BY UpdateNext, WorkNext, TextNext DEF WholeInv
  <2> QED
    BY <2>1, FollowNext, SourceNext
<1>3. WholeInv /\ SourceInv => WholeListings
  <2> SUFFICES ASSUME WholeInv, SourceInv PROVE WholeListings
    OBVIOUS
  <2>0. UpdateInv /\ Sources /\ LoadedAll
    BY SMTT(60) DEF WholeInv, SourceInv
  <2>1. dir \in dirOnDisk
    BY <2>0 DEF UpdateInv, FilesTyped
  <2>2. ASSUME NEW r \in Reader, load[r].stage = "loaded", source[load[r].inode] # None
        PROVE  NamesAsListed(got[r], source[load[r].inode])
    <3>1. PICK d \in dirOnDisk : d.dest = load[r].inode /\ d.dest # None
      BY <2>0, <2>2, LoadedFile
    <3> QED
      BY <2>0, <2>2, <3>1 DEF Sources, LoadedAll
  <2> QED
    BY <2>0, <2>1, <2>2 DEF WholeListings, Sources
<1> QED
  BY <1>1, <1>2, <1>3, PTL DEF Spec
=============================================================================
