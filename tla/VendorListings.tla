--------------------------- MODULE VendorListings ---------------------------
(***************************************************************************)
(* The texts of the vendor registry and what is computed from them: the    *)
(* conversion of the IEEE listings (tools/mac-vendor-updater, convert.rs), *)
(* the parser of the mapping text and the longest-prefix lookup            *)
(* (src/mac_vendor_registry.rs).  A listing on disk is a sequence of       *)
(* cells: the header, then two for each row, so that a file may end in     *)
(* the middle of a row.  A mapping text is a sequence of lines.  Prefixes  *)
(* and hardware addresses are sequences of characters, because the parser  *)
(* and the converter disagree on which characters they let through.        *)
(***************************************************************************)
EXTENDS Integers, Sequences, SequencesExt, FiniteSetsExt

CONSTANTS
    Registry,          \* the registries, IeeeMacRegistry
    AllRegistries,     \* the order of IeeeMacRegistry::ALL
    AssignmentDigits,  \* assignment_hex_digit_count of each registry
    Hex,               \* hexadecimal characters
    Separator,         \* the characters an assignment may be broken up with
    MinPrefixDigits,   \* shortest prefix the parser takes (2)
    AddressDigits,     \* digits of a hardware address (12), the longest prefix
    MultiLine,         \* vendor names with a line break in them
    NoVendor,          \* a vendor name that is blank once trimmed
    None               \* absence of a value

ASSUME RegistryAssumption ==
    /\ AllRegistries \in Seq(Registry) \ {<<>>}
    /\ \A i, k \in DOMAIN AllRegistries : AllRegistries[i] = AllRegistries[k] => i = k
    /\ AssignmentDigits \in [Registry -> MinPrefixDigits .. AddressDigits]
    /\ MinPrefixDigits \in Nat \ {0}
    /\ AddressDigits \in Nat
    /\ None \notin MultiLine
    /\ NoVendor \notin MultiLine
    /\ Hex \cap Separator = {}
-----------------------------------------------------------------------------
(* A listing on disk *)

\* What a write past the end of a shortened file leaves before it.
Hole == [part |-> "hole", row |-> None]

\* The cells of a listing: the front of each row (registry, assignment, vendor)
\* and its back (address, line end).
Cells(rows) ==
    [i \in 1 .. 2 * Len(rows) |->
        [part |-> IF i % 2 = 1 THEN "front" ELSE "back", row |-> rows[(i + 1) \div 2]]]

\* The reader finds four fields in every record.
Readable(file) ==
    /\ Len(file) % 2 = 0
    /\ \A i \in DOMAIN file : file[i].part = IF i % 2 = 1 THEN "front" ELSE "back"

RowsOf(file) == [i \in 1 .. Len(file) \div 2 |-> file[2 * i - 1].row]
-----------------------------------------------------------------------------
(* The conversion *)

\* The characters of `chars` that are in `wanted`, in their order.
Only(chars, wanted) ==
    LET kept[n \in 0 .. Len(chars)] ==
            IF n = 0 THEN <<>>
            ELSE IF chars[n] \in wanted THEN Append(kept[n - 1], chars[n])
            ELSE kept[n - 1]
    IN  kept[Len(chars)]

\* normalize_assignment, without its checks.
Stripped(assignment) == Only(assignment, Range(assignment) \ Separator)

AssignmentFits(registry, assignment) ==
    /\ Len(Stripped(assignment)) = AssignmentDigits[registry]
    /\ Range(Stripped(assignment)) \subseteq Hex

RowAccepted(registry, row) ==
    /\ row.registry = registry
    /\ AssignmentFits(registry, row.assignment)
    /\ row.vendor # NoVendor

\* convert_one_registry refuses the whole listing for one row it cannot take,
\* and a listing without rows.
ListingAccepted(registry, file) ==
    /\ Readable(file)
    /\ Len(RowsOf(file)) > 0
    /\ \A i \in DOMAIN RowsOf(file) : RowAccepted(registry, RowsOf(file)[i])

Mapping(prefix, vendor) == [line |-> "mapping", prefix |-> prefix, vendor |-> vendor]

\* A prefix keeps the place of its first row and takes the vendor of its last.
Insert(mappings, row) ==
    LET prefix == Stripped(row.assignment)
        known  == {i \in DOMAIN mappings : mappings[i].prefix = prefix}
    IN  IF known = {} THEN Append(mappings, Mapping(prefix, row.vendor))
        ELSE [i \in DOMAIN mappings |->
                IF i \in known THEN Mapping(prefix, row.vendor) ELSE mappings[i]]

MappingsOf(file) ==
    LET rows == RowsOf(file)
        inserted[n \in 0 .. Len(rows)] ==
            IF n = 0 THEN <<>> ELSE Insert(inserted[n - 1], rows[n])
    IN  inserted[Len(rows)]

\* The rest of a vendor name after its line break is a line without a tab.
Stray == [line |-> "stray", prefix |-> <<>>, vendor |-> None]

Rendered(mapping) ==
    IF mapping.vendor \in MultiLine THEN <<mapping, Stray>> ELSE <<mapping>>

\* The comment line that ends a section, with the number of mappings above it.
EndOfSection(registry, emitted) ==
    [line |-> "end", prefix |-> <<>>, vendor |-> <<registry, emitted>>]

Section(registry, file) ==
    Append(FlattenSeq([i \in DOMAIN MappingsOf(file) |-> Rendered(MappingsOf(file)[i])]),
           EndOfSection(registry, Len(MappingsOf(file))))

\* render_ieee_oui_text over the listings, in the order of AllRegistries.
Converted(files) ==
    FlattenSeq([i \in DOMAIN AllRegistries |-> Section(AllRegistries[i], files[i])])

Convertible(files) ==
    \A i \in DOMAIN AllRegistries : ListingAccepted(AllRegistries[i], files[i])
-----------------------------------------------------------------------------
(* The parser of a mapping text and the lookup *)

\* Characters that are not hexadecimal are dropped before anything is checked.
Normalized(prefix) == Only(prefix, Hex)

LineAccepted(line) ==
    \/ line.line = "end"
    \/ /\ line.line = "mapping"
       /\ Len(Normalized(line.prefix)) \in MinPrefixDigits .. AddressDigits
       /\ line.vendor # NoVendor

\* parse_ieee_oui_text succeeds.
Parses(text) == \A i \in DOMAIN text : LineAccepted(text[i])

MappingLines(text) == {i \in DOMAIN text : text[i].line = "mapping"}

\* The parsed map: of two lines with one prefix the later stays.
Parsed(text) ==
    [prefix \in {Normalized(text[i].prefix) : i \in MappingLines(text)} |->
        text[Max({i \in MappingLines(text) : Normalized(text[i].prefix) = prefix})].vendor]

VendorNameFor(mappings, address) ==
    LET lengths == {n \in MinPrefixDigits .. AddressDigits :
                        SubSeq(address, 1, n) \in DOMAIN mappings}
    IN  IF lengths = {} THEN None ELSE mappings[SubSeq(address, 1, Max(lengths))]
-----------------------------------------------------------------------------
(* What a text is expected to be *)

\* A text is whole when it has a section for every registry, in order, each with
\* as many mappings as its last line says, and nothing else.
WholeText(text) ==
    LET ends == {i \in DOMAIN text : text[i].line = "end"}
        endOf(k) == CHOOSE i \in ends : Cardinality({j \in ends : j <= i}) = k
        from(k) == IF k = 1 THEN 0 ELSE endOf(k - 1)
    IN  /\ Cardinality(ends) = Len(AllRegistries)
        /\ Len(text) \in ends
        /\ \A k \in DOMAIN AllRegistries :
            text[endOf(k)].vendor = <<AllRegistries[k], endOf(k) - from(k) - 1>>
        /\ Parses(text)

\* The vendor that listings give an address, by the rows alone: of the rows
\* whose assignment begins the address, those with the longest, the last one.
VendorListed(listings, address) ==
    LET rows == FlattenSeq(listings)
        assigned(i) == Stripped(rows[i].assignment)
        owners == {i \in DOMAIN rows : IsPrefix(assigned(i), address)}
        closest == {i \in owners : \A j \in owners : Len(assigned(j)) <= Len(assigned(i))}
    IN  IF owners = {} THEN None ELSE rows[Max(closest)].vendor
=============================================================================
