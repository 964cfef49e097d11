--------------------------- MODULE MCVendorUpdater ---------------------------
(***************************************************************************)
(* The instance TLC checks: two registries with prefixes of one and of two *)
(* digits.  Listings have a prefix twice, prefixes that contain another, a *)
(* separator in an assignment, and rows the updater has to refuse: for the *)
(* wrong registry, or with a line break in the vendor.                     *)
(***************************************************************************)
EXTENDS VendorUpdater

CONSTANTS Large, Small, Acme, Bolt, Corp, TwoLines

Row(registry, assignment, vendor) ==
    [registry |-> registry, assignment |-> assignment, vendor |-> vendor]

MCAllRegistries == <<Large, Small>>
MCDigits == (Large :> 1) @@ (Small :> 2)
MCHex == {"0", "1"}
MCSeparator == {":"}

MCOldText == <<Mapping(<<"1">>, Corp), EndOfSection(Large, 1),
               Mapping(<<"1", "0">>, Acme), EndOfSection(Small, 1)>>

Twice == <<Row(Large, <<"0">>, Acme), Row(Large, <<"0">>, Bolt)>>
Apart == <<Row(Large, <<"0">>, Acme), Row(Large, <<"1">>, Bolt)>>
Inner == <<Row(Small, <<"0", ":", "1">>, Corp)>>

Later == <<Row(Large, <<"1">>, Corp)>>

MCPublished == (Large :> <<{Twice}, {Later}>>) @@ (Small :> <<{Inner}, {Inner}>>)

\* A directory with good listings, and one for each row that has to be refused.
MCDirectories == {
    <<Apart, Inner>>,
    <<Apart, <<Row(Large, <<"0", "1">>, Acme)>>>>,
    <<Apart, <<Row(Small, <<"0", "1">>, TwoLines)>>>> }

MCSymmetry == Permutations(Updater)
==============================================================================
