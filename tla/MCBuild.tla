------------------------------ MODULE MCBuild ------------------------------
(***************************************************************************)
(* Build on two sources, one of them walked twice under one name.           *)
(***************************************************************************)
EXTENDS Build

Walk(name, path) == [name |-> name, path |-> path]
MCWalked == <<Walk("evtx", "evtx"), Walk("plaso", "plaso"), Walk("evtx", "evtx")>>
OneWalked == <<Walk("plaso", "plaso")>>

MCObjectOrder == <<"process", "file">>

In(kind, objects) == [kind |-> kind, objects |-> objects]

\* An export of one mapped file beside an unmapped one, and a raw container.
Export == <<In("mapped", {"process"}), In("unmapped", {})>>
Container == <<In("raw", {"process", "file"})>>
MCEvidence == {Export, Container}

Opt(force, derive, stix) == [force |-> force, derive |-> derive, stix |-> stix]
MCOptions == {Opt(FALSE, TRUE, TRUE), Opt(TRUE, FALSE, FALSE)}
Deriving == {Opt(FALSE, TRUE, FALSE)}
Forcing == {Opt(TRUE, FALSE, FALSE)}
=============================================================================
