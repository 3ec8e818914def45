----------------------------- MODULE MCImporter -----------------------------
(***************************************************************************)
(* Identifiers and adopted children for model checking Importer.           *)
(***************************************************************************)
EXTENDS Importer

Symmetry == Permutations(Importers)

MCSegments == {"events", "old", "acme", "us", "EVENTS", "OLD", "ACME", "US", "2024"}
MCUpperAlnum == {"ACME", "US", "2024", "EVENTS", "OLD"}
MCUpperOf == [s \in MCSegments |->
                CASE s = "events" -> "EVENTS" [] s = "old" -> "OLD"
                  [] s = "acme" -> "ACME" [] s = "us" -> "US" [] OTHER -> s]

Events == <<"events">>
Events2024 == <<"events", "2024">>
acme == <<"acme">>
ACME == <<"ACME">>
acmeUs == <<"acme", "us">>

Child(stem, tenant, suffix, bound) ==
    [name |-> Build(stem, tenant, suffix), bound |-> bound]

OnlyACME == {ACME}
Onlyacme == {acme}
OnlyacmeUs == {acmeUs}
NoTenants == {}

\* A child as EnsurePartitions makes it for acme, one whose name is off by a
\* day, and one with a name and a bound of its own.
MixedAdopted ==
    {Child(Events, acme, 0, RangeBound(acme, 0, 1)),
     Child(<<"old">>, ACME, 5, RangeBound(ACME, 4, 1)),
     Child(<<"old">>, NoTenant, Odd, OddBound)}

NoneAdopted == {}

\* Two children of one period, for tenants that differ in case only.
TwinsAdopted ==
    {Child(Events, acme, 0, RangeBound(acme, 0, 1)),
     Child(<<"old">>, acme, 0, RangeBound(ACME, 0, 1))}
=============================================================================
