------------------------------- MODULE Naming -------------------------------
(***************************************************************************)
(* Names of partitions (internal/naming/naming.go).  A table name is read  *)
(* as its segments between underscores and a suffix: the date of the lower *)
(* bound, as a day number, or the word default.  Identifiers of parents    *)
(* and tenants are sequences of segments too; the empty one is no tenant.  *)
(***************************************************************************)
EXTENDS Integers, Sequences, SequencesExt

CONSTANTS
    Segments,    \* segments of identifiers
    UpperAlnum,  \* those that match ^[A-Z0-9]+$
    UpperOf      \* strings.ToUpper of a segment

ASSUME NamingAssumption ==
    /\ UpperAlnum \subseteq Segments
    /\ UpperOf \in [Segments -> UpperAlnum]
    /\ \A s \in UpperAlnum : UpperOf[s] = s

NoTenant == << >>

\* Suffixes that are not a date: "default", and anything else.
Default == -1
Odd == -2

Upper(id) == [i \in DOMAIN id |-> UpperOf[id[i]]]

Build(parent, tenant, suffix) == [segs |-> parent \o Upper(tenant), suffix |-> suffix]

\* The suffix is "default" or a date; other names are not parsed.
Parses(n) == n.suffix # Odd

\* A segment in capitals and digits before the suffix is taken for a tenant.
HasTenantSegment(n) == Len(n.segs) > 1 /\ Last(n.segs) \in UpperAlnum

Parse(n) ==
    IF HasTenantSegment(n)
      THEN [parent |-> Front(n.segs), tenant |-> <<Last(n.segs)>>, suffix |-> n.suffix]
      ELSE [parent |-> n.segs, tenant |-> NoTenant, suffix |-> n.suffix]
=============================================================================
