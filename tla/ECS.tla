--------------------------------- MODULE ECS ---------------------------------
(***************************************************************************)
(* Which client subnet a query is resolved for: internal/ecs/ecs.go.       *)
(* An address is its family ("v4", "v6", "mapped" for an IPv4-mapped IPv6   *)
(* address, "text" for what does not parse) and its number; a subnet is     *)
(* its family, its length and the leading bits of that many.  Nothing is   *)
(* the empty string of the code.                                           *)
(***************************************************************************)
EXTENDS Integers

CONSTANTS
    Width,       \* bits of an address of each family
    DefaultBits  \* length used where the configured one is out of range

ASSUME WidthAssumption ==
    \A f \in {"v4", "v6"} : Width[f] \in Nat /\ DefaultBits[f] \in 1..Width[f]

Nothing == [subnet |-> FALSE]

\* The zero netip.Prefix, whose text "invalid Prefix" does not parse.
InvalidPrefix == [invalid |-> TRUE]

\* ApplyToMessage parses the subnet again to put it in place of the client's own option.
Sendable(s) == s # InvalidPrefix

Bare == -1  \* the length of an explicit address without one

Unmap(a) == IF a.fam = "mapped" THEN [a EXCEPT !.fam = "v4"] ELSE a

\* netip.PrefixFrom(a, bits).Masked()
Prefix(a, bits) ==
    IF bits \in 0..Width[a.fam]
    THEN [fam |-> a.fam, bits |-> bits, net |-> a.n \div 2^(Width[a.fam] - bits)]
    ELSE InvalidPrefix

\* A length from the configuration.
MaskFor(fam, masks) == IF masks[fam] \in 1..Width[fam] THEN masks[fam] ELSE DefaultBits[fam]

Capped(a, bits, max) ==
    Prefix(a, IF bits > MaskFor(a.fam, max) THEN MaskFor(a.fam, max) ELSE bits)

VisitorFromIP(ip, masks) ==
    IF ip.fam = "text" THEN Nothing ELSE Prefix(Unmap(ip), MaskFor(Unmap(ip).fam, masks))

\* An explicit subnet, or Nothing.  One of more bits than its unmapped address has is invalid
\* from then on, and is not capped any more.
NormalizeExplicit(v, max) ==
    IF v = Nothing THEN Nothing
    ELSE LET a == Unmap(v.addr)
         IN  IF v.bits = Bare THEN Prefix(a, MaskFor(a.fam, max))
             ELSE IF v.bits > Width[a.fam] THEN InvalidPrefix
             ELSE Capped(a, v.bits, max)

\* The first four bytes of an IPv4 option's address; a library that hands it over mapped into
\* sixteen bytes has zeros there.
EcsAddr(option) == IF option.sixteen THEN [option.addr EXCEPT !.n = 0] ELSE option.addr

\* Variant: the length as the client gave it.
ExtractUncapped(option, max) ==
    IF option = Nothing \/ option.addr.fam = "text" THEN Nothing
    ELSE Prefix(Unmap(EcsAddr(option)), option.bits)

\* The first subnet option of the message; one of another family ("text") ends the search.
ExtractClientFromDNS(option, max) ==
    IF option = Nothing \/ option.addr.fam = "text" THEN Nothing
    ELSE Capped(Unmap(EcsAddr(option)), option.bits, max)

Select(mode, visitor, client) ==
    CASE mode = "visitor" -> visitor [] mode = "client" -> client [] OTHER -> Nothing
=============================================================================
