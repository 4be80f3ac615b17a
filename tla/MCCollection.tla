---- MODULE MCCollection ----
(* Small instances of Collection for TLC. *)
EXTENDS Collection

Item(key, section, type, verified, failed, rank) ==
    [key |-> key, section |-> section, type |-> type,
     verified |-> verified, failed |-> failed, rank |-> rank]

TwoSections == <<"overview", "risks">>
Sources == [overview |-> {"official_site", "docs"}, risks |-> {"official_site", "news"}]
One == [s \in {"overview", "risks"} |-> 1]
Two == [s \in {"overview", "risks"} |-> 2]

\* A seed, which falls back to a locator, and four pages, of which one may fail to
\* load.
Seed == Item("seed", "overview", "official_site", TRUE, FALSE, 7)
SeedLocator == Item("locator", "overview", "official_site", TRUE, TRUE, 6)
Pages == {
    Item("d", "risks", "official_site", TRUE, FALSE, 5),
    Item("a", "overview", "docs", TRUE, FALSE, 4),
    Item("b", "risks", "official_site", TRUE, FALSE, 3),
    Item("c", "risks", "news", TRUE, FALSE, 2),
    Item("c", "risks", "unknown", FALSE, TRUE, 1)}

AllEvidence == Pages \cup {Seed, SeedLocator}

Setting(mockOnly, entities, seeds, answers) ==
    [mockOnly |-> mockOnly, entities |-> entities, seeds |-> seeds, answers |-> answers]
OfflineOrLive == {
    Setting(TRUE, 0, 0, {{}}),
    Setting(FALSE, 1, 1, {{Seed}, {SeedLocator}}),
    Setting(FALSE, 2, 1, {{Seed}, {SeedLocator}})}
====
