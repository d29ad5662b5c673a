----------------------------- MODULE MCCheckJob -----------------------------
(***************************************************************************)
(* Small instances of CheckJob: three heads, one of them with a path that   *)
(* is refused, and texts that the two parsers read differently.            *)
(***************************************************************************)
EXTENDS CheckJob

CONSTANTS
    none,              \* no path, text, entry set or sha
    apps, both, empty  \* texts; model values, comparable with entry sets

MCPaths == {"app", "doc", "bad"}
MCRefusedPaths == {"bad"}

MCEntries == {"app/**", "doc/**", "**"}
MCRefusedEntries == {"**"}
MCCovers == [e \in MCEntries |->
                CASE e = "app/**" -> {"app"}
                  [] e = "doc/**" -> {"doc"}
                  [] OTHER -> MCPaths]

MCTexts == {apps, both, empty}
MCBodyEntries == [t \in MCTexts |->
                    CASE t = apps -> {"app/**"}
                      [] t = both -> {"app/**", "doc/**"}
                      [] OTHER -> {}]
\* Read line by line, `both` has one entry less, and `apps` a refused one.
MCManifestEntries == [t \in MCTexts |->
                    CASE t = apps -> {"app/**", "**"}
                      [] t = both -> {"app/**"}
                      [] OTHER -> {}]

Modified(p) == [filename |-> p, previous |-> none]
Renamed(p, q) == [filename |-> q, previous |-> p]

MCFiles ==
    [h1 |-> <<Modified("app")>>,
     h2 |-> <<Renamed("doc", "app")>>,
     h3 |-> <<Modified("app"), Modified("bad")>>]

MCBodies == {apps, both, none}

Policy(known, source, trust, entries, pin) ==
    [known |-> known, canonical |-> TRUE, source |-> source, trust |-> trust,
     entries |-> entries, pin |-> pin]

\* An integer beyond 2^53, or a lone surrogate, somewhere in the document.
Uncanonical(p) == [p EXCEPT !.canonical = FALSE]

UnknownPolicy == Policy(FALSE, "pr_body_allowlist", "advisory", none, apps)

\* examples/action/policy.json and one of every other kind.
BodyPolicy == Policy(TRUE, "pr_body_allowlist", "advisory", none, apps)

AllPolicies ==
    {BodyPolicy,
     Policy(TRUE, "pinned", "blocking", none, both),
     Policy(TRUE, "file", "blocking", none, apps),
     Policy(TRUE, "file", "blocking", {"app/**", "doc/**"}, apps),
     Policy(TRUE, "file", "advisory", {"app/**", "**"}, apps),
     Policy(TRUE, "pr_body_allowlist", "none", none, apps),
     UnknownPolicy, Uncanonical(UnknownPolicy), Uncanonical(BodyPolicy)}
OnlyBodyPolicy == {BodyPolicy}
=============================================================================
