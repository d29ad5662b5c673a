---------------------------- MODULE MCCollection ----------------------------
(***************************************************************************)
(* Small instances of Collection for TLC.  With PageSize = 2 and Ceiling   *)
(* = 4 a listing has at most two pages, as 3000 files have thirty, and the  *)
(* comparisons below have none to five files: short of a page, a full page *)
(* and more, the ceiling and beyond it.                                    *)
(***************************************************************************)
EXTENDS Collection

CONSTANTS none       \* a model value that is no path, text, entry set or sha

MCPaths == {"app", "app2", "doc", "etc", "bad", "Bad"}
MCRefusedPaths == {"bad"}
MCCollisions == {{"Bad", "bad"}}

MCEntries == {"app/**", "doc/**", "**"}
MCRefusedEntries == {"**"}
MCCovers == [e \in MCEntries |->
                CASE e = "app/**" -> {"app", "app2"}
                  [] e = "doc/**" -> {"doc"}
                  [] OTHER -> MCPaths]

MCTexts == {"apps", "both", "wide", "blank"}
MCTextEntries == [t \in MCTexts |->
                    CASE t = "apps" -> {"app/**"}
                      [] t = "both" -> {"app/**", "doc/**"}
                      [] t = "wide" -> {"app/**", "**"}
                      [] OTHER -> {}]

Modified(p) == [filename |-> p, previous |-> none]
Renamed(p, q) == [filename |-> q, previous |-> p]

\* h1 and h2 have as many files, so that the count read back tells nothing;
\* h3 reaches and passes the ceiling; h4 renames a path that is refused;
\* h5 is a plain change of one file.
MCListing ==
    [h1 |-> [b1 |-> <<Modified("app"), Modified("app2"), Modified("doc")>>,
             b2 |-> <<Modified("doc"), Renamed("etc", "app"), Modified("app2")>>],
     h2 |-> [b1 |-> <<Modified("doc"), Modified("app"), Renamed("etc", "app2")>>,
             b2 |-> <<Modified("app")>>],
     h3 |-> [b1 |-> <<Modified("app"), Modified("app2"), Modified("doc"),
                      Modified("etc"), Modified("Bad")>>,
             b2 |-> <<Modified("app"), Modified("app2"), Modified("doc"),
                      Modified("etc")>>],
     h4 |-> [b1 |-> <<Renamed("bad", "app")>>, b2 |-> <<>>],
     h5 |-> [b1 |-> <<Modified("app")>>, b2 |-> <<Modified("etc")>>]]

MCFiles == [h \in Heads |-> [b \in Bases |-> MCListing[h][b]]]

MCManifest == [b \in Bases |-> IF b = "b1" THEN "both" ELSE none]

Policy(source, trust, entries, pin) ==
    [known |-> TRUE, canonical |-> TRUE, source |-> source, trust |-> trust,
     entries |-> entries, pin |-> pin]

Invoke(policy, target, pinned) ==
    [policy |-> policy, target |-> target, pinned |-> pinned]

BodyPolicy == Policy("pr_body_allowlist", "advisory", none, "apps")
FilePolicy == Policy("file", "blocking", none, "apps")

\* One run: the body's allowlist, judged at the head.
BodyRequests == {Invoke(BodyPolicy, "head", none)}

\* One run per way a scope can be declared, refused or missing.
AllRequests ==
    {Invoke(policy, target, none) :
        policy \in {BodyPolicy, FilePolicy,
                    Policy("pr_body_allowlist", "blocking", none, "apps"),
                    Policy("pr_body_allowlist", "none", none, "apps"),
                    Policy("file", "advisory", {}, "apps"),
                    Policy("file", "advisory", {"app/**", "**"}, "apps"),
                    Policy("file", "blocking", {"app/**", "doc/**"}, "apps"),
                    [BodyPolicy EXCEPT !.known = FALSE],
                    [BodyPolicy EXCEPT !.known = FALSE, !.canonical = FALSE],
                    [BodyPolicy EXCEPT !.canonical = FALSE]},
        target \in {"head", "test_merge"}}
    \cup {Invoke(Policy("pinned", "blocking", none, "both"), "head", t) :
             t \in {none, "both", "apps"}}
=============================================================================
