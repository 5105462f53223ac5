--------------------------- MODULE MCVerification ---------------------------
EXTENDS Verification
Run(text, words, has, safe) == [text |-> text, words |-> words, has |-> has, safe |-> safe]
UnitTest == Run("cargo test", "cargo test", {"test"}, TRUE)
SameTest == Run("cargo  test", "cargo test", {"test"}, TRUE)
Axe == Run("npm run a11y", "npm run a11y", {"accessibility"}, TRUE)
EndToEnd == Run("npm run test:e2e", "npm run test:e2e", {"browser", "test"}, TRUE)
Migrate == Run("npm run test:db", "npm run test:db", {"database", "test"}, TRUE)
Audit == Run("npm run audit", "npm run audit", {"security"}, TRUE)
Licenses == Run("npm run licenses", "npm run licenses", {"security", "license"}, TRUE)
Package == Run("npm run test:package", "npm run test:package", {"package", "test"}, TRUE)
Push == Run("git push", "git push", {}, FALSE)
Scripts == <<Migrate, EndToEnd, Axe, Audit, Licenses, Package>>
Cargo == <<Run("cargo fmt --check", "cargo fmt --check", {"lint", "build"}, TRUE), UnitTest>>

Found(commands, scripts, cargo, scopes) ==
    [commands |-> commands, scripts |-> scripts, cargo |-> cargo, scopes |-> scopes]
WebProject == Found(<<EndToEnd>>, {}, FALSE, {"ui"})
ExecutedProjects == {WebProject}

AllProjects ==
    {Found(c, s, r, k) :
       c \in {<<UnitTest, SameTest>>, <<Axe, UnitTest>>, <<Push>>},
       s \in SUBSET {Scripts[i].text : i \in DOMAIN Scripts}, r \in BOOLEAN,
       k \in SUBSET {"database", "ui", "dependency", "packaging"}}
    \union ExecutedProjects
Browsed(operations, matches) == [operations |-> operations, matches |-> matches]
Receipts ==
    {Browsed(<<"open", "snapshot", "close">>, TRUE), Browsed(<<"snapshot", "open", "close">>, TRUE)}
=============================================================================
