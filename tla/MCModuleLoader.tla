--------------------------- MODULE MCModuleLoader ---------------------------
(***************************************************************************)
(* A module m that others may import, a route r, a context file c and a    *)
(* middleware file w; each run takes the files its question is about.      *)
(* Two contents per file are enough for an old and a new one.              *)
(***************************************************************************)
EXTENDS ModuleLoader, TLC
CONSTANTS m, r, c, w,
          v1, v2, bad,      \* no imports; bad cannot be imported
          usesM, usesR,     \* import m, or r
          usesPackage,      \* imports a package, then m
          throwing          \* imports m; its Context constructor throws
MCContents == {v1, v2, bad, usesM, usesR, usesPackage, throwing}
MCImports == [x \in MCContents |->
                CASE x \in {usesM, throwing} -> <<m>>
                  [] x = usesR -> <<r>>
                  [] x = usesPackage -> <<Package, m>>
                  [] OTHER -> <<>>]
JustBad == {bad}
JustThrowing == {throwing}
Nothing == {}

\* A route, a middleware and a context that import nothing.
PlainFiles == {r, w, c}
PlainAllowed == r :> {v1, bad} @@ w :> {v1, v2} @@ c :> {v1, v2}
JustW == {w}
JustR == {r}

\* A chain of imports, r -> m and c -> r, and cycles when m imports r.
LinkedFiles == {m, r, c}
LinkedAllowed == m :> {v1, usesR} @@ r :> {v1, usesM} @@ c :> {usesR}
JustC == {c}

\* A route and the module it imports.
PairFiles == {m, r}
PairAllowed == m :> {v1, v2} @@ r :> {usesM}
PackageAllowed == m :> {v1, v2} @@ r :> {usesPackage}

\* A context that may fail, and a route, which import the same module.
ThrowingAllowed == m :> {v1, v2} @@ r :> {usesM} @@ c :> {usesM, throwing}

\* One context.
OneContext == {c}
ContextAllowed == c :> {v1, v2}
=============================================================================
