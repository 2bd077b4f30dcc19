--------------------------- MODULE MCGlobalRebind ---------------------------
(***************************************************************************)
(* Instances of GlobalRebind.  The functions f and g live in a library     *)
(* outside the model.  The application "app" imports them, the hook        *)
(* libraries "h1" and "h2" define the replacements f1, g1 and f2, g2, and  *)
(* whatever is not loaded at first may be opened at any time.              *)
(***************************************************************************)
EXTENDS GlobalRebind

MCAddresses == {"f", "g", "f1", "g1", "f2", "g2"}
MCDefinedIn ==
    [a \in MCAddresses \union {Null} |->
        CASE a \in {"f1", "g1"} -> "h1"
          [] a \in {"f2", "g2"} /\ "h2" \in Images -> "h2"
          [] OTHER              -> None]

Raw(a)       == [addr |-> a, sig |-> Unsigned]
Decorated(a) == [addr |-> a, sig |-> Foreign]
Plain(p) == [type |-> "nonlazy", usable |-> TRUE, auth |-> FALSE,
             writable |-> TRUE, binding |-> p]
Lazy(p)  == [Plain(p) EXCEPT !.type = "lazy"]
AuthGot(a, i, k) == [Plain([addr |-> a, sig |-> <<i, k>>]) EXCEPT !.auth = TRUE]

(***************************************************************************)
(* Distinct: an arm64e process.  r1 redirects f to f1 everywhere, r2       *)
(* redirects g to g2 where its filter lets it.  The callers pass signed    *)
(* pointers.  "bad" has a load-command table that does not validate.       *)
(***************************************************************************)
DistinctImages == {"app", "h1", "h2", "late", "bad"}
DistinctWellFormed == DistinctImages \ {"bad"}
DistinctReplacee ==
    [r \in {"r1", "r2"} |-> IF r = "r1" THEN Decorated("f") ELSE Decorated("g")]
DistinctReplacement ==
    [r \in {"r1", "r2"} |-> IF r = "r1" THEN Decorated("f1") ELSE Decorated("g2")]
DistinctAccepts ==
    [r \in {"r1", "r2"} |-> IF r = "r1" THEN DistinctImages ELSE {"app", "h2", "late"}]
DistinctLayout ==
    [i \in DistinctImages |->
        CASE i = "app" -> <<AuthGot("f", "app", 1), Lazy(Raw("g"))>>
          [] i = "h1"  -> <<Plain(Raw("f")), Plain(Raw("g"))>>
          [] i = "h2"  -> <<AuthGot("g", "h2", 1), Plain(Raw("f"))>>
          [] i = "bad" -> <<Plain(Raw("f"))>>
          [] i = "late" -> <<[Plain(Raw("f")) EXCEPT !.writable = FALSE],
                             Plain(Decorated("f")),
                             [Plain(Raw("f")) EXCEPT !.type = "other"],
                             Lazy(Raw("g"))>>]
DistinctInitial == <<"app", "h1", "h2", "bad">>
NoTarget == <<>>
(***************************************************************************)
(* Shared: an arm64 process in which r1 and r2 redirect the same f, and l1 *)
(* redirects the f of app alone.                                           *)
(***************************************************************************)
SharedCalls == {"r1", "r2", "l1"}
SharedImages == {"app", "h1", "h2"}
SharedReplacee == [r \in SharedCalls |-> Raw("f")]
SharedReplacement ==
    [r \in SharedCalls |-> CASE r = "r1" -> Raw("f1")
                             [] r = "r2" -> Raw("f2")
                             [] r = "l1" -> Raw("g1")]
SharedAccepts == [r \in {"r1", "r2"} |-> SharedImages]
SharedTarget == [r \in {"l1"} |-> "app"]
SharedLayout == [i \in SharedImages |-> <<Plain(Raw("f"))>>]
SharedInitial == <<"h1", "h2">>

(***************************************************************************)
(* Unloading: "plugin" comes and goes while r1 redirects f, r2 redirects g *)
(* and l1 redirects the f of the plugin alone.                             *)
(***************************************************************************)
UnloadImages == {"plugin", "app", "h1"}
UnloadReplacee == [r \in Calls |-> IF r = "r2" THEN Raw("g") ELSE Raw("f")]
UnloadReplacement == [r \in Calls |-> IF r = "r2" THEN Raw("g1") ELSE Raw("f1")]
UnloadTarget == [r \in Locals |-> "plugin"]
UnloadAccepts == [r \in {"r1", "r2"} |-> UnloadImages]
UnloadLayout ==
    [i \in UnloadImages |-> IF i = "app" THEN <<Plain(Raw("f")), Plain(Raw("g"))>>
                                         ELSE <<Plain(Raw("f"))>>]
UnloadInitial == <<"plugin", "app", "h1">>
=============================================================================
