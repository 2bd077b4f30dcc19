----------------------------- MODULE Rebinding -----------------------------
(***************************************************************************)
(* What RorkHookRebind.h promises a caller, without the list, the callback *)
(* and the scans: while a call is under way or after it has returned, the  *)
(* words in its scope turn, one by one, from the replacee to the           *)
(* replacement, and no word changes otherwise; a call returns, and dyld    *)
(* lets an image into use, only when nothing is left to be redirected.     *)
(***************************************************************************)
CONSTANTS
    Calls,      \* the calls that may be made
    Images,     \* the images that may be loaded
    Words,      \* the symbol pointers
    ImageOf,    \* word -> its image
    Binding,    \* word -> the address dyld binds it to
    Scope,      \* call -> the words it is to redirect
    From, To,   \* call -> the addresses of replacee and replacement
    Initially   \* the images in use at the start

VARIABLES
    word,       \* word -> the address it holds
    inUse,      \* the images whose code may run
    opening,    \* the images that dyld has bound and not yet let into use
    state       \* call -> "idle", "made", "refused" or "returned"

\* In the images of S, the words w do not call the replacee of r.
Clean(w, r, S) == \A c \in Scope[r] : ImageOf[c] \in S => w[c] # From[r]

Init == /\ word = Binding
        /\ inUse = Initially /\ opening = {}
        /\ state = [r \in Calls |-> "idle"]

Make(r) == /\ state[r] = "idle"
           /\ \E s \in {"made", "refused"} : state' = [state EXCEPT ![r] = s]
           /\ UNCHANGED <<word, inUse, opening>>

Redirect(r, c) == /\ state[r] \in {"made", "returned"}
                  /\ c \in Scope[r] /\ ImageOf[c] \in inUse \union opening
                  /\ word[c] = From[r]
                  /\ word' = [word EXCEPT ![c] = To[r]]
                  /\ UNCHANGED <<inUse, opening, state>>

Finish(r) == /\ state[r] = "made" /\ Clean(word, r, inUse)
             /\ state' = [state EXCEPT ![r] = "returned"]
             /\ UNCHANGED <<word, inUse, opening>>

\* What has returned holds for the images that come into use later.
Admissible(w, i) == \A r \in Calls : state[r] = "returned" => Clean(w, r, {i})

Open(i) == /\ i \notin inUse \union opening
           /\ word' = [c \in Words |-> IF ImageOf[c] = i THEN Binding[c] ELSE word[c]]
           /\ \/ opening' = opening \union {i} /\ UNCHANGED inUse
              \/ /\ Admissible(word', i)
                 /\ inUse' = inUse \union {i} /\ UNCHANGED opening
           /\ UNCHANGED state

Admit(i) == /\ i \in opening /\ Admissible(word, i)
            /\ inUse' = inUse \union {i} /\ opening' = opening \ {i}
            /\ UNCHANGED <<word, state>>

Next == \/ \E r \in Calls : Make(r) \/ Finish(r) \/ \E c \in Words : Redirect(r, c)
        \/ \E i \in Images : Open(i) \/ Admit(i)

Spec == Init /\ [][Next]_<<word, inUse, opening, state>>
=============================================================================
