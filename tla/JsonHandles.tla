---------------------------- MODULE JsonHandles ----------------------------
(***************************************************************************)
(* Who owns a JSON value (crates/zpr/src/json.rs, class TZprJson in        *)
(* pascal/Zpr.pas).  Wrapper number i holds the i-th handle.  A value that *)
(* is pushed or set is moved out of its handle, into its parent; the       *)
(* wrapper learns of it only if the call succeeded.                        *)
(*                                                                         *)
(* The host keeps the documented rule: it does not use, nor free, a        *)
(* wrapper it has handed over; but it may free one it handed over with     *)
(* success, which only frees the object.                                   *)
(***************************************************************************)
EXTENDS Naturals, LastError

CONSTANT Wrappers, Owner    \* the thread that builds the tree

ASSUME OwnerAssumption == Owner \in Threads

VARIABLES
    box,        \* per wrapper: the memory of its handle: "none", "null", "live", "freed"
    kind,       \* of the value in it: "scalar", "array", "object"
    wrapper,    \* the object: "none" or "live"; its number is used again
    owns,       \* FOwnsHandle
    handed      \* history: given to Push or SetField: "no", "yes", "vain" (consumed, but ERR)

jsonVars == <<box, kind, wrapper, owns, handed>>

Kinds == {"scalar", "array", "object"}

JsonInit ==
    /\ box = [i \in Wrappers |-> "none"] /\ kind = [i \in Wrappers |-> "scalar"]
    /\ wrapper = [i \in Wrappers |-> "none"] /\ owns = [i \in Wrappers |-> FALSE]
    /\ handed = [i \in Wrappers |-> "no"]

Usable(i) == wrapper[i] = "live" /\ handed[i] = "no"
Fails(failure) == Fail(Owner, failure)
Succeeds == UNCHANGED errorVars

\* CreateFromHandle(handle, True)
Wrap(i, memory, k) ==
    /\ wrapper[i] = "none" /\ box[i] = "none"
    /\ box' = [box EXCEPT ![i] = memory] /\ kind' = [kind EXCEPT ![i] = k]
    /\ wrapper' = [wrapper EXCEPT ![i] = "live"] /\ owns' = [owns EXCEPT ![i] = TRUE]
    /\ UNCHANGED handed

\* zpr_json_new_*, and parse of a good text
New(i) == (\E k \in Kinds : Wrap(i, "live", k)) /\ Succeeds

\* NewString does not look at what zpr_json_new_string answers for a text that is not UTF-8.
NewNull(i) == Wrap(i, "null", "scalar") /\ SetLastError(Owner, "json") /\ UNCHANGED failing

Parse == Fails("json") /\ UNCHANGED jsonVars

\* GetItem and GetField: a handle of its own, with a copy of the element
Get(i, from) ==
    /\ Usable(from) /\ box[from] = "live" /\ kind[from] # "scalar"
    /\ New(i)

-----------------------------------------------------------------------------
(* Push and SetField *)

Target(call) == IF call = "push" THEN "array" ELSE "object"

\* Faulty: the value is taken before the key is looked at.
Taken_First(key_ok) == TRUE
Taken(key_ok) == key_ok

Disowned(ok) == ok

\* A NULL handle: nothing is touched.
PutNull(into, i) ==
    /\ Usable(into) /\ Usable(i) /\ into # i /\ "null" \in {box[into], box[i]}
    /\ Fails(Silent) /\ UNCHANGED jsonVars

\* The value in `i` is moved out of its box, and then into `into`, if that is of the kind
\* the call is for.  A key that is not UTF-8 is refused before.
Put(into, i) ==
    /\ Usable(into) /\ Usable(i) /\ into # i /\ box[into] = "live" /\ box[i] = "live"
    /\ \E call \in {"push", "set"}, key_ok \in BOOLEAN :
         LET fits == kind[into] = Target(call)
             ok == key_ok /\ fits
         IN  /\ call = "push" => key_ok
             /\ box' = IF Taken(key_ok) THEN [box EXCEPT ![i] = "freed"] ELSE box
             /\ kind' = IF Taken(key_ok) THEN [kind EXCEPT ![i] = "scalar"] ELSE kind
             /\ owns' = [owns EXCEPT ![i] = ~Disowned(ok)]
             /\ handed' = [handed EXCEPT ![i] = IF ok THEN "yes" ELSE IF key_ok THEN "vain" ELSE @]
             /\ IF ok THEN Succeeds ELSE Fails(IF key_ok THEN Silent ELSE "json")
    /\ UNCHANGED wrapper

\* Destroy, with what the tree holds
Destroy(i) ==
    /\ wrapper[i] = "live" /\ handed[i] # "vain"
    /\ wrapper' = [wrapper EXCEPT ![i] = "none"]
    /\ box' = IF owns[i] \/ box[i] = "freed" THEN [box EXCEPT ![i] = "none"] ELSE box
    /\ kind' = [kind EXCEPT ![i] = "scalar"] /\ owns' = [owns EXCEPT ![i] = FALSE]
    /\ handed' = [handed EXCEPT ![i] = "no"]
    /\ Succeeds

JsonStep ==
    /\ Calm(Owner)
    /\ \/ Parse
       \/ \E i \in Wrappers : New(i) \/ NewNull(i) \/ Destroy(i)
       \/ \E i, j \in Wrappers : Get(i, j) \/ PutNull(i, j) \/ Put(i, j)

-----------------------------------------------------------------------------
(* Properties *)

\* Every value that still has a box of its own has a wrapper that will free it, and a
\* wrapper that will free its handle has one, also after calls that failed: only a Push
\* or SetField that consumed the value and then failed leaves a wrapper whose handle is
\* gone.
OneOwner ==
    \A i \in Wrappers :
        /\ box[i] = "live" => wrapper[i] = "live" /\ owns[i]
        /\ wrapper[i] = "live" /\ owns[i] /\ handed[i] # "vain" => box[i] \in {"live", "null"}

-----------------------------------------------------------------------------
(* What a comment of the code says, and the code does not do *)

\* Zpr.pas:132, "Every instance owns its handle and frees it on destruction, EXCEPT after
\* being handed to Push/SetField, which transfer ownership into the parent value".
HandedNotOwned ==
    \A i \in Wrappers : wrapper[i] = "live" /\ box[i] = "freed" => ~owns[i]
=============================================================================
