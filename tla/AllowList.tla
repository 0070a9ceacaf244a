----------------------------- MODULE AllowList ------------------------------
(***************************************************************************)
(* The token allowlist of contracts/escrow/src/storage.rs and the check    *)
(* that create makes against it.  add_to_allowlist and                     *)
(* remove_from_allowlist are kept for a future admin entry point: in this  *)
(* version of the contract nothing calls them.                             *)
(***************************************************************************)
EXTENDS Naturals, Sequences, FiniteSets, Lists

CONSTANTS
    Tokens,   \* token addresses
    NoList    \* an absent storage entry, and no return value

ASSUME AllowAssumption == NoList \notin Tokens /\ NoList \notin Seq(Tokens) /\ NoList \notin BOOLEAN

VARIABLES
    tokens,   \* AllowListKey::Tokens, a Vec<Address> or NoList
    held,     \* the token of the stored escrow, or NoList
    answer    \* what the last call returned, NoList for create

allow_vars == <<tokens, held, answer>>

read_allowed_tokens == IF tokens = NoList THEN << >> ELSE tokens

Listed(ts) == {ts[i] : i \in DOMAIN ts}

AllowInit == tokens = NoList /\ held = NoList /\ answer = NoList

\* Mutant: a token that is on the list already is added again.
add_to_allowlist_twice(token) ==
    /\ tokens' = Append(read_allowed_tokens, token)
    /\ answer' = TRUE
    /\ UNCHANGED held

add_to_allowlist(token) ==
    /\ IF token \in Listed(read_allowed_tokens)
       THEN tokens' = tokens /\ answer' = FALSE
       ELSE tokens' = Append(read_allowed_tokens, token) /\ answer' = TRUE
    /\ UNCHANGED held

\* Mutant: the new length is compared with <=, so every removal succeeds.
remove_from_allowlist_le(token) ==
    LET new_tokens == Only(read_allowed_tokens, Tokens \ {token})
    IN  /\ tokens' = new_tokens /\ answer' = TRUE
        /\ UNCHANGED held

remove_from_allowlist(token) ==
    LET new_tokens == Only(read_allowed_tokens, Tokens \ {token})
    IN  /\ IF Len(new_tokens) < Len(read_allowed_tokens)
           THEN tokens' = new_tokens /\ answer' = TRUE
           ELSE tokens' = tokens /\ answer' = FALSE
        /\ UNCHANGED held

\* create's check: an empty list admits every token.
Accepts(token) == read_allowed_tokens = << >> \/ token \in Listed(read_allowed_tokens)

create(token) ==
    /\ held = NoList
    /\ Accepts(token)
    /\ held' = token
    /\ answer' = NoList
    /\ UNCHANGED tokens

AllowNext == \E t \in Tokens : add_to_allowlist(t) \/ remove_from_allowlist(t) \/ create(t)

AllowSpec == AllowInit /\ [][AllowNext]_allow_vars

-----------------------------------------------------------------------------
(* Properties *)

(***************************************************************************)
(* No token is listed twice, whatever the order of additions and removals, *)
(* so that one removal is enough to take a token off the list.             *)
(***************************************************************************)
ListedOnce == Cardinality(Listed(read_allowed_tokens)) = Len(read_allowed_tokens)

(***************************************************************************)
(* A call answers true exactly when it changed the list, and then it added *)
(* or took away one token and kept the order of all the others; acceptance *)
(* of any other token changes only where the list becomes, or stops being, *)
(* empty.                                                                  *)
(***************************************************************************)
OneAtATime ==
    [][LET old == read_allowed_tokens
           new == read_allowed_tokens'
       IN  IF answer' = TRUE
           THEN \E t \in Tokens :
                   /\ t \in Listed(old) <=> t \notin Listed(new)
                   /\ Only(old, Tokens \ {t}) = Only(new, Tokens \ {t})
                   /\ \A u \in Tokens \ {t} :
                         Accepts(u)' # Accepts(u) => old = << >> \/ new = << >>
           ELSE new = old]_allow_vars

=============================================================================
