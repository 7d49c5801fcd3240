----------------------------- MODULE RpcMethods -----------------------------
(***************************************************************************)
(* The JSON-RPC account methods as questions (api/src/methods and their    *)
(* arms in http/rpc.rs): each turns its parameters into the accounts it    *)
(* reads, the filter, the encoding and the commitment, and differs in what *)
(* it refuses, before the read or after it, and in what it makes of a      *)
(* missing account.  Module ApiServing answers them.                       *)
(*                                                                         *)
(* Every method starts a span, takes a guard, counts and times itself in   *)
(* its arm of rpc.rs; a parameter that does not parse is answered with an  *)
(* error before any state is read.  Both are left out.                     *)
(***************************************************************************)
EXTENDS Naturals, FiniteSets

CONSTANTS UseConfirmed,         \* processed-commitment = "use-confirmed"
          MaxMultipleAccounts   \* max-multiple-accounts

ASSUME MethodsAssumption == UseConfirmed \in BOOLEAN /\ MaxMultipleAccounts \in Nat

Commitments == {"confirmed", "finalized"}

\* resolve_commitment: finalized unless said otherwise; processed is served as
\* confirmed, or refused.
Resolved(level) ==
  CASE level = "processed" -> "confirmed"
    [] level = "none"      -> "finalized"
    [] OTHER               -> level

CommitmentRefused(q) == q.asked = "processed" /\ ~UseConfirmed

\* selected: the accounts' program passes the indexer filter; mintFirst: the mint
\* of a {mint} filter is read before the accounts.
Question(kind, keys, level) ==
  [kind |-> kind, keys |-> keys, asked |-> level, commitment |-> Resolved(level),
   filter |-> "none", json |-> FALSE, mintFirst |-> FALSE, selected |-> TRUE, minSlot |-> 0]

GetAccountInfo(k, json, level) == [Question("account", {k}, level) EXCEPT !.json = json]

GetMultipleAccounts(keys, json, level) ==
  [Question("accounts", keys, level) EXCEPT !.json = json]

GetBalance(k, level) == Question("balance", {k}, level)

\* Both need the parsed account: a balance its mint too, a supply the mint itself.
GetTokenAccountBalance(k, level) == [Question("tokenBalance", {k}, level) EXCEPT !.json = TRUE]

GetTokenSupply(k, level) == Question("tokenSupply", {k}, level)

GetSlot(level) == Question("slot", {}, level)

GetHealth == Question("health", {}, "none")

GetProgramAccounts(keys, filter, json, level) ==
  [Question("gpa", keys, level) EXCEPT !.filter = filter, !.json = json]

\* The token methods are program reads with filters on the data.
GetTokenAccountsByMint(keys, json, level) == GetProgramAccounts(keys, "data", json, level)

GetTokenAccountsByOwner(keys, byMint, json, level) ==
  [GetProgramAccounts(keys, "data", json, level) EXCEPT !.mintFirst = byMint]

GetTokenAccountsByDelegate(keys, byMint, json, level) ==
  [GetProgramAccounts(keys, "data", json, level) EXCEPT !.mintFirst = byMint]

SimulateTransaction(keys, level) == Question("simulate", keys, level)

-----------------------------------------------------------------------------
\* The arms that stream their answer; those answered by processed::read_accounts,
\* of them the token ones; and those answered by one statement that reads the slot
\* too.  All but the last fix their slot first.
ProgramReads == {"gpa"}
TokenReads == {"tokenBalance", "tokenSupply"}
PointReads == {"account", "accounts"} \cup TokenReads
InOneStatement == {"balance", "slot", "health"}

\* What every method sees to: only the program reads take filters.
WellFormedQuestion(q) ==
  /\ q.asked \in Commitments \cup {"processed", "none"}
  /\ q.commitment = Resolved(q.asked)
  /\ q.filter \in {"none", "data", "valueCmp"}
  /\ q.filter # "none" => q.kind \in ProgramReads

\* Refused before the slot is fixed: only a program read knows its owner by then.
ProgramRefused(q) == q.kind \in ProgramReads /\ ~q.selected

TooManyInputs(q) == q.kind = "accounts" /\ Cardinality(q.keys) > MaxMultipleAccounts

Refused(q) == CommitmentRefused(q) \/ ProgramRefused(q) \/ TooManyInputs(q)

\* Refused after the read: an account of a program that is not selected, which
\* getMultipleAccounts leaves out instead; by a token method, one that is missing
\* or not what it should be; a balance whose mint is missing.
OwnerExcluded(q, exists) == exists /\ ~q.selected /\ q.kind # "accounts"

NotAToken(q, exists, sound) == q.kind \in TokenReads /\ ~(exists /\ sound)

MintNotFound(q, hasMint) == q.kind = "tokenBalance" /\ ~hasMint

=============================================================================
