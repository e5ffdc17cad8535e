------------------------------- MODULE Gate -------------------------------
(***************************************************************************)
(* The policy gate every call to a connector passes (guardrails.evaluate), *)
(* and what the agent is told of it beforehand (annotate_tools).  Pure     *)
(* functions of the connector's settings, which each call reads anew.      *)
(*                                                                         *)
(* A list of globs is the set of tools it matches, and a call's arguments  *)
(* are the accounts they name in the two levels that are searched.         *)
(***************************************************************************)
EXTENDS FiniteSets

CONSTANTS
  Setting,  \* the settings of connectors
  Tool,
  Account,
  NoSpec

VARIABLE spec  \* the settings a call goes by, NoSpec before it has read them

GateInit == spec = NoSpec

\* hub.spec reads the registry at the start of a call or a listing.
ReadSpec == spec = NoSpec /\ spec' \in Setting
CallOver == spec # NoSpec /\ spec' = NoSpec

GateSpec == GateInit /\ [][ReadSpec \/ CallOver]_spec

Hint == {"reads", "writes", "silent"}   \* the server's readOnlyHint

\* classify_write: settings, then the hint, then the name, then the default.
IsWrite(s, tool, hint) ==
  CASE tool \in s.read_only_tools -> FALSE
    [] tool \in s.write_tools \ s.read_only_tools -> TRUE
    [] OTHER -> hint = "writes" \/ (hint = "silent" /\ (tool \in s.prefixed \/ s.unknown_is_write))

Tiered(s) == s.allow # {} \/ s.read # {}

\* Mutant of AccountsPass: the tier is looked up before the kind of call is known.
AnyTierPasses(s, write, named, presence) ==
  IF ~Tiered(s) THEN ~(write /\ s.broker)
  ELSE /\ named \subseteq s.allow \cup s.read
       /\ write /\ presence /\ s.require_account_arg => named # {}

\* check_accounts.  Without tiers a broker takes no write; with them a write must
\* name its account, except where the arguments are not known yet.
AccountsPass(s, write, named, presence) ==
  IF ~Tiered(s) THEN ~(write /\ s.broker)
  ELSE /\ named \subseteq s.allow \cup (IF write THEN {} ELSE s.read)
       /\ write /\ presence /\ s.require_account_arg => named # {}

\* evaluate.
Passes(s, tool, hint, named, presence) ==
  /\ s.enabled
  /\ tool \notin s.deny_tools /\ (s.allow_tools # {} => tool \in s.allow_tools)
  /\ IsWrite(s, tool, hint) => s.allow_writes
  /\ AccountsPass(s, IsWrite(s, tool, hint), named, presence)

Decision(s, tool, hint, named, presence) ==
  IF ~Passes(s, tool, hint, named, presence) THEN "deny"
  ELSE IF tool \in s.require_for THEN "approve" ELSE "allow"

\* Mutant of Advertised: the accounts no argument names yet are asked for.
AdvertisedStrictly(s, tool, hint) == Decision(s, tool, hint, {}, TRUE)

\* annotate_tools: the verdict on a call without arguments.
Advertised(s, tool, hint) == Decision(s, tool, hint, {}, FALSE)

----------------------------------------------------------------------------
(* Properties.                                                             *)

\* A write that is not denied was permitted by the owner and, where there are
\* tiers, names accounts of the full-access tier only.  On a broker it names one,
\* EXCEPT where require_account_arg is off: a write that names none then passes on
\* the strength of any tier, one for reading only included, with no account
\* confirmed for trading at all (guardrails.py:99-104, 119-124).
NamedWritesAreConfirmed ==
  spec # NoSpec => \A tool \in Tool, hint \in Hint, named \in SUBSET Account :
    IsWrite(spec, tool, hint) /\ Decision(spec, tool, hint, named, TRUE) # "deny" =>
      /\ spec.allow_writes
      /\ Tiered(spec) => named \subseteq spec.allow
      /\ spec.broker => \/ named \cap spec.allow # {}
                        \/ named = {} /\ ~spec.require_account_arg /\ Tiered(spec)

\* The agent is not told that a tool is closed to it when some call would pass, nor
\* that it needs no approval when one would be asked for.
AdvertisedCoversGranted ==
  spec # NoSpec => \A tool \in Tool, hint \in Hint, named \in SUBSET Account :
    LET verdict == Decision(spec, tool, hint, named, TRUE)
    IN verdict # "deny" => Advertised(spec, tool, hint) = verdict
============================================================================
