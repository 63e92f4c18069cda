------------------------------ MODULE Controls -------------------------------
(***************************************************************************)
(* What an agent's controls come to: the planner resolves the run's        *)
(* capability profile along `extends` (_capability_profile_snapshot in     *)
(* src/baroque/orchestration/planner.py), and QueryBuilder                 *)
(* (src/baroque/builder/query_builder.py) compiles each requested control  *)
(* of a stage into messages and body fields of the provider's request,     *)
(* under the resolved profile.                                             *)
(*                                                                         *)
(* Lists of controls are sets: their order and repetitions are dropped by  *)
(* _unique and by the builder.  The controls of a request are compiled in  *)
(* the order of the dict they come in, which may be any.                   *)
(***************************************************************************)
EXTENDS Naturals, Sequences, SequencesExt, FiniteSets

CONSTANTS
    Inputs,     \* what is configured and requested: records of
                \*   profiles: capability_profiles, a function from ids,
                \*   run: the id of the run's profile,
                \*   request: requested_controls, a function from controls
    NoProfile,  \* extends is None
    Provider,   \* the provider of the endpoint
    AnyProvider \* no provider requirement

\* An example that Message takes, one that is not a dict with a role and a
\* content, and one whose content is neither a text nor a list of dicts.
ExampleKinds == {"ok", "bad", "mistyped"}

ASSUME ControlsAssumption ==
    \A input \in Inputs :
        /\ NoProfile \notin DOMAIN input.profiles
        /\ IsFiniteSet(DOMAIN input.profiles)
        /\ \A c \in DOMAIN input.request : input.request[c].examples \in Seq(ExampleKinds)

VARIABLES
    profiles,  \* the configured capability profiles
    phase,     \* "planning", "compiling", "built", "rejected" or "raised"
    chain,     \* the run's profile and those it extends, from it on
    profile,   \* the resolved capability profile
    request,   \* the stage's requested controls
    todo,      \* those with_controls has still to compile
    effective, \* effective_controls
    dropped,   \* dropped_controls
    messages,  \* the control each system or example message comes from
    body       \* extra_body: where each field comes from: one control or none

vars == <<profiles, phase, chain, profile, request, todo, effective, dropped, messages,
          body>>

BodyFields == {"temperature", "seed"}

NoRequirement == [allowed |-> {}, denied |-> {}, provider |-> AnyProvider]

(***************************************************************************)
(* _capability_profile_snapshot.                                           *)
(***************************************************************************)
Extended(configured, id) ==
    IF id \in DOMAIN configured THEN configured[id].extends ELSE NoProfile

\* The profiles met on the way up, as far as the planner follows them: it
\* gives up when it meets one for the second time.
Chain(configured, id) ==
    LET up[n \in 0..Cardinality(DOMAIN configured)] ==
            IF n = 0 THEN <<id>>
            ELSE LET above == Extended(configured, Last(up[n - 1]))
                 IN  IF above = NoProfile THEN up[n - 1] ELSE Append(up[n - 1], above)
    IN  up[Cardinality(DOMAIN configured)]

\* No unknown profile and no cycle.
Resolvable(ids) == ToSet(ids) \subseteq DOMAIN profiles /\ IsInjective(ids)

\* Mutated form of Extend: a child cannot lift its parent's denials.
ExtendKeepingDenials(child, parent) ==
    LET denied == parent.denied \cup child.denied
    IN  [allowed  |-> (parent.allowed \cup child.allowed) \ denied,
         denied   |-> denied,
         provider |-> IF child.provider = AnyProvider
                      THEN parent.provider ELSE child.provider]

Extend(child, parent) ==
    LET denied == (parent.denied \ child.allowed) \cup child.denied
    IN  [allowed  |-> (parent.allowed \cup child.allowed) \ denied,
         denied   |-> denied,
         provider |-> IF child.provider = AnyProvider
                      THEN parent.provider ELSE child.provider]

\* The last profile of the chain is taken as it is.
Unextended(p) == [allowed |-> p.allowed, denied |-> p.denied, provider |-> p.provider]

\* What the profile at a position of the chain comes to, with all it extends.
Resolve(ids) ==
    LET from[i \in 1..Len(ids)] ==
            IF i = Len(ids) THEN Unextended(profiles[ids[i]])
            ELSE Extend(profiles[ids[i]], from[i + 1])
    IN  from[1]

Init ==
    /\ phase = "planning"
    /\ \E input \in Inputs :
          /\ profiles = input.profiles
          /\ chain = Chain(input.profiles, input.run)
          /\ request = input.request
    /\ profile = NoRequirement
    /\ todo = {}
    /\ effective = {}
    /\ dropped = {}
    /\ messages = << >>
    /\ body = [f \in BodyFields |-> {}]

\* ValueError: while planning, or from the builder's constructor, which the
\* handler turns into a terminal failure of the stage.
Reject ==
    /\ phase = "planning"
    /\ \/ ~Resolvable(chain)
       \/ /\ Resolvable(chain)
          /\ Resolve(chain).provider \notin {AnyProvider, Provider}
    /\ phase' = "rejected"
    /\ UNCHANGED <<profiles, chain, profile, request, todo, effective, dropped, messages,
                   body>>

\* _validate_provider_requirements passes.
StartBuilder ==
    /\ phase = "planning"
    /\ Resolvable(chain)
    /\ Resolve(chain).provider \in {AnyProvider, Provider}
    /\ phase' = "compiling"
    /\ profile' = Resolve(chain)
    /\ todo' = DOMAIN request
    /\ UNCHANGED <<profiles, chain, request, effective, dropped, messages, body>>

(***************************************************************************)
(* _compile_control.  A value says whether it is empty ("empty": None, "", *)
(* no examples, no sampling key that is known), of the wrong form          *)
(* ("invalid"), or usable; of a list of examples it says which are well    *)
(* formed, and of a sampling dict which body fields it sets.               *)
(***************************************************************************)

\* Mutated form of Allowed: the list of allowed controls is asked first.
AllowedFirst(name) ==
    \/ name \in profile.allowed
    \/ profile.allowed = {} /\ name \notin profile.denied

\* _control_allowed: an empty list of allowed controls allows everything.
Allowed(name) ==
    /\ name \notin profile.denied
    /\ profile.allowed = {} \/ name \in profile.allowed

\* How many examples are appended: those before the first malformed one.
ExamplesUsed(value) ==
    Cardinality({i \in DOMAIN value.examples : \A j \in 1..i : value.examples[j] = "ok"})

\* Building the message of an example raises pydantic's ValidationError.
Raises(name, value) ==
    /\ name = "message_examples" /\ value.form = "usable"
    /\ \E i \in DOMAIN value.examples :
          /\ value.examples[i] = "mistyped"
          /\ \A j \in 1..(i - 1) : value.examples[j] = "ok"

WellFormed(value) == \A i \in DOMAIN value.examples : value.examples[i] = "ok"

\* Whether a control that is allowed ends up in effective_controls.
Compiled(name, value) ==
    CASE name \in {"persona_text", "plain_output_instructions", "seed", "sampling"} ->
            value.form # "empty"
      [] name = "message_examples" -> value.form = "usable" /\ WellFormed(value)
      [] name \in {"transcript_policy", "model_choice"} -> TRUE
      [] OTHER -> FALSE

\* The messages a control that is allowed appends.
MessagesOf(name, value) ==
    CASE name \in {"persona_text", "plain_output_instructions"} /\ value.form # "empty" ->
            <<name>>
      [] name = "message_examples" /\ value.form = "usable" ->
            [i \in 1..ExamplesUsed(value) |-> name]
      [] OTHER -> << >>

\* The body fields a control that is allowed sets.
FieldsOf(name, value) ==
    CASE name = "seed" /\ value.form # "empty" -> {"seed"}
      [] name = "sampling" /\ value.form # "empty" -> value.fields
      [] OTHER -> {}

\* Mutated form of CompileControl: what cannot be compiled goes unreported.
CompileSilently(name) ==
    LET value == request[name] IN
    /\ phase = "compiling"
    /\ name \in todo
    /\ ~(Allowed(name) /\ Raises(name, value))
    /\ todo' = todo \ {name}
    /\ IF Allowed(name)
       THEN /\ effective' = IF Compiled(name, value) THEN effective \cup {name} ELSE effective
            /\ messages' = messages \o MessagesOf(name, value)
            /\ body' = [f \in BodyFields |-> IF f \in FieldsOf(name, value) THEN {name} ELSE body[f]]
            /\ UNCHANGED dropped
       ELSE dropped' = dropped \cup {name} /\ UNCHANGED <<effective, messages, body>>
    /\ UNCHANGED <<profiles, phase, chain, profile, request>>

CompileControl(name) ==
    LET value == request[name] IN
    /\ phase = "compiling"
    /\ name \in todo
    /\ todo' = todo \ {name}
    /\ \/ /\ ~Allowed(name)
          /\ dropped' = dropped \cup {name}
          /\ UNCHANGED <<effective, messages, body>>
       \/ /\ Allowed(name)
          /\ ~Raises(name, value)
          /\ IF Compiled(name, value)
             THEN effective' = effective \cup {name} /\ UNCHANGED dropped
             ELSE dropped' = dropped \cup {name} /\ UNCHANGED effective
          /\ messages' = messages \o MessagesOf(name, value)
          /\ body' = [f \in BodyFields |->
                         IF f \in FieldsOf(name, value) THEN {name} ELSE body[f]]
    /\ UNCHANGED <<profiles, phase, chain, profile, request>>

\* The exception leaves with_controls and the handler; the builder is lost.
\* The runner records a failure that is worth a retry, which raises again.
CompileRaises(name) ==
    /\ phase = "compiling"
    /\ name \in todo
    /\ Allowed(name) /\ Raises(name, request[name])
    /\ phase' = "raised"
    /\ UNCHANGED <<profiles, chain, profile, request, todo, effective, dropped, messages,
                   body>>

\* with_user, with_metadata and build.
Build ==
    /\ phase = "compiling"
    /\ todo = {}
    /\ phase' = "built"
    /\ UNCHANGED <<profiles, chain, profile, request, todo, effective, dropped, messages,
                   body>>

Next ==
    \/ Reject
    \/ StartBuilder
    \/ \E name \in DOMAIN request : CompileControl(name) \/ CompileRaises(name)
    \/ Build

ControlsSpec == Init /\ [][Next]_vars

-----------------------------------------------------------------------------
Mentions(id, c) == c \in profiles[id].allowed \cup profiles[id].denied

\* Resolving a chain of profiles comes to this: of the profiles that mention
\* a control the one nearest to the run decides, and denying wins where one
\* profile does both.
NearestMentionDecides ==
    phase \in {"compiling", "built"} =>
        LET all == UNION {profiles[id].allowed \cup profiles[id].denied : id \in ToSet(chain)}
            nearest(c) == CHOOSE i \in DOMAIN chain :
                             /\ Mentions(chain[i], c)
                             /\ \A j \in 1..(i - 1) : ~Mentions(chain[j], c)
        IN  /\ profile.denied =
                  {c \in all : c \in profiles[chain[nearest(c)]].denied}
            /\ profile.allowed \ profile.denied = all \ profile.denied

\* A control that the resolved profile denies, or does not list where it
\* lists any, is reported as dropped and leaves no trace in the request.  A
\* list that resolution has emptied bars nothing (query_builder.py:180, where
\* docs/configuration-architecture.md:123 has the profile gate what is used).
DeniedIsInert ==
    phase = "built" =>
        LET unlisted == IF profile.allowed = {} THEN {} ELSE DOMAIN request \ profile.allowed
        IN  \A c \in profile.denied \cup unlisted :
                /\ c \in DOMAIN request => c \in dropped \ effective
                /\ c \notin ToSet(messages)
                /\ \A f \in BodyFields : c \notin body[f]

\* The records say what happened, whatever the order the controls come in:
\* each requested control is effective or dropped and not both, and what is
\* sent comes from effective controls, with one exception: of a list of
\* examples that is dropped, those before the malformed one are sent
\* (docs/configuration-architecture.md:173 has effective_controls tell "what
\* the capability profile and provider actually used").
RecordsTellAll ==
    phase = "built" =>
        /\ DOMAIN request = effective \cup dropped
        /\ effective \cap dropped = {}
        /\ \A f \in BodyFields : body[f] \subseteq effective
        /\ \A c \in ToSet(messages) \ effective :
              c = "message_examples" /\ ~WellFormed(request[c])
=============================================================================
