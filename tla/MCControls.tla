----------------------------- MODULE MCControls ------------------------------
(* Every way in which two controls can be allowed and denied along a chain *)
(* of three profiles; cycles, unknown profiles and other providers; and    *)
(* requests with values of every form.                                     *)
EXTENDS Controls, TLC

CONSTANTS run, middle, root, unknown, ollama, openai

Profile(allowed, denied, extends, provider) ==
    [allowed |-> allowed, denied |-> denied, extends |-> extends, provider |-> provider]

Value(form, examples, fields) == [form |-> form, examples |-> examples, fields |-> fields]
Text == Value("usable", << >>, {})
Nothing == Value("empty", << >>, {})
Examples(list) == Value("usable", list, {})
Sampling(fields) == Value("usable", << >>, fields)

Lists == SUBSET {"sampling", "seed"}

Chains ==
    {(run :> Profile(a, b, middle, AnyProvider)) @@ (middle :> Profile(c, d, root, AnyProvider))
        @@ (root :> Profile(e, f, NoProfile, ollama))
     : a \in Lists, b \in Lists, c \in Lists, d \in Lists, e \in Lists, f \in Lists}

\* Profiles that extend none: nothing takes what they deny off their list.
Alone == {run :> Profile(a, b, NoProfile, AnyProvider) : a \in Lists, b \in Lists}

SamplingRequests ==
    {("sampling" :> Sampling(fields)) @@ ("seed" :> seed)
     : fields \in SUBSET BodyFields \ {{}}, seed \in {Text, Nothing}}

\* Extensions of one profile by another, of every outcome.
Links ==
    {(run :> Profile({"persona_text"}, {}, above, provider))
        @@ (middle :> Profile(a, {"tools"}, back, ollama))
     : above \in {NoProfile, middle, run, unknown}, back \in {NoProfile, run},
       provider \in {AnyProvider, ollama, openai}, a \in {{}, {"message_examples", "tools"}}}

\* A profile that allows everything but tools.
Open == run :> Profile({}, {"tools"}, NoProfile, AnyProvider)

FormRequests ==
    {("persona_text" :> persona) @@ ("message_examples" :> examples) @@ ("tools" :> Text)
     : persona \in {Text, Nothing},
       examples \in {Nothing, Value("invalid", << >>, {})}
                    \cup {Examples(list) : list \in {<< >>, <<"ok">>, <<"ok", "ok">>, <<"bad">>,
                                                     <<"ok", "bad">>, <<"bad", "ok">>, <<"mistyped">>,
                                                     <<"ok", "mistyped">>,
                                                     <<"bad", "mistyped">>}}}

OtherRequests ==
    {("plain_output_instructions" :> form) @@ ("transcript_policy" :> form)
        @@ ("model_choice" :> form) @@ ("unheard_of" :> Text) @@ ("sampling" :> form)
     : form \in {Text, Nothing}}

Input(configured, request_) == [profiles |-> configured, run |-> run, request |-> request_]

InputsOf ==
         {Input(c, r) : c \in Chains \cup Alone, r \in SamplingRequests}
    \cup {Input(c, r) : c \in Links \cup {Open}, r \in FormRequests \cup OtherRequests}
=============================================================================
