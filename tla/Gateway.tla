------------------------------- MODULE Gateway -------------------------------
(***************************************************************************)
(* The egress contract of glass_ionomer/verify/gateway.py: which providers *)
(* a model call may reach, and in which order.  What the prompt says is    *)
(* left out.                                                               *)
(***************************************************************************)
EXTENDS Integers, Sequences

Residency == {"open", "restricted", "regulated"}

Admission(Provider) ==
    [allowed : SUBSET Provider, residency : Residency, fallback : BOOLEAN]

\* gateway_admit raises for an empty allow-list.
Admitted(request) == request.allowed # {}

\* Mutated form of GatewayDecision: regulated residency keeps the fallback.
DecisionAsAsked(request) == request

\* gateway_admit
GatewayDecision(request) ==
    [request EXCEPT !.fallback = request.fallback /\ request.residency # "regulated"]

\* The providers of the list that may be called, in its order.  Written out
\* rather than with SelectSeq, of which the provers know nothing.
MayCall(providers, allowed) ==
    LET among[i \in 0..Len(providers)] ==
          IF i = 0 THEN <<>>
          ELSE IF providers[i] \in allowed THEN Append(among[i - 1], providers[i])
          ELSE among[i - 1]
    IN  among[Len(providers)]

\* Mutated form of Chain: the permission to fall back is not looked at.
ChainUncut(decision, providers) == MayCall(providers, decision.allowed)

\* The requested providers that may be called, the first one only unless the
\* decision permits to fall back on another.  guarded_model_call is the case of
\* one requested provider.
Chain(decision, providers) ==
    LET chain == MayCall(providers, decision.allowed)
    IN  IF decision.fallback \/ chain = <<>> THEN chain ELSE <<Head(chain)>>
=============================================================================
