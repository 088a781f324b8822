----------------------------- MODULE MCHWTaint -----------------------------
EXTENDS HWTaint, TLC

CONSTANTS Top, A, C, D, X, a, b, c, d, e, x, i, j, o, u

MCInsts == {<<>>, <<a>>, <<b>>, <<x>>, <<a, c>>, <<a, d>>, <<a, e>>}

MCModuleAt ==
  [p \in MCInsts |-> CASE p = <<>> -> Top [] p = <<a>> -> A [] p = <<x>> -> X
                       [] p = <<a, c>> -> C [] OTHER -> D]

MCIn == [m \in Modules |-> CASE m = A -> {i, j} [] OTHER -> {i}]
MCOut == [m \in Modules |-> CASE m = Top -> {} [] m = A -> {o, u} [] OTHER -> {o}]

\* d and e are both instances of D in A.
MCFirst == [m \in Modules |-> [n \in Names |-> IF m = A /\ n = e THEN d ELSE n]]

MCStores == [m \in Modules |-> {}]

MCComponent == <<a, c>>

ASSUME InstanceAssumption == SeenComponent /\ NothingStored

\* Bodies in which a sink has one of the given sources, or none (<<>>).  The
\* component and the external module have no body.
Bodies(sources) ==
  {{<<f[s], s>> : s \in {t \in DOMAIN f : f[t] # <<>>}} :
     f \in {g \in [DOMAIN sources -> UNION {sources[s] : s \in DOMAIN sources}] :
              \A s \in DOMAIN sources : g[s] \in sources[s]}}

TopBodies ==
  Bodies(<<a, i>> :> {<<Here, i>>, <<b, o>>, <<x, o>>} @@ <<a, j>> :> {<<a, u>>, <<b, o>>, <<x, o>>}
         @@ <<b, i>> :> {<<a, o>>} @@ <<x, i>> :> {<<a, u>>, <<>>})

ABodies ==
  Bodies(<<Here, o>> :> {<<c, o>>, <<e, o>>} @@ <<Here, u>> :> {<<d, o>>, <<Here, j>>}
         @@ <<c, i>> :> {<<d, o>>, <<e, o>>, <<Here, i>>}
         @@ <<d, i>> :> {<<c, o>>, <<e, o>>, <<Here, i>>} @@ <<e, i>> :> {<<c, o>>, <<Here, j>>})

MCNetlists ==
  {[m \in Modules |-> CASE m = Top -> t [] m = A -> s [] m = D -> {<<<<Here, i>>, <<Here, o>>>>}
                        [] OTHER -> {}] : t \in TopBodies, s \in ABodies}
=============================================================================
