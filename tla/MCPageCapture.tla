---- MODULE MCPageCapture ----
EXTENDS PageCapture
\* The resolution is in the middle, between two options of any kind.
SomeKinds == {k \in [Option -> Kind] : k[2] = "value"}
NoEffects == [o \in Option |-> {}]
OneEffect(o, S) == [NoEffects EXCEPT ![o] = S]
\* Devices whose options wake each other, forwards and backwards, ...
SomeWakes == {NoEffects, OneEffect(1, {2, 3}), OneEffect(3, {1}), OneEffect(2, {1, 3})}
Sleepers ==
  [kind : SomeKinds, disturbs : {NoEffects}, wakes : SomeWakes,
   reloads : SUBSET Option, active : {{1}, {2}, Option}]
\* ... and those whose values change each other, in circles or not.
Disturbers ==
  [kind : [Option -> {"value", "rounding"}], disturbs : [Option -> {{}, {1}, {2}, {3}}],
   wakes : {NoEffects}, reloads : SUBSET Option, active : {Option}]
SomeDevices == {d \in Sleepers \cup Disturbers : ObeysSane(d)}
SomeTotals == {1, 5}
SomeSizes == {0, 4, 7}
====
