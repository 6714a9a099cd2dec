------------------------------ MODULE MCSensors ------------------------------
(* A planner source and a camera.  Their fields are fixed; the debounce and *)
(* the derived flag are declared on either source, in either phase, over    *)
(* either input and in either order, so most of the descriptors are refused.*)
EXTENDS Sensors

SensorKeys == {"state", "range", "stuck", "flag"}

Planner == 1
Camera  == 2

Field(i, k, p) ==
  [source |-> i, key |-> k, on |-> "message", fn |-> "field", input |-> k, fold |-> p]
On(i, k, phase, f, input) ==
  [source |-> i, key |-> k, on |-> phase, fn |-> f, input |-> input, fold |-> "last"]

Places == Planner..Camera
Debounce == {On(i, "stuck", phase, "streak", input) :
               i \in Places, phase \in {"message", "tick"}, input \in {"state", "flag"}}
Flag == {On(i, "flag", phase, "derived", input) :
           i \in Places, phase \in {"message", "tick"}, input \in {"state", "range", "stuck"}}

StateField == Field(Planner, "state", "last")
RangeField == Field(Camera, "range", "min")

\* The steps of a source follow its field; a message-step may come before it.
Arranged(x, y) ==
  CASE x.source = Planner /\ y.source = Planner -> {<<StateField, x, y, RangeField>>}
    [] x.source = Planner /\ y.source = Camera  ->
         {<<StateField, x, RangeField, y>>,
          IF y.on = "message" THEN <<StateField, x, y, RangeField>>
                              ELSE <<StateField, x, RangeField>>}
    [] OTHER -> {}

Traffic == <<{"blocked", "clear", "bad"}, {"blocked", "nan", "bad", "absent"}>>

AllDescriptors ==
  UNION {Arranged(x, y) \cup Arranged(y, x) : x \in Debounce, y \in Flag}
=============================================================================
