-------------------------- MODULE MCParamController --------------------------
\* Two controllers of one core that have a parameter and a command, of the three
\* kinds of classes: trigger_mux and trigger_iface, fofb_cc, and the other four.
EXTENDS ParamController
MCClasses ==
  {[reads |-> TRUE, applied |-> {}], [reads |-> TRUE, applied |-> {"len", "rst"}],
   [reads |-> FALSE, applied |-> {}]}
==============================================================================
