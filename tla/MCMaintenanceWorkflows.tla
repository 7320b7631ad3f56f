----------------------- MODULE MCMaintenanceWorkflows -----------------------
(* The maintenance workflows as TLC runs them: the command histories.      *)
EXTENDS MaintenanceWorkflows
MixedPlans == {<< <<"build", 1>>, <<"reindex", 1>> >>,
               << <<"poll", 1>>, <<"reindex", 1>> >>,
               << <<"poll", 2>>, <<"forced_poll", 2>> >>,
               << <<"scheduled_poll", 2>>, <<"poll", 1>> >>,
               << <<"old_build", 2>>, <<"build", 1>> >>,
               << <<"old_build", 1>>, <<"scheduled_poll", 2>> >>}
OnePoll == {<< <<"poll", 2>> >>}
=============================================================================
