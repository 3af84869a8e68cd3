----------------------------- MODULE MCPrompt -----------------------------
(* Values of Prompt's constants for TLC. Command 1 stands for run and load. *)
EXTENDS Prompt
MCCommands == << <<"r">>, <<"s">>, <<"s", "r">> >>
MCUserPrograms == << <<"s">>, <<"r", "r">> >>
MCPromptKeys == { <<"13", FALSE>>, <<"1F", FALSE>>, <<"39", FALSE>>, <<"0E", FALSE>>,
                  <<"0F", FALSE>>, <<"1C", FALSE>>, <<"4B", TRUE>>, <<"4D", TRUE>>,
                  <<"48", TRUE>>, <<"50", TRUE>>, <<"53", TRUE>> }
MCPlainKeys == { <<"13", FALSE>>, <<"0E", FALSE>>, <<"1C", FALSE>> }
MCProgramKeys == { <<"13", FALSE>>, <<"0E", FALSE>>, <<"1C", FALSE>> }
MCHoldKeys == { <<"1D", TRUE>>, <<"2A", FALSE>>, <<"36", FALSE>> }
MCBeyond == { <<>> }
MCStarts == { LastRow }
=============================================================================
