---------------------------- MODULE MCPwmDriver ----------------------------
(* Dark and a colour of red and some blue: channels that show different    *)
(* ones are a third colour, and the duty 1 is one that red's fade passes.  *)
EXTENDS PwmDriver
MCDark == <<0, 0, 0>>
MCFull == <<MaxDuty, 0, 1>>
MCColours == {MCDark, MCFull}
=============================================================================
