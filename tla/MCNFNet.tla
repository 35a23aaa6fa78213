------------------------------- MODULE MCNFNet -------------------------------
EXTENDS NFNet, TLC
McEvents == {{"READING", "EOF"}, {"READING", "ERROR"}, {"WRITING", "ERROR"}}
=============================================================================
