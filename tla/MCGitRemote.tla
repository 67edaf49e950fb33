---------------------------- MODULE MCGitRemote ----------------------------
EXTENDS GitRemote

WithAndWithoutEditor == {TRUE, FALSE}
==============================================================================
