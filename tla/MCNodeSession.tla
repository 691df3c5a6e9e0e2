--------------------------- MODULE MCNodeSession ----------------------------
\* Three command files: one that leaves the mode it enters, one that does not,
\* and one that stays in one mode.  "#" stands for any comment.
EXTENDS NodeSessionProps

ThreeFiles == {<<"enter", "#", "show", "exit">>, <<"show", "", "enter">>,
               <<"show", "show">>}
=============================================================================
