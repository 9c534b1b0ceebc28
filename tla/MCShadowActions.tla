--------------------------- MODULE MCShadowActions ---------------------------
EXTENDS ShadowActions

CONSTANTS Update, Get

\* Two requests share their topics; those of a third stay subscribed.
TwoKeys == {<<Update, 1, FALSE>>, <<Update, 2, FALSE>>, <<Get, 3, TRUE>>}

\* The two users are followed by another action.
Followed == {<<Update, 1, FALSE>>, <<Get, 2, FALSE>>}

=============================================================================
