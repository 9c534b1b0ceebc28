--------------------------- MODULE MCSettingsStore ---------------------------
EXTENDS SettingsStore

\* One setting of each kind.
MCEarly == <<"psrKp">>
MCLate == <<"xssid">>

\* A new revision, then a new version whose revision starts again.
MCFirmware == <<<<3, 0>>, <<3, 1>>, <<4, 0>>>>

=============================================================================
