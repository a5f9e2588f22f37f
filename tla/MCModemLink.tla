---------------------------- MODULE MCModemLink ----------------------------
EXTENDS ModemLink
MCModes == {{"DMR"}, {"DMR", "FM"}}
=============================================================================
