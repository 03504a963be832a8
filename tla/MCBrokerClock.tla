--------------------------- MODULE MCBrokerClock ---------------------------
EXTENDS BrokerClock

TwoZones == {0, 20}
=============================================================================
