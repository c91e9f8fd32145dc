----------------------------- MODULE MCNotifier -----------------------------
EXTENDS Notifier
=============================================================================
