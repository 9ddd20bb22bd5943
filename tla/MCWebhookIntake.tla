---------------------------- MODULE MCWebhookIntake ----------------------------
EXTENDS WebhookIntake

=============================================================================
