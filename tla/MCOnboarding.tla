------------------------------ MODULE MCOnboarding ------------------------------
EXTENDS Onboarding
===============================================================================
